---------------------------- MODULE FloatToFixed ----------------------------
(***************************************************************************)
(* The conversion pass on the code of one function that is not a clone     *)
(* (src/lib/Conversion/LLVMFloatToFixed): it orders the values that have   *)
(* metadata, and their users, into a queue (sortQueue), makes a fixed      *)
(* point version of each alongside the old one (performConversion), ties   *)
(* the loops through phi nodes (closePhiLoops) and removes the old stores, *)
(* calls and phi nodes of the roots all of whose uses were converted       *)
(* (cleanup).                                                              *)
(*                                                                         *)
(* The code is a graph: every value has a sequence of operands.  Of types  *)
(* it is kept whether a value, or what a pointer leads to, is a float or a *)
(* fixed point number; the instructions that convert one to the other are  *)
(* part of the operand they are made for.                                  *)
(***************************************************************************)
EXTENDS Integers, Sequences, FiniteSets, SequencesExt, FiniteSetsExt

CONSTANTS
    Value,      \* the instructions of the function
    Const,      \* an operand that is a constant
    Programs,   \* the programs: records of
                \*   kind : per value, "alloca", "gep", "load", "store" (of its
                \*          first operand to its second), "op" (arithmetic,
                \*          select), "phi", "call" (of a function that is not
                \*          cloned), "fixcall" (of one that is) or "ret"
                \*   ops  : per value, the sequence of its operands
                \*   meta : the values with enabled and typed metadata
                \*   unfit : the calls whose arguments do not have the types
                \*          of the clone's parameters
                \*   readnone : the calls of functions that access no memory,
                \*          which are given no addresses
    Orders      \* the orders in which a set of pointers may be read: per
                \* set of values, some of its enumerations

ASSUME ValueAssumption ==
    /\ IsFiniteSet(Value) /\ Const \notin Value
    /\ \A S \in SUBSET Value : \A q \in Orders[S] :
          q \in Seq(Value) /\ IsInjective(q) /\ ToSet(q) = S

IsAddress(p, v) == v \in Value /\ p.kind[v] \in {"alloca", "gep"}

Kinds == {"alloca", "gep", "load", "store", "op", "phi", "call", "fixcall", "ret"}

\* Only a phi node may be its own operand; addresses are allocas or what is
\* computed from them; stores and returns have no result.
ASSUME ProgramAssumption ==
    \A p \in Programs :
        /\ p.kind \in [Value -> Kinds]
        /\ p.ops \in [Value -> Seq(Value \cup {Const})]
        /\ p.meta \subseteq Value /\ p.unfit \subseteq Value
        /\ \A v \in p.readnone : /\ v \in Value /\ p.kind[v] \in {"call", "fixcall"}
                                /\ \A w \in ToSet(p.ops[v]) : ~IsAddress(p, w)
        /\ \A v \in Value :
              /\ v \in ToSet(p.ops[v]) => p.kind[v] = "phi"
              /\ p.kind[v] = "alloca" => p.ops[v] = <<>>
              /\ p.kind[v] \in {"gep", "load"} =>
                    Len(p.ops[v]) = 1 /\ IsAddress(p, p.ops[v][1])
              /\ p.kind[v] = "store" =>
                    Len(p.ops[v]) = 2 /\ IsAddress(p, p.ops[v][2])
              /\ \A w \in ToSet(p.ops[v]) \ {Const} : p.kind[w] \notin {"store", "ret"}

VARIABLES
    program,    \* the program, never changed
    graph,      \* the code: the operands of each instruction
    vals,       \* the queue
    next,       \* the next value of it to look at
    hasInfo,    \* the values that have a ValueInfo
    noTypeConversion,   \* those among them whose type is kept
    roots,      \* ValueInfo::roots
    phiReplacementData, \* the phi nodes replaced by placeholders
    operandPool,        \* what the values of the queue were converted to
    erased,     \* the instructions removed
    phase       \* "sort", "convert", "close", "cleanup" or "done"

vars == <<program, graph, vals, next, hasInfo, noTypeConversion, roots,
          phiReplacementData, operandPool, erased, phase>>

Kind(v) == program.kind[v]
IsPhi(v) == Kind(v) = "phi"
IsVoid(v) == Kind(v) \in {"store", "ret"}
IsPointer(v) == Kind(v) \in {"alloca", "gep"}

-----------------------------------------------------------------------------
(***************************************************************************)
(* Instructions are those of the program ("old"), what they are converted  *)
(* to ("new"), and the placeholders of a phi node ("noconv" and "conv").   *)
(* An operand is an instruction, a constant ("const"), an undefined value  *)
(* ("undef") or the sentinel ConversionError ("error"), used as a float or *)
(* as a fixed point number, or as a pointer to one.                        *)
(***************************************************************************)
Operand(role, v, as) == [role |-> role, v |-> v, as |-> as]
Node(o) == <<o.role, o.v>>

Old(v) == IF v = Const THEN Operand("const", v, "float") ELSE Operand("old", v, "float")
New(v, as) == Operand("new", v, as)
ConversionError == Operand("error", Const, "float")
None == Operand("none", Const, "float")

\* The users of v, and the uses of phi nodes replaced by placeholders.
Users(g, v) == {u \in Value : \E k \in DOMAIN g[<<"old", u>>] :
                                 Node(g[<<"old", u>>][k]) = <<"old", v>>}

\* (Mutant: the loops are never opened.)
OpenNoLoop(g, S) == g

\* openPhiLoop on each node of S that is used.
OpenPhiLoops(g, S) ==
    [n \in DOMAIN g |-> [k \in DOMAIN g[n] |->
        LET o == g[n][k] IN IF o.role = "old" /\ o.v \in S
                            THEN Operand("noconv", o.v, o.as) ELSE o]]

Used(g, S) == {p \in S : Users(g, p) # {}}

-----------------------------------------------------------------------------
(***************************************************************************)
(* sortQueue                                                               *)
(***************************************************************************)
\* (Mutant: a root that has got roots of its own is still handed on.)
RootsOnce(v) == roots[v]

\* The roots that v hands on to its users.
StillRoots(v) == {r \in roots[v] : roots[r] = {}}

\* The queue q without the values of S.
Without(q, S) ==
    LET kept[i \in 0..Len(q)] ==
            IF i = 0 THEN <<>>
            ELSE IF q[i] \in S THEN kept[i - 1] ELSE Append(kept[i - 1], q[i])
    IN  kept[Len(q)]

\* (Mutant: a user without metadata gets no ValueInfo.)
VisitUnknown(v, us) ==
    LET new == ToSet(us) \ hasInfo
    IN  /\ vals' = Without(vals, ToSet(us)) \o us
        /\ next' = next + 1 - Cardinality({i \in 1..next - 1 : vals[i] \in ToSet(us)})
        /\ noTypeConversion' = noTypeConversion \cup new
        /\ UNCHANGED <<hasInfo, roots, graph, phiReplacementData>>

\* The value v at next: its users move to the end of the queue, in the order
\* of its use list, and take its roots.
Visit(v, us) ==
    LET rs == StillRoots(v)
        from == IF rs = {} THEN {v} ELSE rs
        phis == {p \in {v} \cup ToSet(us) : IsPhi(p)}
        new == ToSet(us) \ hasInfo
        before == {i \in 1..next - 1 : vals[i] \in ToSet(us)}
    IN  /\ vals' = Without(vals, ToSet(us)) \o us
        /\ next' = next + 1 - Cardinality(before)
        /\ hasInfo' = hasInfo \cup new
        /\ noTypeConversion' = noTypeConversion \cup new
        /\ roots' = [w \in Value |-> IF w = v THEN rs
                                     ELSE IF w \in ToSet(us) THEN roots[w] \cup from
                                     ELSE roots[w]]
        /\ graph' = OpenPhiLoops(graph, phis)
        /\ phiReplacementData' = phiReplacementData \cup Used(graph, phis)

SortNext ==
    /\ phase = "sort" /\ next <= Len(vals)
    /\ LET v == vals[next]
           users == IF IsPhi(v) THEN {} ELSE Users(graph, v)
       IN  \E us \in Orders[users] : Visit(v, us)
    /\ UNCHANGED <<program, operandPool, erased, phase>>

\* The end of the loop: values without roots are roots, and what a function
\* returns keeps its type.
FinishSort ==
    /\ phase = "sort" /\ next > Len(vals)
    /\ roots' = [v \in Value |-> IF v \in ToSet(vals) /\ roots[v] = {} THEN {v}
                                 ELSE roots[v]]
    /\ noTypeConversion' = noTypeConversion \cup {v \in ToSet(vals) : Kind(v) = "ret"}
    /\ next' = 1 /\ phase' = "convert"
    /\ UNCHANGED <<program, graph, vals, hasInfo, phiReplacementData, operandPool,
                   erased>>

-----------------------------------------------------------------------------
(***************************************************************************)
(* performConversion                                                       *)
(***************************************************************************)
\* operandPool[o], where o may be a placeholder.
Pool(o) ==
    CASE o.role = "old" -> operandPool[o.v]
      [] o.role = "noconv" /\ o.v \notin noTypeConversion -> Operand("conv", o.v, "fix")
      [] o.role = "noconv" /\ o.v \in noTypeConversion -> o
      [] OTHER -> None

\* isFloatingPointToConvert
ToConvert(o) == o.role # "const" /\ o.v \in hasInfo \ noTypeConversion

MatchOp(o) == IF Pool(o) = None THEN o ELSE Pool(o)

\* translateOrMatchOperandAndType
TranslateOrMatch(o) ==
    CASE Pool(o) = ConversionError -> ConversionError
      [] Pool(o) = None -> [o EXCEPT !.as = "fix"]
      [] OTHER -> [Pool(o) EXCEPT !.as = "fix"]

\* fallbackMatchValue: the float that o was converted to, if it was.
Matched(o) == Pool(o) \notin {None, ConversionError}
FallbackMatch(o) ==
    IF ~Matched(o) THEN o
    ELSE IF o.v \in noTypeConversion THEN Pool(o)
    ELSE [Pool(o) EXCEPT !.as = "float"]

\* What becomes of v: a new instruction, itself with other operands, or nothing.
Becomes(v, ops, as) ==
    /\ graph' = [n \in DOMAIN graph \cup {<<"new", v>>} |->
                    IF n = <<"new", v>> THEN ops ELSE graph[n]]
    /\ operandPool' = [operandPool EXCEPT ![v] = New(v, as)]

StaysWith(v, ops) ==
    /\ graph' = [graph EXCEPT ![<<"old", v>>] = ops]
    /\ operandPool' = [operandPool EXCEPT ![v] = Old(v)]

Fails(v) ==
    /\ operandPool' = [operandPool EXCEPT ![v] = ConversionError]
    /\ UNCHANGED graph

Ops(v) == graph[<<"old", v>>]
FallbackOps(v) == [k \in DOMAIN Ops(v) |-> FallbackMatch(Ops(v)[k])]
FixedOps(v) == [k \in DOMAIN Ops(v) |-> TranslateOrMatch(Ops(v)[k])]
SomeFailed(ops) == \E k \in DOMAIN ops : ops[k] = ConversionError

Fallback(v) ==
    IF v \in noTypeConversion THEN StaysWith(v, FallbackOps(v))
    ELSE Becomes(v, FallbackOps(v), IF IsVoid(v) \/ IsPointer(v) THEN "float" ELSE "fix")

ConvertAlloca(v) ==
    IF v \in noTypeConversion THEN StaysWith(v, <<>>) ELSE Becomes(v, <<>>, "fix")

ConvertLoad(v) ==
    LET ptr == Pool(Ops(v)[1])
    IN  IF ptr = ConversionError THEN Fails(v)
        ELSE IF ptr.as = "fix"
        THEN Becomes(v, <<ptr>>, IF v \in noTypeConversion THEN "float" ELSE "fix")
        ELSE Fallback(v)

ConvertStore(v) ==
    LET val == Ops(v)[1]
        ptr == MatchOp(Ops(v)[2])
        newval == IF ToConvert(val)
                  THEN IF ptr.as = "fix" THEN TranslateOrMatch(val) ELSE FallbackMatch(val)
                  ELSE IF ptr.as = "fix" THEN [val EXCEPT !.as = "fix"] ELSE MatchOp(val)
    IN  IF ptr = ConversionError THEN Fails(v)
        ELSE IF ToConvert(val) /\ ptr.as # "fix" /\ ~Matched(val) THEN Fallback(v)
        ELSE IF newval = ConversionError THEN Fails(v)
        ELSE Becomes(v, <<newval, ptr>>, "float")

ConvertGep(v) ==
    LET ptr == MatchOp(Ops(v)[1])
    IN  IF ptr = ConversionError
        THEN IF v \in noTypeConversion THEN Fallback(v) ELSE Fails(v)
        ELSE IF ptr.as # "fix" \/ v \in noTypeConversion THEN Fallback(v)
        ELSE Becomes(v, <<ptr>>, "fix")

ConvertOp(v) ==
    IF v \in noTypeConversion THEN Fallback(v)
    ELSE IF SomeFailed(FixedOps(v)) THEN Fails(v)
    ELSE Becomes(v, FixedOps(v), "fix")

\* (Mutant: a phi node is kept only if all its operands were converted.)
PhiNeedsAll(v) ==
    IF v \notin noTypeConversion THEN ConvertOp(v)
    ELSE IF \A k \in DOMAIN Ops(v) : Matched(Ops(v)[k])
    THEN StaysWith(v, FallbackOps(v)) ELSE Fails(v)

ConvertPhi(v) ==
    IF v \in noTypeConversion
    THEN IF \E k \in DOMAIN Ops(v) : Matched(Ops(v)[k])
         THEN StaysWith(v, FallbackOps(v)) ELSE Fails(v)
    ELSE ConvertOp(v)

ConvertCall(v) ==
    IF Kind(v) = "call" \/ SomeFailed(FixedOps(v)) THEN Fallback(v)
    ELSE IF v \in program.unfit THEN Fails(v)
    ELSE Becomes(v, FixedOps(v), IF v \in noTypeConversion THEN "float" ELSE "fix")

ConvertInstruction(v) ==
    \/ Kind(v) = "alloca" /\ ConvertAlloca(v)
    \/ Kind(v) = "load" /\ ConvertLoad(v)
    \/ Kind(v) = "store" /\ ConvertStore(v)
    \/ Kind(v) = "gep" /\ ConvertGep(v)
    \/ Kind(v) = "phi" /\ ConvertPhi(v)
    \/ Kind(v) = "op" /\ ConvertOp(v)
    \/ Kind(v) \in {"call", "fixcall"} /\ ConvertCall(v)
    \/ Kind(v) = "ret" /\ Fallback(v)

ConvertNext ==
    /\ phase = "convert" /\ next <= Len(vals)
    /\ ConvertInstruction(vals[next])
    /\ next' = next + 1
    /\ UNCHANGED <<program, vals, hasInfo, noTypeConversion, roots,
                   phiReplacementData, erased, phase>>

FinishConversion ==
    /\ phase = "convert" /\ next > Len(vals)
    /\ phase' = "close"
    /\ UNCHANGED <<program, graph, vals, next, hasInfo, noTypeConversion, roots,
                   phiReplacementData, operandPool, erased>>

-----------------------------------------------------------------------------
(***************************************************************************)
(* closePhiLoops and cleanup                                               *)
(***************************************************************************)
\* What a placeholder is replaced with.
Closed(o) ==
    IF o.role = "noconv" /\ o.v \notin noTypeConversion THEN [o EXCEPT !.role = "old"]
    ELSE IF o.role \in {"noconv", "conv"} THEN [operandPool[o.v] EXCEPT !.as = o.as]
    ELSE o

ClosePhiLoops ==
    /\ phase = "close"
    /\ graph' = [n \in DOMAIN graph |-> [k \in DOMAIN graph[n] |-> Closed(graph[n][k])]]
    /\ phase' = "cleanup"
    /\ UNCHANGED <<program, vals, next, hasInfo, noTypeConversion, roots,
                   phiReplacementData, operandPool, erased>>

PotentiallyUsesMemory(v) == v \notin program.readnone

\* The roots of the values that failed, but for those that use no memory.
InvalidRoots ==
    UNION {roots[v] : v \in {w \in ToSet(vals) : /\ operandPool[w] = ConversionError
                                                /\ PotentiallyUsesMemory(w)}}

\* isrootok, which is false of a value that is not a root.
RootOk(r) == roots[r] = {r} /\ r \notin InvalidRoots

\* (Mutant: an old version goes whenever there is a new one.)
EraseConverted ==
    {v \in ToSet(vals) : /\ Kind(v) \in {"store", "call", "fixcall", "phi"}
                         /\ operandPool[v] \notin {Old(v), ConversionError}}

\* The stores, calls and phi nodes that were converted with all their roots.
ToErase ==
    {v \in ToSet(vals) : /\ Kind(v) \in {"store", "call", "fixcall", "phi"}
                         /\ operandPool[v] # Old(v)
                         /\ \A r \in roots[v] : RootOk(r)}

Cleanup ==
    /\ phase = "cleanup"
    /\ erased' = ToErase
    /\ graph' = [n \in DOMAIN graph \ {<<"old", v>> : v \in ToErase} |->
                    [k \in DOMAIN graph[n] |->
                        LET o == graph[n][k]
                        IN  IF o.role = "old" /\ o.v \in ToErase
                            THEN Operand("undef", Const, o.as) ELSE o]]
    /\ phiReplacementData' = {}
    /\ phase' = "done"
    /\ UNCHANGED <<program, vals, next, hasInfo, noTypeConversion, roots, operandPool>>

-----------------------------------------------------------------------------
Init ==
    /\ program \in Programs
    /\ graph = [n \in {"old"} \X Value |->
                    [k \in DOMAIN program.ops[n[2]] |-> Old(program.ops[n[2]][k])]]
    /\ vals \in Orders[program.meta]
    /\ next = 1
    /\ hasInfo = program.meta
    /\ noTypeConversion = {}
    /\ roots = [v \in Value |-> {}]
    /\ phiReplacementData = {}
    /\ operandPool = [v \in Value |-> None]
    /\ erased = {}
    /\ phase = "sort"

Step == SortNext \/ FinishSort \/ ConvertNext \/ FinishConversion \/ ClosePhiLoops \/ Cleanup
Finished == phase = "done" /\ UNCHANGED vars
Next == Step \/ Finished

Spec == Init /\ [][Next]_vars

-----------------------------------------------------------------------------
(***************************************************************************)
(* What a correct run of the pass means.                                   *)
(***************************************************************************)
PoolT == {None, ConversionError}
         \cup [role : {"old", "new"}, v : Value, as : {"float", "fix"}]

\* The variables have their types; the queue never loses its place and only
\* values with metadata keep or change their types.
TypeOK ==
    /\ vals \in Seq(Value) /\ next \in 1..Len(vals) + 1
    /\ noTypeConversion \subseteq hasInfo /\ hasInfo \subseteq Value
    /\ roots \in [Value -> SUBSET Value]
    /\ operandPool \in [Value -> PoolT]
    /\ phase \in {"sort", "convert", "close", "cleanup", "done"}

\* f applied n times to x.
Repeated(f, n, x) ==
    LET result[k \in 0..n] == IF k = 0 THEN x ELSE f[result[k - 1]]
    IN  result[n]

OriginalUsers(v) == {u \in Value : v \in ToSet(program.ops[u])}

\* The values of S and their users, and the values that depend on one of S.
WithUsers(S) == S \cup (UNION {OriginalUsers(v) : v \in S})
Reached(S) == Repeated([W \in SUBSET Value |-> WithUsers(W)], Cardinality(Value), S)

\* What the data type allocation leaves: what uses a value with metadata has it,
\* or is a phi node, and what uses that phi node has it.
UsersMarked ==
    \A p \in Programs : \A u, v \in Value : v \in ToSet(p.ops[u]) =>
        IF p.kind[v] = "phi"
        THEN v \in p.meta \/ ToSet(p.ops[v]) \cap p.meta # {} => u \in p.meta
        ELSE v \in p.meta => u \in p.meta \/ p.kind[u] = "phi"

\* Once sorted, the queue holds every value that depends on one with metadata
\* exactly once, operands before their users except around a phi node, and what
\* a value was traced back to are values that depend on no other.
\* (sortQueue moves a value that is reached again to the end, before and after
\* the place it has come to, and hides the users of phi nodes from itself.)
QueueOrdered ==
    phase # "sort" =>
        /\ Cardinality(ToSet(vals)) = Len(vals)
        /\ ToSet(vals) = Reached(program.meta)
        /\ \A i, j \in DOMAIN vals :
              ~IsPhi(vals[i]) /\ vals[j] \in OriginalUsers(vals[i]) => i < j
        /\ \A v \in ToSet(vals) : \A r \in roots[v] : roots[r] = {r}

Failed == {v \in Value : operandPool[v] = ConversionError}

\* A value fails to convert only when it is such a call or depends on one that
\* failed: no other mixture of converted and unconverted operands, in whatever
\* order they are read, makes a conversion fail.  (translateOrMatchOperand,
\* fallbackMatchValue and the fallbacks of each instruction.)
FailuresExplained == Failed \subseteq Reached(program.unfit \cap Failed)

-----------------------------------------------------------------------------
(***************************************************************************)
(* The code that is left computes what the program did.  Where a call      *)
(* failed this holds of programs that keep the damage in one place.  A     *)
(* value is damaged if it has a root that cleanup takes as invalid.  Then  *)
(* all of its roots are; a call is not converted next to its original,     *)
(* and neither is a store to memory that stays as it is; an instruction    *)
(* that is kept takes no converted operand; a phi node is damaged with     *)
(* its users, and never itself fails; and what failed is damaged.          *)
(* (Elsewhere cleanup leaves both versions of a call or a store, what is   *)
(* kept reads a new version whose stores failed, closePhiLoops is handed   *)
(* the sentinel ConversionError, or a call that failed is erased, since it *)
(* uses no memory and nothing that failed behind it does either, and what  *)
(* it returned becomes undefined.)                                         *)
(***************************************************************************)
Damaged(v) == roots[v] \cap InvalidRoots # {}

Contained ==
    /\ \A v \in Failed : Damaged(v)
    /\ \A v \in ToSet(vals) : Damaged(v) =>
          /\ roots[v] \subseteq InvalidRoots
          /\ Kind(v) \in {"call", "fixcall"} => operandPool[v].role # "new"
          /\ Kind(v) = "store" /\ operandPool[v].role = "new" =>
                operandPool[program.ops[v][2]].as = "fix"
          /\ operandPool[v] = Old(v) =>
                \A o \in ToSet(program.ops[v]) \ {Const} : operandPool[o].role # "new"
    /\ \A p \in ToSet(vals) : IsPhi(p) =>
          p \notin Failed /\ \A u \in OriginalUsers(p) : Damaged(u) <=> Damaged(p)

\* The memory an address leads to: an alloca or its new version.
Memory(o) ==
    LET base == [n \in DOMAIN graph |-> IF Kind(n[2]) = "gep" THEN Node(graph[n][1]) ELSE n]
    IN  Repeated(base, Cardinality(Value), Node(o))
OriginalMemory(v) ==
    LET base == [w \in Value |-> IF Kind(w) = "gep" THEN program.ops[w][1] ELSE w]
    IN  Repeated(base, Cardinality(Value), v)

\* The operands of v through which it accesses memory: of a store only the
\* second.
AddressesOf(v) ==
    {k \in DOMAIN program.ops[v] :
        /\ program.ops[v][k] # Const /\ IsPointer(program.ops[v][k])
        /\ Kind(v) = "store" => k = 2}

\* The memory an instruction reads or writes, and what wrote it before.
Accesses(n) == {Memory(graph[n][k]) : k \in AddressesOf(n[2])}
Reads(n) == IF Kind(n[2]) \in {"load", "fixcall"} THEN Accesses(n) ELSE {}
Writes(n) == IF Kind(n[2]) \in {"store", "fixcall"} THEN Accesses(n) ELSE {}
OriginalWriters(a) ==
    {s \in Value : /\ Kind(s) \in {"store", "fixcall"}
                   /\ \E k \in AddressesOf(s) : OriginalMemory(program.ops[s][k]) = a}

\* What is left once instructions that nothing depends on are removed.
Effects == {n \in DOMAIN graph : Kind(n[2]) \in {"call", "fixcall", "ret"}}
WithNeeded(S) ==
    LET read == UNION {Reads(n) : n \in S}
    IN  S \cup ({Node(o) : o \in UNION {ToSet(graph[n]) : n \in S}} \cap DOMAIN graph)
          \cup {n \in DOMAIN graph : Kind(n[2]) = "store" /\ Writes(n) \cap read # {}}
Live ==
    Repeated([S \in SUBSET DOMAIN graph |-> WithNeeded(S)], Cardinality(DOMAIN graph), Effects)

\* Every operand of what is left is a version of the operand the program had
\* there: never a removed instruction, a placeholder of a phi node, an undefined
\* value or the sentinel.
SameOperands ==
    phase = "done" /\ Contained =>
        \A n \in Live : \A k \in DOMAIN graph[n] :
            LET o == graph[n][k]
                w == program.ops[n[2]][k]
            IN  IF w = Const THEN o.role = "const"
                ELSE o.role \in {"old", "new"} /\ o.v = w /\ Node(o) \in DOMAIN graph

\* Memory that is read, in its old version or its new one, is still written by
\* all that wrote it in the program; and a call or return happens once.
EffectsKept ==
    phase = "done" /\ Contained =>
        /\ \A n \in Live : \A m \in Reads(n) : \A s \in OriginalWriters(m[2]) :
              \E x \in Live : x[2] = s /\ m \in Writes(x)
        /\ \A v \in Value : Kind(v) \in {"call", "fixcall", "ret"} =>
              Cardinality({n \in DOMAIN graph : n[2] = v}) = 1

\* What is left computes what the program did.
SameBehaviour == SameOperands /\ EffectsKept
=============================================================================
