----------------------------- MODULE RangeStores -----------------------------
(***************************************************************************)
(* What the value range analysis knows about memory                        *)
(* (src/lib/RangeAnalysis/TaffoVRA: VRAStore.cpp, VRAnalyzer.cpp): nodes   *)
(* for pointers, structures and scalars, shared by the analyzers of the    *)
(* blocks of a function, merged where blocks meet, and at the end of each  *)
(* block into the global store, from which the results are taken.          *)
(*                                                                         *)
(* A function of a few instructions is interpreted once per call.  It is a *)
(* branch or a loop of two rounds, its blocks are evaluated in the order   *)
(* CodeInterpreter gives them, and what an instruction computes goes by    *)
(* the instruction's number.  Scalar nodes and those of GEPs never change  *)
(* and are values here; those of pointers and structures are in a heap.    *)
(***************************************************************************)
EXTENDS Integers, Sequences, SequencesExt, FiniteSetsExt, TLC

CONSTANTS
    Programs,   \* the functions
    Calls,      \* how often the function is interpreted
    Argument    \* its numeric argument, at each call

ASSUME CallsAssumption == Calls \in Nat \ {0} /\ Argument \in [1..Calls -> Int]

\* Values that no instruction computes: the function's numeric argument, and its
\* pointer argument, the address of a number of the caller.
Arg == 0
Ptr == -1

\* The types of pointers to structures.
Structs == {"struct*", "inner*"}

\* The blocks of each shape of function, in the order of their evaluation.
Order == [branch |-> <<"entry", "left", "right", "join">>,
          loop |-> <<"entry", "body", "body", "join">>]
Succs == [branch |-> [entry |-> <<"left", "right">>, left |-> <<"join">>,
                      right |-> <<"join">>, join |-> <<>>],
          loop |-> [entry |-> <<"body">>, body |-> <<"body", "join">>, join |-> <<>>]]

VARIABLES
    prog,       \* the function: its shape and its code, instructions with their blocks
    call,       \* which of its calls is being interpreted
    at,         \* how many blocks of Order have been evaluated
    pc,         \* how many instructions of the block have been
    heap,       \* the nodes that change; the first is that of the caller's number
    derived,    \* DerivedRanges of the analyzers of blocks, where there are some
    global      \* DerivedRanges of the global store

vars == <<prog, call, at, pc, heap, derived, global>>

Slots == DOMAIN prog.code
Instr(i) == prog.code[i]
SlotsOf(b) == SelectSeq([i \in Slots |-> i], LAMBDA i : Instr(i).block = b)

-----------------------------------------------------------------------------
(***************************************************************************)
(* Nodes.  An offset is a sequence of fields, followed from its end.       *)
(***************************************************************************)
Null == [kind |-> "null"]
Scalar(lo, hi) == [kind |-> "scalar", lo |-> lo, hi |-> hi]
GEPNode(parent, offset) == [kind |-> "gep", parent |-> parent, offset |-> offset]
Ref(id) == [kind |-> "ref", id |-> id]

PtrNode(parent) == [kind |-> "ptr", parent |-> parent]
StructNode == [kind |-> "struct", fields |-> <<Null, Null>>]

IsScalar(n) == n.kind = "scalar"
IsStruct(h, n) == n.kind = "ref" /\ h[n.id].kind = "struct"
IsPtr(h, n) == n.kind = "ref" /\ h[n.id].kind = "ptr"

RECURSIVE LoadNode(_, _, _)
LoadNode(h, n, offset) ==
    CASE n.kind \in {"null", "scalar"} -> n
      [] n.kind = "gep" -> LoadNode(h, n.parent, offset \o n.offset)
      [] IsPtr(h, n) -> h[n.id].parent
      [] IsStruct(h, n) ->
            IF offset = <<>> THEN n
            ELSE LET field == h[n.id].fields[Last(offset)]
                 IN  IF Len(offset) = 1 THEN field ELSE LoadNode(h, field, Front(offset))

RECURSIVE FetchRange(_, _, _)
FetchRange(h, n, offset) ==
    CASE n.kind \in {"null", "scalar"} -> n
      [] n.kind = "gep" -> FetchRange(h, n.parent, offset \o n.offset)
      [] IsPtr(h, n) -> FetchRange(h, h[n.id].parent, offset)
      [] IsStruct(h, n) ->
            IF offset = <<>> THEN n
            ELSE FetchRange(h, h[n.id].fields[Last(offset)], Front(offset))

\* (Mutant: the range is the last one assigned.)
AssignLast(dst, src) == IF IsScalar(dst) /\ IsScalar(src) THEN src ELSE Null

\* The union of two scalars; null for other nodes.
AssignScalarRange(dst, src) ==
    IF IsScalar(dst) /\ IsScalar(src)
    THEN Scalar(Min({dst.lo, src.lo}), Max({dst.hi, src.hi})) ELSE Null

\* What the code makes of a node that src is assigned to, by saveValueRange, storeNode
\* or a phi node.
Assigned(dst, src) ==
    LET union == AssignScalarRange(dst, src) IN IF union = Null THEN src ELSE union

SetField(h, n, f, to) == [h EXCEPT ![n.id].fields[f] = to]

RECURSIVE AssignStructNode(_, _, _)
AssignStructNode(h, dst, src) ==
    LET assign(g, f) ==
            LET from == g[src.id].fields[f]
                to == g[dst.id].fields[f]
                union == AssignScalarRange(to, from)
            IN  CASE from = Null -> g
                  [] from # Null /\ to = Null -> SetField(g, dst, f, from)
                  [] from # Null /\ IsStruct(g, to) -> AssignStructNode(g, to, from)
                  [] OTHER -> IF union = Null THEN g ELSE SetField(g, dst, f, union)
    IN  IF IsStruct(h, dst) /\ IsStruct(h, src) THEN FoldLeft(assign, h, <<1, 2>>) ELSE h

\* (Mutant: a pointer into a field of a structure is taken for one to that field of
\* the structure that holds it.)
RECURSIVE StoreInLast(_, _, _, _)
StoreInLast(h, dst, src, offset) ==
    CASE dst = Null \/ src = Null \/ IsScalar(dst) -> h
      [] dst.kind = "gep" -> StoreInLast(h, dst.parent, src, dst.offset)
      [] IsPtr(h, dst) -> [h EXCEPT ![dst.id].parent = Assigned(@, src)]
      [] IsStruct(h, dst) ->
            IF offset = <<>> THEN AssignStructNode(h, dst, src)
            ELSE SetField(h, dst, offset[1], Assigned(h[dst.id].fields[offset[1]], src))

RECURSIVE StoreNode(_, _, _, _)
StoreNode(h, dst, src, offset) ==
    CASE dst = Null \/ src = Null \/ IsScalar(dst) -> h
      [] dst.kind = "gep" -> StoreNode(h, dst.parent, src, offset \o dst.offset)
      [] IsPtr(h, dst) -> [h EXCEPT ![dst.id].parent = Assigned(@, src)]
      [] IsStruct(h, dst) ->
            LET f == Last(offset)
                field == h[dst.id].fields[f]
                new == Ref(Len(h) + 1)
            IN  CASE offset = <<>> -> AssignStructNode(h, dst, src)
                  [] Len(offset) = 1 -> SetField(h, dst, f, Assigned(field, src))
                  [] Len(offset) > 1 /\ field # Null -> StoreNode(h, field, src, Front(offset))
                  [] Len(offset) > 1 /\ field = Null ->
                        StoreNode(SetField(Append(h, StructNode), dst, f, new),
                                  new, src, Front(offset))

-----------------------------------------------------------------------------
(***************************************************************************)
(* Stores: the nodes of values.                                            *)
(***************************************************************************)
NoNodes == [i \in Slots |-> Null]

\* VRAnalyzer::getNode: the node in the analyzer's own store, or in that of the
\* block the value is from.
GetNode(store, i) ==
    IF store[i] = Null /\ Instr(i).block \in DOMAIN derived
    THEN derived[Instr(i).block][i] ELSE store[i]

\* A heap and a store, after the store has been merged with the nodes of another;
\* this[i] is what the store's own getNode finds for i.
ConvexMerge(h, store, other, this) ==
    LET merge(m, i) ==
            LET union == AssignScalarRange(this[i], other[i])
            IN  CASE this[i] = Null -> [m EXCEPT !.store[i] = other[i]]
                  [] IsStruct(m.heap, this[i]) ->
                        [m EXCEPT !.heap = AssignStructNode(@, this[i], other[i])]
                  [] OTHER -> IF union = Null THEN m ELSE [m EXCEPT !.store[i] = union]
    IN  FoldLeft(merge, [heap |-> h, store |-> store], [i \in Slots |-> i])

Here == Order[prog.shape][at + 1]
Now == derived[Here]
Current == SlotsOf(Here)[pc + 1]
I == Instr(Current)
Runs(opcode) ==
    at < Len(Order[prog.shape]) /\ pc < Len(SlotsOf(Here)) /\ I.op = opcode

Operand(x) ==
    CASE x = Arg -> Scalar(Argument[call], Argument[call])
      [] x = Ptr -> Ref(1)
      [] OTHER -> GetNode(Now, x)

SetNode(n) == derived' = [derived EXCEPT ![Here][Current] = n]
SaveValueRange(n) ==
    IF n = Null THEN UNCHANGED derived ELSE SetNode(Assigned(Now[Current], n))
Advance == pc' = pc + 1 /\ UNCHANGED <<prog, call, at, global>>

-----------------------------------------------------------------------------
Init ==
    /\ prog \in Programs
    /\ call = 1 /\ at = 0 /\ pc = 0
    /\ heap = <<PtrNode(Null)>>
    /\ derived = "entry" :> NoNodes
    /\ global = NoNodes

HandleAllocaInstr ==
    /\ Runs("alloca")
    /\ heap' = Append(heap, IF I.type \in Structs THEN StructNode ELSE PtrNode(Null))
    /\ SetNode(Ref(Len(heap) + 1))
    /\ Advance

HandleGEPInstr ==
    /\ Runs("gep")
    /\ IF GetNode(Now, Current) # Null THEN UNCHANGED derived
       ELSE SetNode(GEPNode(Operand(I.base), I.offset))
    /\ UNCHANGED heap
    /\ Advance

HandleStoreInstr ==
    /\ Runs("store")
    /\ heap' = StoreNode(heap, Operand(I.to), Operand(I.value), <<>>)
    /\ UNCHANGED derived
    /\ Advance

HandleMemCpyIntrinsics ==
    /\ Runs("memcpy")
    /\ heap' = StoreNode(heap, Operand(I.to), LoadNode(heap, Operand(I.from), <<>>), <<>>)
    /\ UNCHANGED derived
    /\ Advance

\* What MemorySSA finds besides, the origin of the pointer, leads to the same node here:
\* uniting its range with the loaded one (VRAnalyzer.cpp:411-420) is left out.
HandleLoadInstr ==
    /\ Runs("load")
    /\ LET loaded == LoadNode(heap, Operand(I.from), <<>>)
       IN  IF loaded = Null \/ IsScalar(loaded) THEN SaveValueRange(loaded) ELSE SetNode(loaded)
    /\ UNCHANGED heap
    /\ Advance

\* A phi node of numbers.
HandlePhiNode ==
    /\ Runs("phi")
    /\ SetNode(FoldLeft(LAMBDA n, x : IF Operand(x) = Null THEN n ELSE Assigned(n, Operand(x)),
                        Null, I.values))
    /\ UNCHANGED heap
    /\ Advance

\* A binary operation: the addition of one.
HandleBinaryInstruction ==
    /\ Runs("add")
    /\ LET n == Operand(I.value)
       IN  SaveValueRange(IF IsScalar(n) THEN Scalar(n.lo + 1, n.hi + 1) ELSE Null)
    /\ UNCHANGED heap
    /\ Advance

\* The end of a block: each successor's analyzer is made of this one's nodes or
\* merged with them, and the global store takes them too.
EndBlock ==
    /\ at < Len(Order[prog.shape]) /\ pc = Len(SlotsOf(Here))
    /\ LET update(m, b) ==
             IF b \notin DOMAIN m.derived THEN [m EXCEPT !.derived = (b :> Now) @@ @]
             ELSE LET own == m.derived[b]
                      merged == ConvexMerge(m.heap, own, Now, [i \in Slots |-> GetNode(own, i)])
                  IN  [heap |-> merged.heap, derived |-> [m.derived EXCEPT ![b] = merged.store]]
           updated == FoldLeft(update, [heap |-> heap, derived |-> derived],
                               Succs[prog.shape][Here])
           results == ConvexMerge(updated.heap, global, updated.derived[Here], global)
       IN  /\ derived' = updated.derived
           /\ heap' = results.heap
           /\ global' = results.store
    /\ at' = at + 1 /\ pc' = 0
    /\ UNCHANGED <<prog, call>>

\* The function is called again: it gets new analyzers.
NextCall ==
    /\ at = Len(Order[prog.shape]) /\ call < Calls
    /\ call' = call + 1 /\ at' = 0 /\ pc' = 0
    /\ derived' = "entry" :> NoNodes
    /\ UNCHANGED <<prog, heap, global>>

Finished == at = Len(Order[prog.shape]) /\ call = Calls
Done == Finished /\ UNCHANGED vars

Next ==
    \/ HandleAllocaInstr \/ HandleGEPInstr \/ HandleStoreInstr \/ HandleMemCpyIntrinsics
    \/ HandleLoadInstr \/ HandlePhiNode \/ HandleBinaryInstruction
    \/ EndBlock \/ NextCall \/ Done
Spec == Init /\ [][Next]_vars

-----------------------------------------------------------------------------
(***************************************************************************)
(* What the function does when it is run: a machine has the contents of    *)
(* memory and the values of instructions, and keeps all there have been.   *)
(***************************************************************************)
Number(n) == [kind |-> "number", n |-> n]
Address(root, path) == [kind |-> "address", root |-> root, path |-> path]
Undefined == [kind |-> "undefined"]

Fields == {<<>>, <<1>>, <<2>>, <<2, 1>>, <<2, 2>>}
Places == {Address(root, path) : root \in Slots \cup {Ptr}, path \in Fields}
Below(a, path) == Address(a.root, a.path \o path)

Start == [value |-> [i \in Slots |-> Undefined], memory |-> [a \in Places |-> Undefined],
          computed |-> {}, stored |-> {}]

\* The machine m after instruction i, in call c, in a block reached from b.
Execute(m, i, c, b) ==
    LET J == Instr(i)
        val(x) == CASE x = Arg -> Number(Argument[c])
                    [] x = Ptr -> Address(Ptr, <<>>)
                    [] OTHER -> m.value[x]
        give(v) == [m EXCEPT !.value[i] = v, !.computed = @ \cup {<<i, v>>}]
        put(n, a, v) == [n EXCEPT !.memory[a] = v, !.stored = @ \cup {<<a, v, c>>}]
        copied == {path \in Fields : {Below(val(J.from), path), Below(val(J.to), path)} \subseteq Places}
    IN  CASE J.op = "alloca" ->
               [give(Address(i, <<>>)) EXCEPT
                   !.memory = [a \in Places |-> IF a.root = i THEN Undefined ELSE @[a]]]
          [] J.op = "phi" -> give(val(J.values[IF b \in {"entry", "left"} THEN 1 ELSE 2]))
          [] J.op = "add" -> give(IF val(J.value) = Undefined THEN Undefined
                                  ELSE Number(val(J.value).n + 1))
          [] J.op = "gep" -> give(IF val(J.base) = Undefined THEN Undefined
                                  ELSE Below(val(J.base), J.offset))
          [] J.op = "load" -> give(IF val(J.from) = Undefined THEN Undefined
                                   ELSE m.memory[val(J.from)])
          [] J.op = "store" -> IF val(J.to) = Undefined THEN m ELSE put(m, val(J.to), val(J.value))
          [] J.op = "memcpy" ->
               IF Undefined \in {val(J.from), val(J.to)} THEN m
               ELSE FoldSet(LAMBDA path, n : put(n, Below(val(J.to), path),
                                                 m.memory[Below(val(J.from), path)]),
                            m, copied)

\* The blocks that one run of the function goes through, each with the one before.
Traces ==
    [branch |-> {<<<<"", "entry">>, <<"entry", "left">>, <<"left", "join">>>>,
                 <<<<"", "entry">>, <<"entry", "right">>, <<"right", "join">>>>},
     loop |-> {<<<<"", "entry">>, <<"entry", "body">>, <<"body", "body">>, <<"body", "join">>>>}]

RunBlock(m, c, step) == FoldLeft(LAMBDA n, i : Execute(n, i, c, step[1]), m, SlotsOf(step[2]))
RunCall(m, c, trace) == FoldLeft(LAMBDA n, step : RunBlock(n, c, step), m, trace)

\* The machines there may be when all calls have returned.
Machines ==
    {FoldLeft(LAMBDA m, c : RunCall(m, c, choice[c]), Start, [c \in 1..Calls |-> c]) :
        choice \in [1..Calls -> Traces[prog.shape]]}
Computed(M) == UNION {m.computed : m \in M}
Stored(M) == UNION {m.stored : m \in M}

Holds(n, v) == v.kind = "number" => IsScalar(n) /\ n.lo <= v.n /\ v.n <= n.hi

-----------------------------------------------------------------------------
(***************************************************************************)
(* Properties.                                                             *)
(***************************************************************************)
\* Where ranges are known to be lost: a pointer that is stored over another one
\* hides it, and a structure copied into a field replaces the one that is there.
PointerChanged(S) ==
    \E s, t \in S : s[1] = t[1] /\ s[2] # t[2] /\ s[2].kind = "address"
StructReplaced ==
    \E i \in Slots : /\ Instr(i).op = "memcpy"
                    /\ Instr(i).to \in Slots /\ Instr(Instr(i).to).op = "gep"
LosesRanges(M) == StructReplaced \/ PointerChanged(Stored(M))

\* But there, each number an instruction computes, in any run, any block and any
\* call, is in the range that the global store has for it: stores are seen through
\* every pointer to the same place, behind a join, in the next round of a loop and
\* in the next call.
ValuesCovered ==
    Finished => LET M == Machines
                IN  LosesRanges(M) \/ \A s \in Computed(M) : Holds(global[s[1]], s[2])

\* Where a range is known to be incomplete: the memory of a variable that is no
\* structure is a new node in each call, and the global store keeps the first.
OnlyFirstCall(s) == s[3] > 1 /\ s[1].root # Ptr /\ Instr(s[1].root).type \notin Structs

\* The range that the results have for a place.
SavedRange(a) ==
    FetchRange(heap, IF a.root = Ptr THEN Ref(1) ELSE global[a.root], Reverse(a.path))

\* But there, each number that is stored in a variable, a field or the caller's memory
\* is in the range saved for it.
MemoryCovered ==
    Finished => LET M == Machines
                IN  LosesRanges(M) \/ \A s \in Stored(M) :
                        OnlyFirstCall(s) \/ Holds(SavedRange(s[1]), s[2])
=============================================================================
