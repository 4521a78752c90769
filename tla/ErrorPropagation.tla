-------------------------- MODULE ErrorPropagation --------------------------
(***************************************************************************)
(* The error propagation (src/lib/ErrorAnalysis/ErrorPropagator): it visits*)
(* the instructions of a converted function in the order of BlockScheduler *)
(* and computes for each a bound on the difference between its result and  *)
(* that of the function in real numbers, from the errors of its operands,  *)
(* the ranges in the metadata and the rounding errors of types.            *)
(*                                                                         *)
(* A called function is computed with the errors of its arguments, in a    *)
(* copy of the table of ranges and errors.  Loops are as they are with     *)
(* -nounroll; one that LLVM unrolls in full is straight code.              *)
(***************************************************************************)
EXTENDS BlockScheduler, AffineForms

CONSTANTS
    Programs,           \* records of
                        \*   funcs : per function, its graph, its loops and its maxrec
                        \*           (0 if the metadata give none),
                        \*   code  : the values: arguments, constants and instructions,
                        \*           in blocks, each with its operands ops and the range
                        \*           (with the rounding error of the type) and the initial
                        \*           error init (-1 for none) of its metadata,
                        \*   todo  : the functions to be computed, in this order
    MaxRecursionCount   \* the default of -recur

ASSUME RecursionAssumption == MaxRecursionCount \in Nat \ {0}

VARIABLES
    prog,       \* the program
    todo,       \* the functions not yet begun
    frames,     \* the FunctionErrorPropagators, the one at work last
    glob,       \* the table of ranges and errors the functions begin with
    count,      \* RecCount of the functions
    sym,        \* counts steps: new noise symbols are tuples that begin with it
    attached,   \* the errors attached to instructions as metadata
    doubtful    \* the comparisons and whether they have been found doubtful

vars == <<prog, todo, frames, glob, count, sym, attached, doubtful>>

Values == DOMAIN prog.code
V(i) == prog.code[i]
InFunc(f) == {i \in Values : V(i).fn = f}
IsInstr(i) == V(i).op \notin {"arg", "const"}
SlotsOf(f, b) ==
    SelectSeq([i \in Values |-> i], LAMBDA i : V(i).fn = f /\ V(i).block = b /\ IsInstr(i))
Args(f) == SelectSeq([i \in Values |-> i], LAMBDA i : V(i).fn = f /\ V(i).op = "arg")

-----------------------------------------------------------------------------
(***************************************************************************)
(* The table of ranges and errors.  An error is a set of at most one form, *)
(* empty if there is none.                                                 *)
(***************************************************************************)
NoError == {}
NoRange == <<0, -1, 0>>
EmptyMap == [re |-> << >>, fun |-> << >>, targets |-> << >>]

GetError(m, v) == IF v \in DOMAIN m.re THEN m.re[v].error ELSE NoError
GetFunError(m, f) == IF f \in DOMAIN m.fun THEN m.fun[f] ELSE NoError
AbsErr(error) == Max({NoiseTermsAbsSum(e) : e \in error})

\* Every instruction is a target of its own: the largest error it has ever had.
UpdateTarget(m, v) ==
    IF GetError(m, v) = NoError \/ ~IsInstr(v) THEN m
    ELSE LET old == IF v \in DOMAIN m.targets THEN m.targets[v] ELSE 0
         IN  [m EXCEPT !.targets = v :> Max({old, AbsErr(m.re[v].error)}) @@ @]

SetRangeError(m, v, range, error) ==
    UpdateTarget([m EXCEPT !.re = v :> [range |-> range, error |-> error] @@ @], v)

RangeOf(m, v) == IF v \in DOMAIN m.re THEN m.re[v].range ELSE NoRange
SetError(m, v, error) == SetRangeError(m, v, RangeOf(m, v), error)

\* The initial error of v, if its metadata gives one.
InitialError(v, s) == IF V(v).init = -1 THEN NoError ELSE {Noise(V(v).init, s)}

Put(m, v, error) == [m EXCEPT !.re = v :> [range |-> V(v).range, error |-> error] @@ @]

\* The constants that instruction i uses, with their rounding errors.
RetrieveConstRanges(m, i) ==
    LET rounding(c) == IF V(c).range[3] = 0 THEN Central(0) ELSE Noise(V(c).range[3], <<sym, c>>)
    IN  FoldSet(LAMBDA c, n : Put(n, c, {rounding(c)}), m,
                {c \in ToSet(V(i).ops) : V(c).op = "const"})

\* These, and the metadata of i itself, before it is computed.
RetrieveRangeError(m, i) ==
    LET known == RetrieveConstRanges(m, i)
    IN  IF V(i).range = NoRange THEN known ELSE Put(known, i, InitialError(i, <<sym, i>>))

-----------------------------------------------------------------------------
(***************************************************************************)
(* Memory, as LLVM's MemorySSA gives it (external): the accesses that may  *)
(* have put there what a load reads.  A pointer is an alloca or argument.  *)
(***************************************************************************)
LiveOnEntry == [kind |-> "entry"]
MemoryDef(i) == [kind |-> "def", inst |-> i]
MemoryPhi(b) == [kind |-> "phi", block |-> b]

Graph(f) == prog.funcs[f].graph
Defs(f, b) == SelectSeq(SlotsOf(f, b), LAMBDA i : V(i).op \in {"store", "call"})

RECURSIVE AccessAtEnd(_, _), AccessAtBegin(_, _)
AccessAtEnd(f, b) ==
    IF Defs(f, b) = <<>> THEN AccessAtBegin(f, b) ELSE MemoryDef(Last(Defs(f, b)))
AccessAtBegin(f, b) ==
    LET incoming == {AccessAtEnd(f, p) : p \in Preds(Graph(f), b)}
    IN  CASE incoming = {} -> LiveOnEntry
          [] Cardinality(incoming) = 1 -> CHOOSE a \in incoming : TRUE
          [] OTHER -> MemoryPhi(b)

\* The access that instruction i of function f follows.
AccessBefore(f, i) ==
    LET before == SelectSeq(Defs(f, V(i).block), LAMBDA d : d < i)
    IN  IF before = <<>> THEN AccessAtBegin(f, V(i).block) ELSE MemoryDef(Last(before))

\* A call may write where the pointers it is passed lead.
MayWrite(i, p) == IF V(i).op = "store" THEN V(i).ops[2] = p ELSE p \in ToSet(V(i).ops)

RECURSIVE ClobberingAccess(_, _, _)
ClobberingAccess(f, a, p) ==
    CASE a.kind = "entry" -> a
      [] a.kind = "def" ->
            IF MayWrite(a.inst, p) THEN a ELSE ClobberingAccess(f, AccessBefore(f, a.inst), p)
      [] a.kind = "phi" ->
            LET all == {ClobberingAccess(f, AccessAtEnd(f, b), p) : b \in Preds(Graph(f), a.block)}
            IN  IF Cardinality(all) = 1 THEN CHOOSE c \in all : TRUE ELSE a

\* findLOEError: the pointer itself, if there is an error for it.
LOESource(m, p) == IF GetError(m, p) = NoError THEN {} ELSE {p}

\* findMemSSAError: the values whose errors stand for what a load through p reads.
RECURSIVE MemSources(_, _, _, _)
MemSources(m, f, a, p) ==
    CASE a.kind = "entry" -> LOESource(m, p)
      [] a.kind = "def" -> IF V(a.inst).op = "call" THEN LOESource(m, p) ELSE {a.inst}
      [] a.kind = "phi" ->
            UNION {MemSources(m, f, AccessAtEnd(f, b), p) : b \in Preds(Graph(f), a.block)}

-----------------------------------------------------------------------------
(***************************************************************************)
(* Instructions.                                                           *)
(***************************************************************************)
Top == Last(frames)
Here == Top.order[Top.at]
Code == SlotsOf(Top.fn, Here)
Current == Code[Top.pc + 1]
I == V(Current)
Runs(opcodes) ==
    frames # <<>> /\ Top.at \in 1..Len(Top.order) /\ Top.pc < Len(Code) /\ I.op \in opcodes

\* The table when the instruction is computed, and the errors of its operands.
M == RetrieveRangeError(Top.rmap, Current)
Op(k) == I.ops[k]
Err(k) == GetError(M, Op(k))
Fresh(k) == <<sym, k, Current>>

OnTop(fields) == [frames EXCEPT ![Len(frames)] = fields @@ @]

\* The instruction is left behind, with the table m; or with its initial error if
\* nothing has been computed.
Leave(m) == frames' = OnTop([rmap |-> m, pc |-> Top.pc + 1]) /\ sym' = sym + 1
LeaveUncomputed ==
    Leave(IF I.range = NoRange \/ I.init = -1 THEN M
          ELSE SetError(M, Current, {Noise(I.init, Fresh(0))}))
Computed(error) == Leave(SetError(M, Current, error))
Inside == UNCHANGED <<prog, todo, glob, count, attached, doubtful>>

PropagateMul(r1, e1, r2, e2) ==
    Plus(Plus(Times(OfInterval(r1, Fresh(1)), e2, Fresh(2)),
              Times(OfInterval(r2, Fresh(3)), e1, Fresh(4))),
         Times(e1, e2, Fresh(5)))

\* The amount a number is shifted by is exact, and no operand of the model.
PropagateBinaryOp ==
    /\ Runs({"add", "sub", "mul", "shr"})
    /\ IF Err(1) = NoError \/ Err(Len(I.ops)) = NoError \/ (I.op = "shr" /\ I.range = NoRange)
       THEN LeaveUncomputed
       ELSE \E e1 \in Err(1), e2 \in Err(Len(I.ops)) :
              Computed({CASE I.op = "add" -> Plus(e1, e2)
                          [] I.op = "sub" -> Minus(e1, e2)
                          [] I.op = "mul" -> PropagateMul(M.re[Op(1)].range, e1,
                                                          M.re[Op(2)].range, e2)
                          [] I.op = "shr" -> Plus(e1, Noise(I.range[3], Fresh(0)))})
    /\ Inside

\* unOpErrorPassThrough, of extensions and the like.
PropagateExt ==
    /\ Runs({"ext"})
    /\ CASE Err(1) = NoError -> LeaveUncomputed
         [] Err(1) # NoError /\ RangeOf(M, Current) = NoRange ->
               Leave(SetRangeError(M, Current, M.re[Op(1)].range, Err(1)))
         [] OTHER -> Computed(Err(1))
    /\ Inside

PropagateSelect ==
    /\ Runs({"select"})
    /\ IF Current \notin DOMAIN M.re \/ Err(1) = NoError \/ Err(2) = NoError
       THEN LeaveUncomputed
       ELSE Computed({Noise(AbsErr(Err(1) \cup Err(2)), Fresh(0))})
    /\ Inside

\* The range from the least to the largest number of those of the set.
Hull(ranges) ==
    IF NoRange \in ranges THEN NoRange
    ELSE <<Min({r[1] : r \in ranges}), Max({r[2] : r \in ranges}), 0>>

\* The largest error of the incoming values that have one.
PropagatePhi ==
    /\ Runs({"phi"})
    /\ LET known == {M.re[v] : v \in ToSet(I.ops) \cap DOMAIN M.re}
           range == IF Current \in DOMAIN M.re THEN M.re[Current].range
                    ELSE Hull({e.range : e \in known})
           errors == UNION {e.error : e \in known}
       IN  IF errors = NoError THEN LeaveUncomputed
           ELSE Leave(SetRangeError(M, Current, range, {Noise(AbsErr(errors), Fresh(0))}))
    /\ Inside

\* updateArgumentRE: the pointer has the largest error that was stored through it.
UpdateArgumentRE(m, p, v) ==
    IF GetError(m, p) = NoError \/ AbsErr(m.re[p].error) < AbsErr(m.re[v].error)
    THEN SetRangeError(m, p, m.re[v].range, m.re[v].error) ELSE m

PropagateStore ==
    /\ Runs({"store"})
    /\ LET v == IF Err(1) = NoError THEN Op(2) ELSE Op(1)
           stored == SetRangeError(M, Current, M.re[v].range, M.re[v].error)
       IN  IF GetError(M, v) = NoError THEN LeaveUncomputed
           ELSE Leave(UpdateArgumentRE(stored, Op(2), v))
    /\ Inside

PropagateLoad ==
    /\ Runs({"load"})
    /\ LET access == ClobberingAccess(Top.fn, AccessBefore(Top.fn, Current), Op(1))
           sources == MemSources(M, Top.fn, access, Op(1))
           errors == UNION {GetError(M, v) : v \in sources}
           one == Cardinality(sources) = 1 /\ sources \subseteq DOMAIN M.re
           ranged == Current \in DOMAIN M.re
       IN  CASE one /\ errors # NoError /\ ranged -> Computed(errors)
             [] one /\ ~(errors # NoError /\ ranged) ->
                  \E v \in sources : Leave(SetRangeError(M, Current, M.re[v].range, errors))
             [] ~one /\ ~ranged -> LeaveUncomputed
             [] ~one /\ ranged -> Computed({Noise(IF errors = NoError THEN RangeOf(M, Current)[3]
                                         ELSE AbsErr(errors), Fresh(0))})
    /\ Inside

\* An alloca, which is not handled.
Unhandled == Runs({"alloca"}) /\ LeaveUncomputed /\ Inside

MinRangeDiff(r, s) ==
    CASE r[2] < s[1] -> s[1] - r[2]
      [] s[2] < r[1] -> r[1] - s[2]
      [] OTHER -> 0

\* (Mutant: an error as large as the tolerance is allowed.)
MayBeWrongBeyond(e1, e2, tolerance) == NoiseTermsAbsSum(Minus(e1, e2)) > tolerance

MayBeWrong(e1, e2, tolerance) == NoiseTermsAbsSum(Minus(e1, e2)) >= tolerance

\* The comparison may be wrong if the error of the difference of its operands reaches
\* the tolerance; what was found first stays.
CheckCmp ==
    /\ Runs({"cmp"})
    /\ LET r1 == RangeOf(M, Op(1))
           r2 == RangeOf(M, Op(2))
           tolerance == Max({MinRangeDiff(r1, r2), r1[3]})
           wrong == \E e1 \in Err(1), e2 \in Err(2) : MayBeWrong(e1, e2, tolerance)
       IN  IF r1 = NoRange \/ r2 = NoRange \/ Err(1) = NoError \/ Err(2) = NoError
           THEN LeaveUncomputed
           ELSE /\ frames' = OnTop([rmap |-> M, pc |-> Top.pc + 1,
                                    cmps |-> Top.cmps @@ (Current :> wrong)])
                /\ sym' = sym + 1
    /\ Inside

\* The function has the largest error of the values it returns.
PropagateRet ==
    /\ Runs({"ret"})
    /\ IF Err(1) = NoError THEN LeaveUncomputed
       ELSE LET m == SetError(M, Current, Err(1))
                old == GetFunError(M, Top.fn)
            IN  \E e \in Err(1) :
                  Leave(IF old # NoError /\ AbsErr(Err(1)) <= AbsErr(old) THEN m
                        ELSE [m EXCEPT !.fun = Top.fn :> {FlattenNoiseTerms(e, Fresh(0))} @@ @])
    /\ Inside

-----------------------------------------------------------------------------
(***************************************************************************)
(* Functions.                                                              *)
(***************************************************************************)
MaxRecCount(f) == IF prog.funcs[f].maxrec = 0 THEN MaxRecursionCount ELSE prog.funcs[f].maxrec

\* What the metadata say of the formal arguments of f, and what is known of the actual
\* ones.
BindArguments(m, f, actuals) ==
    LET formals == Args(f)
        declared == FoldLeft(LAMBDA n, a : IF V(a).range = NoRange THEN n
                                           ELSE Put(n, a, InitialError(a, <<sym, a>>)), m, formals)
        bind(n, k) == IF GetError(n, actuals[k]) = NoError THEN n
                      ELSE SetError(n, formals[k], GetError(n, actuals[k]))
    IN  FoldLeft(bind, declared, [k \in DOMAIN actuals |-> k])

\* The propagator of f, which begins with the table m without the error of f.
Frame(m, f, actuals) ==
    LET other == [m EXCEPT !.fun = [g \in DOMAIN m.fun \ {f} |-> m.fun[g]]]
    IN  [fn |-> f, actuals |-> actuals, order |-> Schedule(Graph(f), prog.funcs[f].loops),
         at |-> 1, pc |-> 0, cmps |-> << >>, rmap |-> BindArguments(other, f, actuals)]

\* The call instruction i gets the error of the function.
PropagateCall(m, i) ==
    LET error == GetFunError(m, V(i).callee)
    IN  CASE i \in DOMAIN m.re /\ error # NoError -> SetError(m, i, error)
          [] ~(i \in DOMAIN m.re /\ error # NoError) /\ V(i).init # -1 /\ V(i).range # NoRange ->
                SetError(m, i, {Noise(V(i).init, <<sym, 0, i>>)})
          [] OTHER -> m

\* (Mutant: the count of calls is left as it is.)
CountKept(f) == count

\* The count of consecutive calls of f, restored.
CountRestored(f) == [count EXCEPT ![f] = @ - 1]

Call ==
    /\ Runs({"call"}) /\ count[I.callee] < MaxRecCount(I.callee)
    /\ frames' = Append(OnTop([rmap |-> M]), Frame(M, I.callee, I.ops))
    /\ count' = [count EXCEPT ![I.callee] = @ + 1]
    /\ sym' = sym + 1
    /\ UNCHANGED <<prog, todo, glob, attached, doubtful>>

SkipCall ==
    /\ Runs({"call"}) /\ count[I.callee] >= MaxRecCount(I.callee)
    /\ Leave(PropagateCall(M, Current))
    /\ Inside

NextBlock ==
    /\ frames # <<>> /\ Top.pc = Len(Code) /\ Top.at < Len(Top.order)
    /\ frames' = OnTop([at |-> Top.at + 1, pc |-> 0])
    /\ UNCHANGED <<prog, todo, glob, count, sym, attached, doubtful>>

\* What the table m of a function hands to the one it began with: the errors of
\* what its arguments point to, of targets, and of the function itself.
Returned(to, m, f, actuals) ==
    LET formals == Args(f)
        point(n, k) == IF ~V(formals[k]).pointer \/ GetError(m, formals[k]) = NoError THEN n
                       ELSE SetError(n, actuals[k], GetError(m, formals[k]))
        pointed == FoldLeft(point, to, [k \in DOMAIN actuals |-> k])
        larger(t) == Max({n.targets[t] : n \in {n \in {pointed, m} : t \in DOMAIN n.targets}})
    IN  [pointed EXCEPT
           !.targets = [t \in DOMAIN @ \cup DOMAIN m.targets |-> larger(t)],
           !.fun = IF GetFunError(m, f) = NoError THEN @ ELSE f :> GetFunError(m, f) @@ @]

Ended == frames # <<>> /\ Top.pc = Len(Code) /\ Top.at = Len(Top.order)

\* The call is computed when its function has been.
ReturnToCaller ==
    /\ Ended /\ Len(frames) > 1
    /\ LET caller == frames[Len(frames) - 1]
           i == SlotsOf(caller.fn, caller.order[caller.at])[caller.pc + 1]
           m == Returned(caller.rmap, Top.rmap, Top.fn, Top.actuals)
       IN  frames' = Append(SubSeq(frames, 1, Len(frames) - 2),
                            [caller EXCEPT !.rmap = PropagateCall(m, i), !.pc = @ + 1])
    /\ count' = CountRestored(Top.fn)
    /\ sym' = sym + 1
    /\ UNCHANGED <<prog, todo, glob, attached, doubtful>>

\* The next of the functions of the module.
Begin ==
    /\ frames = <<>> /\ todo # <<>>
    /\ frames' = <<Frame(glob, Head(todo), <<>>)>>
    /\ count' = [count EXCEPT ![Head(todo)] = @ + 1]
    /\ todo' = Tail(todo)
    /\ sym' = sym + 1
    /\ UNCHANGED <<prog, glob, attached, doubtful>>

\* Its errors are attached to its instructions.
End ==
    /\ Ended /\ Len(frames) = 1
    /\ LET known == {i \in InFunc(Top.fn) : IsInstr(i) /\ GetError(Top.rmap, i) # NoError}
       IN  attached' = [i \in known |-> AbsErr(GetError(Top.rmap, i))] @@ attached
    /\ doubtful' = Top.cmps @@ doubtful
    /\ glob' = Returned(glob, Top.rmap, Top.fn, <<>>)
    /\ count' = CountRestored(Top.fn)
    /\ frames' = <<>>
    /\ UNCHANGED <<prog, todo, sym>>

Init ==
    /\ prog \in Programs
    /\ todo = prog.todo
    /\ frames = <<>>
    /\ glob = EmptyMap
    /\ count = [f \in DOMAIN prog.funcs |-> 0]
    /\ sym = 0
    /\ attached = << >>
    /\ doubtful = << >>

Finished == frames = <<>> /\ todo = <<>>
Done == Finished /\ UNCHANGED vars

Next ==
    \/ PropagateBinaryOp \/ PropagateExt \/ PropagateSelect \/ PropagatePhi
    \/ PropagateStore \/ PropagateLoad \/ Unhandled \/ CheckCmp \/ PropagateRet
    \/ Call \/ SkipCall \/ NextBlock \/ ReturnToCaller \/ Begin \/ End \/ Done

Spec == Init /\ [][Next]_vars

-----------------------------------------------------------------------------
(***************************************************************************)
(* What the program does when it is run, in real numbers and as converted: *)
(* a number is a pair of the two.  Every function is run along a path of   *)
(* its graph; the inputs of the program and the paths are chosen.          *)
(***************************************************************************)
Undefined == <<"undefined">>

Called == {V(i).callee : i \in {i \in Values : V(i).op = "call"}}
Inputs == {i \in UNION {ToSet(V(j).ops) : j \in Values} :
              \/ V(i).op \in {"alloca", "const"}
              \/ V(i).op = "arg" /\ V(i).fn \notin Called}

\* What input i is, at one of the ends of its range and of its error.
Input(i, end) ==
    LET error == IF V(i).op = "const" THEN V(i).range[3] ELSE V(i).init
        x == V(i).range[end[1]]
    IN  IF error = -1 THEN Undefined ELSE <<x, x + end[2] * error>>

RunChoices ==
    [input : [Inputs -> {1, 2} \X {-1, 1}],
     chosen : [{i \in Values : V(i).op = "select"} -> {1, 2}],
     left : [{f \in DOMAIN prog.funcs : \E b \in Block : Len(Graph(f)[b]) > 1} -> BOOLEAN]]

\* The instructions of f from block b on, along the branches that c chooses.
GoesLeft(f, c) == f \notin DOMAIN c.left \/ c.left[f]

RECURSIVE CodeFrom(_, _, _)
CodeFrom(f, b, c) ==
    LET to == Graph(f)[b]
    IN  SlotsOf(f, b) \o (IF to = <<>> THEN <<>>
                          ELSE CodeFrom(f, IF GoesLeft(f, c) THEN Head(to) ELSE Last(to), c))

\* The machine after instruction i.  A shift leaves a multiple of the rounding error.
RECURSIVE Execute(_, _, _)
Execute(m, i, c) ==
    LET a == V(i).ops
        v(k) == m.val[a[k]]
        x(k) == v(k)[1]
        y(k) == v(k)[2]
        run(n, f) == FoldLeft(LAMBDA l, j : Execute(l, j, c), n, CodeFrom(f, Entry, c))
        bound(n, f) == [n EXCEPT !.val = [j \in Values |->
                           IF \E k \in DOMAIN a : Args(f)[k] = j
                           THEN v(CHOOSE k \in DOMAIN a : Args(f)[k] = j) ELSE @[j]]]
        give(n, r) == [n EXCEPT !.val[i] = r,
                                !.log = IF r = Undefined THEN @ ELSE @ \cup {<<i, r[1], r[2]>>}]
        compute(r) == give(m, IF \E k \in DOMAIN a : v(k) = Undefined THEN Undefined ELSE r)
    IN  CASE V(i).op = "alloca" -> IF i \notin Inputs THEN m ELSE [m EXCEPT !.val[i] = <<i>>, !.memory[i] = Input(i, c.input[i])]
          [] V(i).op = "load" -> give(m, m.memory[x(1)])
          [] V(i).op = "store" -> [m EXCEPT !.memory[v(2)[1]] = v(1)]
          [] V(i).op = "call" ->
                LET n == run(bound(m, V(i).callee), V(i).callee) IN give(n, n.returned)
          [] V(i).op = "ret" -> [m EXCEPT !.returned = v(1)]
          [] V(i).op = "phi" -> give(m, v(IF GoesLeft(V(i).fn, c) THEN 1 ELSE 2))
          [] V(i).op = "select" -> give(m, v(c.chosen[i]))
          [] V(i).op = "cmp" ->
                IF v(1) = Undefined \/ v(2) = Undefined THEN m
                ELSE [m EXCEPT !.compared = @ \cup {<<i, x(1) - x(2), y(1) - y(2)>>}]
          [] V(i).op = "add" -> compute(<<x(1) + x(2), y(1) + y(2)>>)
          [] V(i).op = "sub" -> compute(<<x(1) - x(2), y(1) - y(2)>>)
          [] V(i).op = "mul" -> compute(<<x(1) * x(2), y(1) * y(2)>>)
          [] V(i).op = "shr" -> compute(<<x(1), (y(1) \div V(i).range[3]) * V(i).range[3]>>)
          [] V(i).op = "ext" -> compute(<<x(1), y(1)>>)

\* The run of main, the first function.
Main == 1
Machine(c) ==
    LET idle == [val |-> [i \in Values |-> IF i \in Inputs THEN Input(i, c.input[i]) ELSE Undefined],
                 memory |-> [i \in {i \in Values : V(i).op = "alloca"} |-> Undefined],
                 returned |-> Undefined, log |-> {}, compared |-> {}]
    IN  FoldLeft(LAMBDA m, i : Execute(m, i, c), idle, CodeFrom(Main, Entry, c))

-----------------------------------------------------------------------------
(***************************************************************************)
(* Properties.                                                             *)
(***************************************************************************)
TypeOK ==
    /\ frames # <<>> => Top.at \in 1..Len(Top.order) /\ Top.pc \in 0..Len(Code)
    /\ \A f \in DOMAIN count : count[f] = Cardinality({k \in DOMAIN frames : frames[k].fn = f})
    /\ \A f \in DOMAIN count : count[f] <= MaxRecCount(f)
    /\ attached \in [DOMAIN attached -> Nat] /\ DOMAIN attached \subseteq Values
    /\ doubtful \in [DOMAIN doubtful -> BOOLEAN] /\ DOMAIN doubtful \subseteq Values

\* A load behind a call that may have stored takes the error of the pointer: that of one
\* of the values stored through it, which need not be the one in memory.
ReadsBehindCall(i) ==
    V(i).op = "load" /\
    LET a == ClobberingAccess(V(i).fn, AccessBefore(V(i).fn, i), V(i).ops[1])
    IN  a.kind = "def" /\ V(a.inst).op = "call"

\* A loop that is not unrolled is computed for one iteration, and a function that calls
\* itself for a limited number of calls.
RunKnownWrong ==
    \/ \E f \in DOMAIN prog.funcs : prog.funcs[f].loops # << >>
    \/ \E i \in Values : ReadsBehindCall(i) \/ (V(i).op = "call" /\ V(i).callee = V(i).fn)

Distance(p, q) == Abs(p - q)

\* However the program is run, no number of the converted program is further from that of
\* the real one than the error of the instruction: the largest it was found to have, and
\* the one attached to it if it is in main.
ErrorsBound ==
    (Finished /\ ~RunKnownWrong) =>
        \A c \in RunChoices : \A e \in Machine(c).log :
            /\ e[1] \in DOMAIN glob.targets => Distance(e[2], e[3]) <= glob.targets[e[1]]
            /\ e[1] \in DOMAIN attached /\ V(e[1]).fn = Main =>
                   Distance(e[2], e[3]) <= attached[e[1]]

SignOf(n) == IF n = 0 THEN 0 ELSE IF n > 0 THEN 1 ELSE -1

\* A comparison that is not said to be doubtful gives another result in the converted
\* program only when it compares numbers closer to each other than the rounding error.
ComparesRight ==
    LET trusted == {i \in DOMAIN doubtful : ~doubtful[i]}
    IN  (Finished /\ trusted # {} /\ ~RunKnownWrong) =>
            \A c \in RunChoices : \A e \in Machine(c).compared :
                (e[1] \in trusted /\ SignOf(e[2]) # SignOf(e[3])) =>
                    Abs(e[2]) < V(V(e[1]).ops[1]).range[3]

\* Blocks that leave a loop which is left in more than one place.
SeveralExits(g, L) == \E h \in DOMAIN L : Cardinality({b \in L[h] : Exiting(g, L, h, b)}) > 1

\* When a block is visited, so have been all that may have been run before it in the same
\* iterations of loops; no block of a loop that is left is visited again; and the header
\* of a loop is, after the body, when it is where the loop is left.
BlocksInOrder ==
    \A k \in DOMAIN frames :
        LET f == frames[k]
            g == Graph(f.fn)
            L == prog.funcs[f.fn].loops
            b == f.order[f.at]
            visited == {f.order[j] : j \in 1..f.at}
            still == {f.order[j] : j \in f.at..Len(f.order)}
            reached == ReachFrom(g, {Entry}, Block)
        IN  SeveralExits(g, L) \/
            /\ \A p \in reached : b \in Succs(Forward(g, L), p) => p \in visited
            /\ \A h \in DOMAIN L :
                  /\ b \in ExitBlocks(g, L, h) => still \cap L[h] = {}
                  /\ b \in L[h] /\ Exiting(g, L, h, h) /\ h \notin Latches(g, h) => h \in still
=============================================================================
