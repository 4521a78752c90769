--------------------------- MODULE CodeInterpreter ---------------------------
(***************************************************************************)
(* The abstract interpreter of the value range analysis                    *)
(* (src/lib/RangeAnalysis/TaffoVRA/CodeInterpreter.cpp, driven by          *)
(* ValueRangeAnalysis::processModule): in which order, and how often, the  *)
(* basic blocks of a module are evaluated, which loops it takes itself to  *)
(* be in, how it goes through calls, and which blocks' results the store   *)
(* of each block holds.  What an instruction does to a range is not        *)
(* modelled: evaluating a block adds the block to its store.               *)
(***************************************************************************)
EXTENDS ControlFlow, FiniteSetsExt

CONSTANTS
    Func,               \* the functions with a body
    Modules,            \* the modules analysed: functions from Func to [
                        \*   succ   : the graph,
                        \*   loops  : its loops,
                        \*   calls  : per block, the sequence of callees,
                        \*   hint   : per loop header, the trip count known
                        \*            from metadata or ScalarEvolution, or 0,
                        \*   maxrec : the !taffo.maxrec metadata, or 0,
                        \*   start  : whether it is a starting point]
    DefaultTripCount,   \* -unroll
    MaxTripCount,       \* -max-unroll
    Unseen,             \* no entry in a DenseMap
    MaxEvals            \* bound on evals, which saturates there

ASSUME TripCountAssumption ==
    /\ DefaultTripCount \in Nat
    /\ MaxTripCount \in Nat
    /\ MaxEvals \in Nat
    /\ Unseen \notin Nat

NoFunc == "none"

\* What LLVM guarantees of a function: edges lead to blocks, calls to
\* functions, a loop is a set of blocks that holds its header, and two loops
\* are nested or have no block in common.
ASSUME ModuleAssumption ==
    /\ IsFiniteSet(Func)
    /\ NoFunc \notin Func
    /\ \A m \in Modules : \A f \in Func :
          /\ m[f].succ \in [Block -> Seq(Block)]
          /\ m[f].calls \in [Block -> Seq(Func)]
          /\ DOMAIN m[f].loops \subseteq Block
          /\ \A h \in DOMAIN m[f].loops :
                h \in m[f].loops[h] /\ m[f].loops[h] \subseteq Block
          /\ \A h, l \in DOMAIN m[f].loops :
                \/ m[f].loops[h] \subseteq m[f].loops[l]
                \/ m[f].loops[l] \subseteq m[f].loops[h]
                \/ m[f].loops[h] \cap m[f].loops[l] = {}
          /\ m[f].hint \in [DOMAIN m[f].loops -> Nat]
          /\ m[f].maxrec \in Nat
          /\ m[f].start \in BOOLEAN

VARIABLES
    module,         \* the module analysed, never changed
    todo,           \* the functions processModule has still to consider
    Scopes,         \* the stack of function scopes, innermost last
    LoopInfo,       \* the function whose loops the interpreter uses
    RecursionCount, \* per function, the calls left, or Unseen
    GlobalStore     \* the <<function, block>> results merged globally

vars == <<module, todo, Scopes, LoopInfo, RecursionCount, GlobalStore>>

(***************************************************************************)
(* A scope: the function, the Worklist, the block being evaluated (or      *)
(* NoBlock) and the calls it has still to make, EvalCount, the blocks      *)
(* whose results each block's analyzer holds, and the number of times each *)
(* block was evaluated (which only the properties read).                   *)
(***************************************************************************)
NewScope(f) ==
    [func      |-> f,
     Worklist  |-> <<Entry>>,
     block     |-> NoBlock,
     calls     |-> <<>>,
     EvalCount |-> [b \in Block |-> IF b = Entry THEN 1 ELSE Unseen],
     Analyzer  |-> [b \in Block |-> {}],
     evals     |-> [b \in Block |-> 0]]

Top == Scopes[Len(Scopes)]
SetTop(s) == Scopes' = [Scopes EXCEPT ![Len(Scopes)] = s]

\* The graph of the running function, and the loops of LoopInfo's.
Graph == module[Top.func].succ
Loops == module[LoopInfo].loops

\* retrieveLoopTripCount, for the loop of header h of function f.
TripCount(f, h) ==
    LET hint  == module[f].hint[h]
        known == IF hint > 0 THEN hint ELSE DefaultTripCount
    IN  IF DefaultTripCount = 0 \/ MaxTripCount = 0 THEN 1
        ELSE IF known > MaxTripCount THEN MaxTripCount ELSE known

\* The count followEdge gives the blocks of a loop it enters: 1 without a
\* unique latch.
EnteringCount(f, h) ==
    IF Cardinality(Preds(module[f].succ, h) \cap Loops[h]) = 1
    THEN TripCount(f, h) ELSE 1

\* DenseMap::operator[]: a missing entry is created with 0.
Touch(ec, b) == IF ec[b] = Unseen THEN [ec EXCEPT ![b] = 0] ELSE ec

IsLoopBackEdge(src, dst) ==
    dst \in DOMAIN Loops /\ LoopAround(Loops, {src, dst}) # NoBlock

\* Variants named <operator>_<bug> are the operator with a plausible bug, for
\* checking that a property notices it; the specification never uses them.
HasUnvisitedPred_Count(ec, src, dst) ==
    \E p \in Preds(Graph, dst) :
        /\ ec[p] # Unseen /\ ec[p] > ec[src]
        /\ ~IsLoopBackEdge(p, dst)

\* Some predecessor of dst is still to be visited.
HasUnvisitedPred(ec, src, dst) ==
    \E p \in Preds(Graph, dst) :
        /\ ec[p] = Unseen \/ ec[p] > ec[src]
        /\ ~IsLoopBackEdge(p, dst)

EnterLoop_NoExtra(ec, h) ==
    [b \in Block |-> IF b \in Loops[h] THEN EnteringCount(Top.func, h) ELSE ec[b]]
EnterLoop(ec, h) ==
    LET n == EnteringCount(Top.func, h)
    IN  [b \in Block |->
            IF b \notin Loops[h] THEN ec[b]
            ELSE IF b = h /\ Exiting(Graph, Loops, h, h) THEN n + 1
            ELSE n]

\* Whether the block b is to be evaluated again.
Remaining_Zero(ec, b) == ec[b] >= 0
Remaining(ec, b) == ec[b] > 0

\* followEdge: whether dst is to be evaluated, and the counts afterwards.
FollowEdge(ec, src, dst) ==
    LET dl       == LoopAround(Loops, {dst})
        sl       == LoopAround(Loops, {src})
        entering == dl # NoBlock /\ src \notin Loops[dl]
        leaving  == /\ sl # NoBlock /\ dst \notin Loops[sl]
                    /\ ec[src] = 0 /\ Exiting(Graph, Loops, sl, src)
    IN  IF HasUnvisitedPred(ec, src, dst)
        THEN [go |-> FALSE, ec |-> ec]
        ELSE IF entering
        THEN [go |-> TRUE, ec |-> EnterLoop(ec, dl)]
        ELSE IF leaving \/ sl = NoBlock
        THEN [go |-> TRUE, ec |-> [ec EXCEPT ![dst] = 1]]
        ELSE LET touched == Touch(ec, dst)
             IN  [go |-> Remaining(touched, dst) /\ dst \in Loops[sl], ec |-> touched]

\* One edge: dst goes to the front of the Worklist when it is followed.
TakeEdge(acc, src, dst) ==
    LET f == FollowEdge(acc.ec, src, dst)
    IN  [ec |-> f.ec,
         wl |-> IF f.go THEN <<dst>> \o acc.wl ELSE acc.wl]

\* The loop over the terminator's successors, of which each counts once.
FollowEdges(ec0, wl0, src) ==
    LET s == Graph[src]
        acc[n \in 0..Len(s)] ==
            IF n = 0 THEN [ec |-> ec0, wl |-> wl0]
            ELSE IF \E i \in 1..(n-1) : s[i] = s[n] THEN acc[n-1]
            ELSE TakeEdge(acc[n-1], src, s[n])
    IN  acc[Len(s)]

UpdateSuccessorAnalyzers_Replace(an, b) ==
    [s \in Block |-> IF s \in Succs(Graph, b) THEN an[b] ELSE an[s]]

CountDown_Forget(ec, b) == ec

\* --EvalCount[b]
CountDown(ec, b) == [ec EXCEPT ![b] = @ - 1]

\* updateSuccessorAnalyzer: every successor, followed or not.
UpdateSuccessorAnalyzers(an, b) ==
    [s \in Block |-> IF s \in Succs(Graph, b) THEN an[s] \cup an[b] ELSE an[s]]

-----------------------------------------------------------------------------
Init ==
    /\ module \in Modules
    /\ todo \in SetToSeqs(Func)
    /\ Scopes = <<>>
    /\ LoopInfo = NoFunc
    /\ RecursionCount = [f \in Func |-> Unseen]
    /\ GlobalStore = {}

\* processModule: the next function, when it is a starting point.
ProcessFunction ==
    /\ Scopes = <<>>
    /\ todo # <<>>
    /\ todo' = Tail(todo)
    /\ IF module[Head(todo)].start
       THEN /\ Scopes' = <<NewScope(Head(todo))>>
            /\ LoopInfo' = Head(todo)
       ELSE UNCHANGED <<Scopes, LoopInfo>>
    /\ UNCHANGED <<module, RecursionCount, GlobalStore>>

\* Pop a block from the Worklist and begin to evaluate it.
BeginBlock ==
    /\ Scopes # <<>> /\ Top.block = NoBlock /\ Top.Worklist # <<>>
    /\ LET b == Head(Top.Worklist)
       IN  SetTop([Top EXCEPT !.block = b,
                              !.Worklist = Tail(@),
                              !.calls = module[Top.func].calls[b]])
    /\ UNCHANGED <<module, todo, LoopInfo, RecursionCount, GlobalStore>>

Callee == Head(Top.calls)

\* updateRecursionCount: whether f may be called, and the calls left then.
MayCall_Missing(f) == RecursionCount[f] \notin {0, Unseen}
MayCall(f) == RecursionCount[f] # 0

CallsLeft_NoDefault(f) ==
    (IF RecursionCount[f] # Unseen THEN RecursionCount[f]
     ELSE module[f].maxrec) - 1
CallsLeft_Keep(f) ==
    IF RecursionCount[f] # Unseen THEN RecursionCount[f]
    ELSE IF module[f].maxrec > 0 THEN module[f].maxrec - 1
    ELSE 0
CallsLeft(f) ==
    IF RecursionCount[f] # Unseen THEN RecursionCount[f] - 1
    ELSE IF module[f].maxrec > 0 THEN module[f].maxrec - 1
    ELSE 0

\* interpretCall of a callee that is interpreted, in a scope of its own.
InterpretCall ==
    /\ Scopes # <<>> /\ Top.calls # <<>>
    /\ MayCall(Callee)
    /\ RecursionCount' = [RecursionCount EXCEPT ![Callee] = CallsLeft(Callee)]
    /\ Scopes' = Append([Scopes EXCEPT ![Len(Scopes)].calls = Tail(@)],
                        NewScope(Callee))
    /\ LoopInfo' = Callee
    /\ UNCHANGED <<module, todo, GlobalStore>>

\* interpretCall, when the calls of the callee are used up.
SkipCall ==
    /\ Scopes # <<>> /\ Top.calls # <<>>
    /\ ~MayCall(Callee)
    /\ SetTop([Top EXCEPT !.calls = Tail(@)])
    /\ UNCHANGED <<module, todo, LoopInfo, RecursionCount, GlobalStore>>

\* The end of a block: count it, follow its edges, merge its results.  The
\* assertion on EvalCount stops the program when it fails.
EndBlock ==
    /\ Scopes # <<>> /\ Top.block # NoBlock /\ Top.calls = <<>>
    /\ Top.EvalCount[Top.block] # 0
    /\ LET b  == Top.block
           an == [Top.Analyzer EXCEPT ![b] = @ \cup {b}]
           r  == FollowEdges(CountDown(Top.EvalCount, b), Top.Worklist, b)
       IN  /\ SetTop([Top EXCEPT !.block = NoBlock,
                                 !.Worklist = r.wl,
                                 !.EvalCount = r.ec,
                                 !.Analyzer = UpdateSuccessorAnalyzers(an, b),
                                 !.evals[b] = IF @ < MaxEvals THEN @ + 1 ELSE @])
           /\ GlobalStore' = GlobalStore \cup {<<Top.func, x>> : x \in an[b]}
    /\ UNCHANGED <<module, todo, LoopInfo, RecursionCount>>

Return_KeepLoops ==
    /\ Scopes # <<>> /\ Top.block = NoBlock /\ Top.Worklist = <<>>
    /\ Scopes' = Front(Scopes)
    /\ UNCHANGED <<module, todo, LoopInfo, RecursionCount, GlobalStore>>

\* The end of interpretFunction; interpretCall restores the caller's loops.
Return ==
    /\ Scopes # <<>> /\ Top.block = NoBlock /\ Top.Worklist = <<>>
    /\ Scopes' = Front(Scopes)
    /\ LoopInfo' = IF Len(Scopes) > 1 THEN Scopes[Len(Scopes)-1].func
                   ELSE LoopInfo
    /\ UNCHANGED <<module, todo, RecursionCount, GlobalStore>>

Step ==
    \/ ProcessFunction
    \/ BeginBlock
    \/ InterpretCall
    \/ SkipCall
    \/ EndBlock
    \/ Return

Finished == Scopes = <<>> /\ todo = <<>>

\* The analysis is over when every function has been considered.
Next == Step \/ (Finished /\ UNCHANGED vars)

\* Weak fairness of Step, which is enabled until the analysis is over: the
\* interpreter is a sequential program.  Written out, since ENABLED Step is slow
\* to evaluate.
Fairness == []<>Finished \/ []<><<Step>>_vars

Spec == Init /\ [][Next]_vars /\ Fairness

-----------------------------------------------------------------------------
(* Properties.                                                             *)

ScopeT == [func : Func, Worklist : Seq(Block), block : Block \cup {NoBlock},
           calls : Seq(Func), EvalCount : [Block -> Nat \cup {Unseen}],
           Analyzer : [Block -> SUBSET Block], evals : [Block -> Nat]]

\* The variables have the types of the code's containers.
TypeOK ==
    /\ todo \in Seq(Func)
    /\ Scopes \in Seq(ScopeT)
    /\ LoopInfo \in Func \cup {NoFunc}
    /\ RecursionCount \in [Func -> Nat \cup {Unseen}]
    /\ GlobalStore \subseteq Func \X Block

(***************************************************************************)
(* Calls nest.  The loops the interpreter consults are those of the        *)
(* function it is in, after any sequence of calls and returns:             *)
(* interpretCall restores the caller's.  And a function is interpreted at  *)
(* most maxrec times, or once without the metadata, inside of other        *)
(* interpretations, so that the stack of scopes is bounded whatever the    *)
(* call graph is: updateRecursionCount.  (The bottom scope is              *)
(* processModule's.)                                                       *)
(***************************************************************************)
OwnLoops == Scopes # <<>> => LoopInfo = Top.func

CallsAllowed(f) == IF module[f].maxrec > 0 THEN module[f].maxrec ELSE 1

Nested(f) == {i \in 2..Len(Scopes) : Scopes[i].func = f}

RecursionBounded == \A f \in Func : Cardinality(Nested(f)) <= CallsAllowed(f)

CallsNest == OwnLoops /\ RecursionBounded

Evaluating == Scopes # <<>> /\ Top.block # NoBlock

(***************************************************************************)
(* When a block is evaluated, it has evaluations left (the assertion of    *)
(* CodeInterpreter.cpp:52), and its analyzer holds the ranges that were    *)
(* computed, and stored to memory, along every path that leads to it:      *)
(* followEdge does not follow an edge to a block with predecessors that    *)
(* are still unvisited.                                                    *)
(***************************************************************************)
AnalyzerComplete ==
    LET f == Forward(Graph, module[Top.func].loops)
    IN  \A p \in Block \ {Top.block} :
            Top.block \in ReachFrom(f, {p}, Block) => p \in Top.Analyzer[Top.block]

ReadyToEvaluate ==
    Evaluating => Top.EvalCount[Top.block] # 0 /\ AnalyzerComplete

(***************************************************************************)
(* When a function ends, each block has been evaluated as often as if its  *)
(* loops had been unrolled by their trip counts: the product of the counts *)
(* of the loops around it, where a header that can leave counts one more.  *)
(***************************************************************************)
Ended(s) == s.block = NoBlock /\ s.Worklist = <<>>

UnrolledExactly ==
    Scopes # <<>> /\ Ended(Top) =>
        \A b \in Block :
            LET rounds(h) == EnteringCount(Top.func, h)
                             + IF b = h /\ Exiting(Graph, Loops, h, h)
                               THEN 1 ELSE 0
            IN  Top.evals[b] = FoldSet(LAMBDA h, n : n * rounds(h), 1,
                                       Nest(Loops, b))

(***************************************************************************)
(* In the end the global store has results for every block of every        *)
(* function that the starting points call, directly or not.                *)
(***************************************************************************)
CallGraph ==
    [f \in Func |-> {g \in Func : \E b \in Block :
                        g \in ToSet(module[f].calls[b])}]

Called ==
    LET grow[k \in 0..Cardinality(Func)] ==
            IF k = 0 THEN {f \in Func : module[f].start}
            ELSE LET F == grow[k-1] IN F \cup UNION {CallGraph[f] : f \in F}
    IN  grow[Cardinality(Func)]

AllResultsMerged ==
    Finished => \A f \in Called :
        {f} \X ReachFrom(module[f].succ, {Entry}, Block) \subseteq GlobalStore

(***************************************************************************)
(* When these hold of every module: its functions have plain loops, and    *)
(* evals, which only the properties read, does not saturate.               *)
(***************************************************************************)
PlainModule(m) == \A f \in Func : Plain(m[f].succ, m[f].loops)

EnoughEvals == MaxEvals > 1 /\ MaxEvals > MaxTripCount

(***************************************************************************)
(* The interpretation of every module comes to an end.                     *)
(***************************************************************************)
Terminates == <>Finished

(***************************************************************************)
(* The recursion count limits "the maximum number of recursive calls": a   *)
(* call is skipped only while its callee is being interpreted.             *)
(***************************************************************************)
OnlyRecursionCutOff ==
    [][SkipCall => \E i \in 1..Len(Scopes) : Scopes[i].func = Callee]_vars
=============================================================================
