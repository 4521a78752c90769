----------------------------- MODULE ControlFlow -----------------------------
(***************************************************************************)
(* What the passes ask of LLVM about the shape of a function: successors,  *)
(* predecessors and the natural loops LoopInfo finds.  A function's graph  *)
(* g maps a block to the sequence of its terminator's successors; the      *)
(* loops of a graph map each loop header to the set of blocks of the loop. *)
(***************************************************************************)
EXTENDS Naturals, FiniteSets, Sequences, SequencesExt

CONSTANT Block      \* basic blocks, numbered; 1 is the entry block

ASSUME BlockAssumption ==
    IsFiniteSet(Block) /\ Block = 1..Cardinality(Block) /\ 1 \in Block

Entry == 1

NoBlock == 0

Succs(g, b) == ToSet(g[b])
Preds(g, b) == {p \in Block : b \in Succs(g, p)}

\* The blocks reached from those of S along edges into T.
ReachFrom(g, S, T) ==
    LET grow[k \in 0..Cardinality(Block)] ==
            IF k = 0 THEN S
            ELSE LET R == grow[k-1]
                 IN  R \cup ((UNION {Succs(g, b) : b \in R}) \cap T)
    IN  grow[Cardinality(Block)]

\* Every path from the entry to b meets h.
Dominates(g, h, b) ==
    h = b \/ b \notin ReachFrom(g, {Entry} \ {h}, Block \ {h})

\* The back edges into h, and the natural loop they close.
Latches(g, h) == {p \in Preds(g, h) : Dominates(g, h, p)}

LoopBody(g, h) ==
    {h} \cup {b \in Block \ {h} :
                ReachFrom(g, {b}, Block \ {h}) \cap Latches(g, h) # {}}

LoopsOf(g) ==
    [h \in {b \in Block : Latches(g, b) # {}} |-> LoopBody(g, h)]

-----------------------------------------------------------------------------
(* Queries on the loops L of g.                                            *)

\* getLoopFor, and the walk up getParentLoop: the innermost loop that
\* contains all the blocks of S, named by its header.
LoopAround(L, S) ==
    LET around == {h \in DOMAIN L : S \subseteq L[h]}
    IN  IF around = {} THEN NoBlock
        ELSE CHOOSE h \in around : \A l \in around : h \in L[l]

\* isLoopExiting: b leaves the loop of h.
Exiting(g, L, h, b) == ~(Succs(g, b) \subseteq L[h])

ExitBlocks(g, L, h) == (UNION {Succs(g, b) : b \in L[h]}) \ L[h]

Nest(L, b) == {h \in DOMAIN L : b \in L[h]}

\* The edges that are not back edges.
Forward(g, L) ==
    [b \in Block |-> SetToSeq({s \in Succs(g, b) : ~(s \in DOMAIN L /\ b \in L[s])})]

Reducible(g, L) ==
    LET f == Forward(g, L)
    IN  \A b \in Block : b \notin ReachFrom(f, Succs(f, b), Block)

-----------------------------------------------------------------------------
(* The shapes of loop a front end emits.                                   *)

\* A preheader: a single edge from the outside, from an unconditional branch.
HasPreheader(g, L, h) ==
    \E p \in Block : Preds(g, h) \ L[h] = {p} /\ Succs(g, p) = {h}

\* One latch, or (continue in a while loop) several unconditional ones.
PlainLatches(g, L, h) ==
    LET ls == Preds(g, h) \cap L[h]
    IN  Cardinality(ls) = 1 \/ \A l \in ls : Succs(g, l) = {h}

\* One block behind the loop, entered only from the loop.
HasExit(g, L, h) ==
    \E e \in Block : ExitBlocks(g, L, h) = {e} /\ Preds(g, e) \subseteq L[h]

\* The block behind an inner loop neither ends nor heads an outer one.
ExitsInside(g, L, h) ==
    \A e \in ExitBlocks(g, L, h) : \A o \in Nest(L, e) :
        e # o /\ ~Exiting(g, L, o, e)

LoopSimple(g, L) ==
    \A h \in DOMAIN L :
        HasPreheader(g, L, h) /\ PlainLatches(g, L, h) /\ HasExit(g, L, h)

\* The code a C front end emits for structured statements.
Structured(g, L) ==
    LoopSimple(g, L) /\ \A h \in DOMAIN L : ExitsInside(g, L, h)

-----------------------------------------------------------------------------
(***************************************************************************)
(* Loops side by side, as -loop-simplify leaves them: no loop in a loop;   *)
(* the blocks of a loop are entered through its header, and lead to its    *)
(* one latch; the edges out of it lead to one block, which belongs to no   *)
(* loop and has no other predecessor; and a header that can leave the loop *)
(* has one way into it, which no other block takes.                        *)
(***************************************************************************)
PlainLoop(g, L, h) ==
    /\ \A b \in L[h] : Nest(L, b) = {h}
    /\ \A b \in L[h] \ {h} : Preds(g, b) \subseteq L[h]
    /\ \E l \in L[h] : /\ Preds(g, h) \cap L[h] = {l}
                       /\ \A b \in L[h] \ {l} : (Succs(g, b) \cap L[h]) \ {h} # {}
    /\ \E e \in Block : /\ ExitBlocks(g, L, h) = {e} /\ Nest(L, e) = {}
                        /\ Preds(g, e) \subseteq L[h]
    /\ Exiting(g, L, h, h) =>
          \E a \in L[h] : Succs(g, h) \cap L[h] = {a} /\ Preds(g, a) \cap L[h] = {h}

\* A function with such loops, all of whose blocks can be reached.
Plain(g, L) ==
    /\ Preds(g, Entry) = {} /\ Nest(L, Entry) = {}
    /\ \A b \in Block \ {Entry} : Preds(Forward(g, L), b) # {}
    /\ Reducible(g, L)
    /\ \A h \in DOMAIN L : PlainLoop(g, L, h)
=============================================================================
