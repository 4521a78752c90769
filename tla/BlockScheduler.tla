--------------------------- MODULE BlockScheduler ---------------------------
(***************************************************************************)
(* The order in which the error propagation visits the blocks of a function*)
(* (BBScheduler in src/lib/ErrorAnalysis/ErrorPropagator/                  *)
(* FunctionErrorPropagator): a depth first search, whose queue is walked   *)
(* from its end.  g is the control flow graph and L its loops.             *)
(***************************************************************************)
EXTENDS ControlFlow

\* (Mutant: only what is outside of the loop leads out of it.)
IsOutside(g, L, h, b) == b \notin L[h]

\* Block b, the successor of one in the loop of h, is outside of it or leaves it.
IsExiting(g, L, h, b) == b \notin L[h] \/ Exiting(g, L, h, b)

\* The queue and the set of visited blocks, when b and what it leads to are in them.
RECURSIVE EnqueueChildren(_, _, _, _)
EnqueueChildren(g, L, s, b) ==
    LET h == LoopAround(L, {b})
        entered == [s EXCEPT !.visited = @ \cup {b}]
        children(t, bs) == FoldLeft(LAMBDA u, c : EnqueueChildren(g, L, u, c), t, bs)
        put(t) == [t EXCEPT !.queue = Append(@, b)]
        exits == SelectSeq(g[b], LAMBDA c : IsExiting(g, L, h, c))
        body == SelectSeq(g[b], LAMBDA c : ~IsExiting(g, L, h, c))
        again == Exiting(g, L, h, b) /\ b \notin Latches(g, h)
        left == children(entered, exits)
    IN  CASE b \in s.visited -> s
          [] b \notin s.visited /\ h = NoBlock -> put(children(entered, g[b]))
          [] OTHER -> put(children(IF again THEN put(left) ELSE left, body))

Schedule(g, L) ==
    Reverse(EnqueueChildren(g, L, [queue |-> <<>>, visited |-> {}], Entry).queue)
=============================================================================
