-------------------------- MODULE MCCodeInterpreter --------------------------
(* CodeInterpreter for TLC: modules of three functions.  In some, only main *)
(* has code: every structured program of a small grammar, laid out in       *)
(* blocks as the front end does it.  In others the functions call each      *)
(* other from loops.                                                        *)
EXTENDS CodeInterpreter, StructuredGraphs, TLC

CONSTANTS main, foo, bar

\* Two levels of statements, and loops over them that hold no loop in a
\* branch.
Simple == Statements({Atom})
InLoop == Simple \cup LoopsOver(Simple) \cup {Seq2(s, t) : s, t \in Simple}
Nests == Statements(Simple) \cup LoopsOver(InLoop) \cup {ContinueBreak, SwitchInLoop}

-----------------------------------------------------------------------------
\* A function with the code s, followed by blocks that do nothing, all of whose
\* loops have the same trip count known; it calls the functions of cs in its
\* third block.
Function(s, count, cs, rec, start) ==
    LET g == [b \in Block |-> IF b < Len(s) THEN s[b]
                              ELSE IF b < Cardinality(Block) THEN <<b + 1>> ELSE <<>>]
        loops == LoopsOf(g)
    IN  [succ |-> g, loops |-> loops,
         calls |-> [b \in Block |-> IF b = 3 THEN cs ELSE <<>>],
         hint |-> [h \in DOMAIN loops |-> count],
         maxrec |-> rec, start |-> start]

Unused == Function(Atom, 0, <<>>, 0, FALSE)

\* Modules of one function: the programs with every choice of trip counts.
OnlyMain(programs, counts) ==
    UNION {LET f == Function(s, 0, <<>>, 0, TRUE)
           IN  {main :> [f EXCEPT !.hint = h] @@ foo :> Unused @@ bar :> Unused :
                  h \in [DOMAIN f.loops -> counts]} : s \in Fitting(programs)}

\* main calls foo, bar or both in a loop; these call on, or back.
Line == Seq2(Atom, Seq2(Atom, Atom))
Loop == While(Atom)

CallModules ==
    {main :> Function(Loop, 3, cm, 0, TRUE)
     @@ foo :> Function(gf, 2, cf, rf, sf)
     @@ bar :> Function(Loop, 0, cg, 0, FALSE) :
        cm \in {<<foo, bar>>, <<bar, main>>},
        gf \in {Line, Loop}, cf \in {<<bar>>, <<foo, bar>>},
        rf \in {0, 3}, sf \in BOOLEAN, cg \in {<<>>, <<foo>>, <<bar>>}}

SmallModules == OnlyMain(Nests, 1..2) \cup CallModules

-----------------------------------------------------------------------------
\* for (..) if (..) for (..) ; else ;
BranchModules == OnlyMain({While(IfElse(While(Atom), Atom))}, 1..2)

\* main calls foo, which calls nothing, in a loop of two rounds.
LoopedCall ==
    {main :> Function(Loop, 2, <<foo>>, 0, TRUE)
     @@ foo :> Function(Line, 0, <<>>, 0, FALSE)
     @@ bar :> Unused}

-----------------------------------------------------------------------------
\* The modules of the proofs: those whose functions call each other from loops
\* are among them.
ASSUME PlainAssumption ==
    /\ EnoughEvals
    /\ \A m \in CallModules : PlainModule(m) /\ DOMAIN m[main].loops # {}
=============================================================================
