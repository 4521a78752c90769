-------------------------- MODULE StructuredGraphs --------------------------
(* The graphs of the structured programs of a small grammar, laid out in     *)
(* blocks as the front end does it, for TLC.                                 *)
EXTENDS ControlFlow

(***************************************************************************)
(* The code of a statement: the successors of its blocks, numbered from 1. *)
(* It is entered at its first block and goes on from its last.             *)
(***************************************************************************)
Atom == <<<<>>>>

\* The code s moved up by k blocks, and s with its last block leading to b.
Up(s, k) == [i \in DOMAIN s |-> [j \in DOMAIN s[i] |-> s[i][j] + k]]
To(s, b) == [s EXCEPT ![Len(s)] = <<b>>]

Seq2(s, t) == To(s, Len(s) + 1) \o Up(t, Len(s))
IfElse(s, t) ==
    LET join == Len(s) + Len(t) + 2
    IN  <<<<2, Len(s) + 2>>>> \o To(Up(s, 1), join) \o To(Up(t, Len(s) + 1), join)
        \o Atom
While(s) == <<<<2>>, <<3, Len(s) + 3>>>> \o To(Up(s, 2), 2) \o Atom
DoWhile(s) ==
    <<<<2>>>> \o To(Up(s, 1), Len(s) + 2) \o <<<<2, Len(s) + 3>>>> \o Atom

LoopsOver(S) == {While(s) : s \in S} \cup {DoWhile(s) : s \in S}
Statements(S) ==
    S \cup LoopsOver(S) \cup {Seq2(s, t) : s, t \in S} \cup {IfElse(s, t) : s, t \in S}

\* while (..) { if (..) continue; while (..) if (..) break; }
ContinueBreak ==
    <<<<2>>, <<3, 10>>, <<4, 5>>, <<2>>, <<6>>, <<7, 9>>, <<8, 6>>, <<9>>, <<2>>, <<>>>>

\* a switch that falls through, in a loop
SwitchInLoop ==
    <<<<2>>, <<3, 7>>, <<4, 5, 6>>, <<5>>, <<6>>, <<2>>, <<>>>>

Fitting(S) == {s \in S : Len(s) <= Cardinality(Block)}
=============================================================================
