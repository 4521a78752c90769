------------------------- MODULE MCErrorPropagation -------------------------
(* ErrorPropagation for TLC: programs of which main has three instructions   *)
(* besides its inputs, in one block or in branches, and functions of many    *)
(* shapes without instructions.                                              *)
EXTENDS ErrorPropagation, StructuredGraphs

Foo == 2

(***************************************************************************)
(* Sketches of main: sequences of <<opcode, operands, block>>.  The values *)
(* are numbered from 1: two arguments X and Y, an alloca P, instructions.  *)
(***************************************************************************)
X == 1
Y == 2
P == 3
Slot(k) == k + 3

\* The blocks that run before block b, and b.
Before == << {1}, {1, 2}, {1, 3}, {1, 2, 3, 4} >>

\* The numbers: Y not in the first instruction.
NumbersOf(s, blocks) ==
    {X} \cup (IF s = <<>> THEN {} ELSE {Y}) \cup {Slot(k) : k \in {k \in DOMAIN s : s[k][1] # "store" /\ s[k][3] \in blocks}}
Pairs(S) == {<<i, j>> : i, j \in S}
Unordered(S) == {p \in Pairs(S) : p[1] <= p[2]}

\* The sketch s with an instruction in block b; the last one may compare.
Longer(s, b, last) ==
    LET numbers == NumbersOf(s, Before[b] \ (IF b = 4 THEN {2, 3} ELSE {}))
        put(opcodes, operands) == {Append(s, <<op, p, b>>) : op \in opcodes, p \in operands}
    IN  put({"add", "mul"}, Unordered(numbers)) \cup put({"sub"}, Pairs(numbers))
        \cup put({"select"}, {p \in Unordered(numbers) : p[1] # p[2]})
        \cup put({"shr"}, {<<i>> : i \in numbers})
        \cup put({"store", "call"}, {<<i, P>> : i \in numbers}) \cup put({"load"}, {<<P>>})
        \cup (IF b = 4 THEN put({"phi"}, NumbersOf(s, Before[2]) \X NumbersOf(s, Before[3]))
              ELSE {})
        \cup (IF last THEN put({"cmp"}, Unordered(numbers)) ELSE {})

\* What instruction k gives is used: a number by a later instruction, unless it is the
\* last; a number in memory by a later load or call.
Used(s, k) ==
    \/ s[k][1] # "store" /\ (k = Len(s) \/ \E l \in DOMAIN s : Slot(k) \in ToSet(s[l][2]))
    \/ s[k][1] = "store" /\ \E l \in k..Len(s) : s[l][1] \in {"load", "call"}

Sketches(bs) ==
    LET two == UNION {Longer(s, bs[2], FALSE) : s \in Longer(<<>>, bs[1], FALSE)}
        open == {s \in two : bs[1] # bs[2] \/ \E k \in DOMAIN s : Used(s, k)}
    IN  {s \in UNION {Longer(t, bs[3], TRUE) : t \in open} : \A k \in DOMAIN s : Used(s, k)}

-----------------------------------------------------------------------------
(***************************************************************************)
(* The ranges the metadata give to the results.                            *)
(***************************************************************************)
Rounding == 2
Spread(points) == <<Min(points), Max(points), Rounding>>
Joined(ranges) == Spread({r[1] : r \in ranges} \cup {r[2] : r \in ranges})
RangeOfResult(op, r, s) ==
    CASE op = "add" -> <<r[1] + s[1], r[2] + s[2], Rounding>>
      [] op = "sub" -> <<r[1] - s[2], r[2] - s[1], Rounding>>
      [] op = "mul" -> Spread({r[i] * s[j] : i, j \in {1, 2}})
      [] op = "shr" -> r
      [] op \in {"phi", "select"} -> Joined({r, s})
      [] op \in {"cmp", "store"} -> NoRange

Value(fn, b, op, ops, range, init) ==
    [fn |-> fn, block |-> b, op |-> op, ops |-> ops, range |-> range, init |-> init,
     callee |-> 0, pointer |-> FALSE]

\* The functions that main calls, for the range of their argument and of memory: a
\* square and a constant; a shift; one that stores its argument and returns what was
\* there.
Kinds == {"square", "shift", "swap"}
Callee(kind, r, memory) ==
    LET in(op, ops, range) == Value(Foo, 1, op, ops, range, -1)
        formal == in("arg", <<>>, r)
        square == RangeOfResult("mul", r, r)
        two == <<2, 2, Rounding>>
        sum == RangeOfResult("add", square, two)
    IN  CASE kind = "none" -> <<>>
          [] kind = "square" -> <<formal, in("const", <<>>, two), in("mul", <<1, 1>>, square),
                                  in("add", <<3, 2>>, sum), in("ret", <<4>>, sum)>>
          [] kind = "shift" -> <<formal, in("ext", <<1>>, NoRange), in("shr", <<2>>, r),
                                 in("ret", <<3>>, r)>>
          [] kind = "swap" ->
                <<formal, [in("arg", <<>>, memory) EXCEPT !.pointer = TRUE],
                  in("load", <<2>>, memory), in("store", <<1, 2>>, NoRange),
                  in("ret", <<3>>, memory)>>

Inputs0 ==
    <<Value(Main, 1, "arg", <<>>, <<-2, 2, 2>>, 1), Value(Main, 1, "arg", <<>>, <<4, 6, 2>>, 1),
      Value(Main, 1, "alloca", <<>>, <<-2, 2, 2>>, 1)>>

\* The code of main for the sketch s, after that of a function.
CodeOf(s, kind) ==
    LET k == Len(Callee(kind, <<0, 0, 2>>, <<0, 0, 2>>))
        known(c) == {c[i].range : i \in {i \in (k + 1)..Len(c) : c[i].range # NoRange}}
        add(c, instr) ==
            LET op == instr[1]
                r(n) == c[k + instr[2][n]].range
                ops == [n \in DOMAIN instr[2] |-> instr[2][n] + k]
                other == Joined({c[1].range, r(1)})
                called == IF \E i \in DOMAIN c : c[i].op = "call" THEN other ELSE r(1)
                code == Callee(kind, called, Joined(known(c)))
                here(range) == Value(Main, instr[3], op, ops, range, -1)
            IN  CASE op = "call" ->
                        Append(code \o SubSeq(c, k + 1, Len(c)),
                               [here(Last(code).range) EXCEPT
                                  !.ops = IF kind = "swap" THEN @ ELSE <<Head(@)>>, !.callee = Foo])
                  [] op = "load" -> Append(c, here(Joined(known(c))))
                  [] OTHER -> Append(c, here(RangeOfResult(op, r(1), r(Len(ops)))))
    IN  FoldLeft(add, Callee(kind, <<0, 0, 2>>, <<0, 0, 2>>)
                      \o Inputs0, s)

-----------------------------------------------------------------------------
Function(s, rec) == 
    LET g == [b \in Block |-> IF b <= Len(s) THEN s[b] ELSE <<>>]
    IN  [graph |-> g, loops |-> LoopsOf(g), maxrec |-> rec]
Line == Function(Atom, 0)
Branch == Function(<<<<2, 3>>, <<4>>, <<4>>, <<>>>>, 0)

KindsOf(s) == IF \E k \in DOMAIN s : s[k][1] = "call" THEN Kinds ELSE {"none"}
ProgramsOf(main, sketches) ==
    UNION {{[funcs |-> <<main, Line>>, code |-> CodeOf(s, kind),
             todo |-> IF kind = "none" THEN <<Main>> ELSE <<Foo, Main>>] :
              kind \in KindsOf(s)} : s \in sketches}

\* What P points to is read, overwritten, read again and compared with what it was.
Rereading ==
    {<<<<"load", <<P>>, 1>>, <<w, <<n, P>>, 1>>, <<"load", <<P>>, 1>>, <<op, <<4, 6>>, 1>>>> :
        w \in {"store", "call"}, n \in {X, Y, Slot(1)}, op \in {"sub", "mul", "cmp"}}

\* main calls a function that adds up what it gets and what it returns for it.
Recursive(rec) ==
    LET in(fn, op, ops) == [Value(fn, 1, op, ops, <<-2, 2, 2>>, -1) EXCEPT
                              !.callee = IF op = "call" THEN Foo ELSE 0]
    IN  [funcs |-> <<Line, [Line EXCEPT !.maxrec = rec]>>, todo |-> <<Foo, Main>>,
         code |-> <<in(Foo, "arg", <<>>), in(Foo, "call", <<1>>), in(Foo, "add", <<1, 2>>),
                    in(Foo, "ret", <<3>>), [in(Main, "arg", <<>>) EXCEPT !.init = 1],
                    in(Main, "call", <<5>>)>>]

\* A function of many blocks, without instructions.
Empty(s) == [funcs |-> <<Function(s, 0)>>, code |-> <<>>, todo |-> <<Main>>]
Simple == Statements({Atom})

\* for (..;;..) { if (..) ; else if (..) break; }, with either side of the first first.
BreakInElse(sides) == <<<<2>>, sides, <<5>>, <<6, 5>>, <<2>>, <<>>>>

Nests == Statements(Simple) \cup LoopsOver(Statements(Simple))
         \cup {ContinueBreak, SwitchInLoop, BreakInElse(<<3, 4>>), BreakInElse(<<4, 3>>)}

SmallPrograms ==
    ProgramsOf(Line, Sketches(<<1, 1, 1>>) \cup Rereading)
    \cup ProgramsOf(Branch, Sketches(<<2, 3, 4>>) \cup Sketches(<<2, 4, 4>>))
    \cup {Recursive(rec) : rec \in {0, 2}}
    \cup {Empty(s) : s \in Fitting(Nests)}
=============================================================================
