---------------------------- MODULE MCRangeStores ----------------------------
(* RangeStores for TLC: every function that declares its variables in one of *)
(* a few ways and has three more instructions, called twice.                 *)
EXTENDS RangeStores, FiniteSets

Alloca(t) == [op |-> "alloca", type |-> t]
Gep(x, f) == [op |-> "gep", type |-> IF f = 2 THEN "inner*" ELSE "number*",
              base |-> x, offset |-> <<f>>]
Load(a, t) == [op |-> "load", type |-> t, from |-> a]
Store(x, a) == [op |-> "store", type |-> "void", value |-> x, to |-> a]
MemCpy(a, b) == [op |-> "memcpy", type |-> "void", to |-> a, from |-> b]
Phi(x, y) == [op |-> "phi", type |-> "number", values |-> <<x, y>>]
Add(x) == [op |-> "add", type |-> "number", value |-> x]
In(b, i) == [block |-> b] @@ i

\* The entry blocks: a number; a structure and its fields; two structures; a pointer
\* to a number and one to a structure; a structure within one; a copy of it.
Entries ==
    {<<Alloca("number*"), Store(Arg, 1), Load(1, "number")>>,
     <<Alloca("struct*"), Gep(1, 1), Gep(1, 2)>>,
     <<Alloca("struct*"), Alloca("struct*"), Gep(1, 1)>>,
     <<Alloca("number*"), Alloca("number**"), Store(1, 2)>>,
     <<Alloca("struct*"), Alloca("struct**"), Store(1, 2), Load(2, "struct*"), Gep(4, 2)>>,
     <<Alloca("struct*"), Alloca("inner*"), Gep(1, 2), Gep(3, 1), Gep(2, 1)>>,
     <<Alloca("struct*"), Alloca("struct*"), Gep(1, 2), Gep(3, 1), Store(Arg, 4)>>}

\* The blocks of the other three instructions.
Rest == [branch |-> {<<"left", "right", "join">>, <<"left", "join", "join">>},
         loop |-> {<<"body", "body", "join">>}]

\* The blocks whose values an instruction in block b may use.
Before == [left |-> {"entry", "left"}, right |-> {"entry", "right"}, body |-> {"entry", "body"},
           join |-> {"entry", "body", "join"}]

\* The instructions that may follow the code c, in block b.
Instrs(c, b) ==
    LET typed(t) == {i \in DOMAIN c : c[i].type = t /\ c[i].block \in Before[b]}
        numbers == typed("number")
        cells == typed("number*") \cup {Ptr}
        structs == typed("struct*")
        inners == typed("inner*")
        incoming(blocks) == {i \in DOMAIN c : c[i].type = "number" /\ c[i].block \in blocks}
    IN  {Store(x, a) : x \in numbers \cup {Arg}, a \in cells}
        \cup {Store(x, a) : x \in cells, a \in typed("number**")}
        \cup {Load(a, "number") : a \in cells}
        \cup {Load(a, "number*") : a \in typed("number**")}
        \cup {Load(a, "struct*") : a \in typed("struct**")}
        \cup {Gep(x, 1) : x \in structs \cup inners} \cup {Gep(x, 2) : x \in structs}
        \cup {Add(x) : x \in numbers}
        \cup {MemCpy(p[1], p[2]) : p \in {p \in structs \X structs \cup inners \X inners : p[1] # p[2]}}
        \cup (IF b # "join" THEN {}
              ELSE {Phi(x, y) : x \in incoming({"entry", "left"}), y \in incoming({"right"})})
        \cup (IF b # "body" \/ Last(c).block = "body" THEN {}
              ELSE {Phi(x, Len(c) + 2) : x \in numbers \cup {Arg}})

Uses(i) ==
    CASE i.op = "alloca" -> {}
      [] i.op = "gep" -> {i.base}
      [] i.op = "load" -> {i.from}
      [] i.op = "store" -> {i.value, i.to}
      [] i.op = "memcpy" -> {i.to, i.from}
      [] i.op = "add" -> {i.value}
      [] i.op = "phi" -> ToSet(i.values)

\* What the other blocks of c compute and nothing uses yet.
Unused(c) ==
    {i \in DOMAIN c : c[i].block # "entry" /\ c[i].type # "void"} \ UNION {Uses(c[i]) : i \in DOMAIN c}

\* The last instruction uses what the others left, and phi nodes are of numbers.
Final(c, i) == Unused(c) \subseteq Uses(i) /\ i.op # "gep"
PhisTyped(c) ==
    \A i \in DOMAIN c : c[i].op = "phi" => \A x \in Uses(c[i]) : x = Arg \/ c[x].type = "number"

Longer(C, b) == UNION {{Append(c, In(b, i)) : i \in Instrs(c, b)} : c \in C}
Completed(C, b) ==
    UNION {{Append(c, In(b, i)) : i \in {j \in Instrs(c, b) : Final(c, j)}} :
               c \in {d \in C : PhisTyped(d) /\ Cardinality(Unused(d)) <= 2}}
Codes(b) ==
    LET entries == {[i \in DOMAIN e |-> In("entry", e[i])] : e \in Entries}
    IN  Completed(Longer(Longer(entries, b[1]), b[2]), b[3])

SmallPrograms ==
    UNION {UNION {{[shape |-> s, code |-> c] : c \in Codes(b)} : b \in Rest[s]} : s \in DOMAIN Rest}

TwoArguments == <<5, 9>>
=============================================================================
