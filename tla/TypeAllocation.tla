---------------------------- MODULE TypeAllocation ----------------------------
(***************************************************************************)
(* The data type allocation (src/lib/DataTypeAlloc/TaffoDTA/TaffoDTA.cpp): *)
(* it chooses a fixed point type for each value with a range, sorts the    *)
(* values so that a value comes before its users, and merges the types of  *)
(* neighbours that are similar, keeping the types of formal and actual     *)
(* arguments in step.                                                      *)
(***************************************************************************)
EXTENDS FixedPointTypes, Sequences, SequencesExt

CONSTANTS
    Value,      \* the llvm::Value objects of the module
    Programs,   \* the programs: records of
                \*   order   : the values with metadata, as they are met,
                \*   range   : what the range of each is, or NoRange,
                \*   users   : per value, its uses in the order of its use list,
                \*   kind    : "scalar", "pointer" or "struct",
                \*   enabled : the values conversionDisabled is false for,
                \*   args    : the values that are formal arguments,
                \*   calls   : pairs of an actual and the formal argument
    NoRange,    \* no range, or one that is not a number
    NoType,     \* a value whose type is not changed, or a struct
    NoInfo      \* not in info

ASSUME NothingAssumption ==
    /\ NoType \notin TypeT /\ NoInfo \notin TypeT /\ NoType # NoInfo
    /\ NoRange \notin RangeT

ASSUME ValueAssumption == IsFiniteSet(Value)

ASSUME ProgramAssumption ==
    \A p \in Programs :
        /\ p.order \in Seq(Value) /\ p.users \in [Value -> Seq(Value)]
        /\ p.range \in [Value -> RangeT \cup {NoRange}]
        /\ p.kind \in [Value -> {"scalar", "pointer", "struct"}]
        /\ p.args \subseteq Value /\ p.calls \subseteq Value \X p.args
        \* a range is part of the metadata, and its bounds are doubles
        /\ \A v \in Value : p.range[v] # NoRange =>
              /\ v \in ToSet(p.order)
              /\ p.range[v].finite => Magnitude(p.range[v]) < 2^MaxExponent * Unit

VARIABLES
    prog,       \* the program, never changed
    mode,       \* "off" with -notypemerge, "iterative" with -iterative, or
                \* "pairwise", never changed
    pc,         \* "associate", "sort", "push", "merge" or "done"
    type,       \* the IType of each value's metadata
    initial,    \* its initialType
    vals,       \* the queue
    next,       \* how far the loop over vals has come
    use,        \* and the one over the users of a value
    stack,      \* the values of sortQueue's search that are not finished,
    cur,        \* the one whose users are pushed,
    vstates,    \* their state,
    revQueue,   \* and those that are
    merged      \* something was merged in this round

loops == <<next, use>>
search == <<stack, cur, vstates, revQueue>>
vars == <<prog, mode, pc, type, initial, vals, loops, search, merged>>

Mode == {"off", "pairwise", "iterative"}

HasInfo(v) == type[v] # NoInfo
Typed == TypeT \cup {NoType}

Init ==
    /\ prog \in Programs /\ mode \in Mode
    /\ pc = "associate"
    /\ type = [v \in Value |-> NoInfo]
    /\ initial = [v \in Value |-> NoType]
    /\ vals = <<>> /\ next = 1 /\ use = 1
    /\ stack = <<>> /\ cur = CHOOSE v \in Value : TRUE
    /\ vstates = [v \in Value |-> "none"] /\ revQueue = <<>>
    /\ merged = FALSE

(***************************************************************************)
(* retrieveAllMetadata                                                     *)
(***************************************************************************)

\* processMetadataOfValue and associateFixFormat: a value that no type is
\* found for is left out.
Associate ==
    /\ pc = "associate" /\ next <= Len(prog.order)
    /\ next' = next + 1
    /\ LET v == prog.order[next]
       IN  IF prog.range[v] = NoRange
           THEN UNCHANGED <<type, initial, vals>>
           ELSE \E t \in IF prog.kind[v] = "struct" THEN {NoType}
                                                    ELSE TypeFor(prog.range[v]) :
                    /\ type' = [type EXCEPT ![v] = t]
                    /\ initial' = [initial EXCEPT ![v] = t]
                    /\ vals' = Append(vals, v)
    /\ UNCHANGED <<prog, mode, pc, use, search, merged>>

BeginSorting ==
    /\ pc = "associate" /\ next > Len(prog.order)
    /\ pc' = "sort" /\ next' = 1
    /\ UNCHANGED <<prog, mode, type, initial, vals, use, search, merged>>

(***************************************************************************)
(* sortQueue                                                               *)
(***************************************************************************)

Top == stack[Len(stack)]

NextRoot ==
    /\ pc = "sort" /\ stack = <<>> /\ next <= Len(vals)
    /\ next' = next + 1
    /\ stack' = IF vstates[vals[next]] = "none" THEN <<vals[next]>> ELSE <<>>
    /\ UNCHANGED <<prog, mode, pc, type, initial, vals, use, cur,
                   vstates, revQueue, merged>>

\* A user without info is given that of the value it uses, but for structs.
Inherited(u, c) == IF prog.kind[u] = "struct" THEN NoType ELSE type[c]

Visit_Preorder ==
    /\ pc = "sort" /\ stack # <<>> /\ vstates[Top] = "none"
    /\ pc' = "push" /\ cur' = Top /\ use' = 1
    /\ stack' = Front(stack)
    /\ vstates' = [vstates EXCEPT ![Top] = "visited"]
    /\ revQueue' = Append(revQueue, Top)
    /\ UNCHANGED <<prog, mode, type, initial, vals, next, merged>>
Visit ==
    /\ pc = "sort" /\ stack # <<>> /\ vstates[Top] = "none"
    /\ pc' = "push" /\ cur' = Top /\ use' = 1
    /\ vstates' = [vstates EXCEPT ![Top] = "visiting"]
    /\ UNCHANGED <<prog, mode, type, initial, vals, next, stack, revQueue, merged>>

\* A user of cur that is to be converted.
PushUser ==
    /\ pc = "push" /\ use <= Len(prog.users[cur])
    /\ use' = use + 1
    /\ LET u == prog.users[cur][use]
           Given(f) == IF HasInfo(u) THEN f ELSE [f EXCEPT ![u] = Inherited(u, cur)]
       IN  IF u \in prog.enabled
           THEN /\ stack' = Append(stack, u)
                /\ type' = Given(type) /\ initial' = Given(initial)
           ELSE UNCHANGED <<stack, type, initial>>
    /\ UNCHANGED <<prog, mode, pc, vals, next, cur, vstates, revQueue, merged>>

EndUsers ==
    /\ pc = "push" /\ use > Len(prog.users[cur])
    /\ pc' = "sort"
    /\ UNCHANGED <<prog, mode, type, initial, vals, loops, search, merged>>

\* The users are finished, or this is a second time.
Leave ==
    /\ pc = "sort" /\ stack # <<>> /\ vstates[Top] # "none"
    /\ stack' = Front(stack)
    /\ vstates' = [vstates EXCEPT ![Top] = "visited"]
    /\ revQueue' = IF vstates[Top] = "visiting" THEN Append(revQueue, Top) ELSE revQueue
    /\ UNCHANGED <<prog, mode, pc, type, initial, vals, loops, cur, merged>>

EndSorting ==
    /\ pc = "sort" /\ stack = <<>> /\ next > Len(vals)
    /\ pc' = IF mode = "off" THEN "done" ELSE "merge"
    /\ vals' = Reverse(revQueue)
    /\ next' = 1 /\ use' = 1
    /\ UNCHANGED <<prog, mode, type, initial, search, merged>>

(***************************************************************************)
(* mergeFixFormat                                                          *)
(***************************************************************************)

\* Iterative merging is of the types as they are now, the other of the ones
\* the values had at first.
Base(v) == IF mode = "iterative" THEN type[v] ELSE initial[v]

Merged_Always(v, u) ==
    IF /\ prog.kind[v] = "scalar" /\ prog.kind[u] = "scalar"
       /\ {type[v], type[u], Base(v), Base(u)} \subseteq TypeT
       /\ IsMergeable(Base(v), Base(u))
    THEN Merge(Base(v), Base(u))
    ELSE {}
\* mergeFixFormat of two values: the type both are given, if any.
Merged(v, u) ==
    IF /\ prog.kind[v] = "scalar" /\ prog.kind[u] = "scalar"
       /\ NoType \notin {type[v], type[u], Base(v), Base(u)}
       /\ Base(v) # Base(u)
       /\ IsMergeable(Base(v), Base(u))
    THEN Merge(Base(v), Base(u))
    ELSE {}

Actuals(x) == {c[1] : c \in {c \in prog.calls : c[2] = x}}
FormalsOf(v) == {c[2] : c \in {c \in prog.calls : c[1] = v}}
IsFormal(v) == v \in prog.args

\* The values setTypesOnCallArgumentFromFunctionArgument and its caller give
\* the type of v.
Restored_FormalOnly(v) == FormalsOf(v)
Restored(v) ==
    IF IsFormal(v) THEN Actuals(v)
    ELSE LET formals == {x \in FormalsOf(v) : HasInfo(x)}
         IN  formals \cup UNION {Actuals(x) : x \in formals}

\* restoreTypesAcrossFunctionCall
Restore(f, v) ==
    [w \in Value |-> IF w \in Restored(v) /\ HasInfo(w) THEN f[v] ELSE f[w]]

MergePair ==
    /\ pc = "merge" /\ next <= Len(vals) /\ use <= Len(prog.users[vals[next]])
    /\ use' = use + 1
    /\ LET v == vals[next]
           u == prog.users[v][use]
           ts == IF u \in ToSet(vals) THEN Merged(v, u) ELSE {}
       IN  \/ /\ ts = {}
              /\ UNCHANGED <<type, merged>>
           \/ \E t \in ts :
                 /\ type' = Restore(Restore([type EXCEPT ![v] = t, ![u] = t], v), u)
                 /\ merged' = TRUE
    /\ UNCHANGED <<prog, mode, pc, initial, vals, next, search>>

NextValue ==
    /\ pc = "merge" /\ next <= Len(vals) /\ use > Len(prog.users[vals[next]])
    /\ next' = next + 1 /\ use' = 1
    /\ UNCHANGED <<prog, mode, pc, type, initial, vals, search, merged>>

EndRound ==
    /\ pc = "merge" /\ next > Len(vals)
    /\ IF mode = "iterative" /\ merged
       THEN next' = 1 /\ pc' = "merge"
       ELSE next' = next /\ pc' = "done"
    /\ merged' = FALSE
    /\ UNCHANGED <<prog, mode, type, initial, vals, use, search>>

Step ==
    \/ Associate \/ BeginSorting
    \/ NextRoot \/ Visit \/ PushUser \/ EndUsers \/ Leave \/ EndSorting
    \/ MergePair \/ NextValue \/ EndRound

Next == Step \/ (pc = "done" /\ UNCHANGED vars)

\* The pass is sequential.
Spec == Init /\ [][Next]_vars /\ WF_vars(Step)

-----------------------------------------------------------------------------
(* Properties.                                                             *)

Informed == {v \in Value : HasInfo(v)}
IntBitsCounted(f) == \A v \in Value : f[v] \in TypeT => IntBits(f[v]) >= 0

TypeOK ==
    /\ mode \in Mode
    /\ pc \in {"associate", "sort", "push", "merge", "done"}
    /\ type \in [Value -> Typed \cup {NoInfo}] /\ IntBitsCounted(type)
    /\ initial \in [Value -> Typed] /\ IntBitsCounted(initial)
    /\ vals \in Seq(Informed)
    /\ next \in Nat \ {0} /\ use \in Nat \ {0}
    /\ stack \in Seq(Informed) /\ revQueue \in Seq(Informed)
    /\ pc = "push" => cur \in Informed
    /\ vstates \in [Value -> {"none", "visiting", "visited"}]
    /\ merged \in BOOLEAN

(***************************************************************************)
(* The queue that is merged holds the values with a type and all their     *)
(* users to be converted, each once, and a value on no loop stands in      *)
(* front of its users.  One on a loop is taken for finished when the       *)
(* search comes round to it, and other users of it may stand before it.    *)
(***************************************************************************)
Users(p, v) == ToSet(p.users[v]) \cap p.enabled
ReachedFrom(p, V) ==
    LET reach[n \in 0..Cardinality(Value)] ==
          IF n = 0 THEN V ELSE reach[n - 1] \cup UNION {Users(p, v) : v \in reach[n - 1]}
    IN  reach[Cardinality(Value)]
Ranged(p) == {v \in ToSet(p.order) : p.range[v] # NoRange}
OnLoop(p, v) == v \in ReachedFrom(p, Users(p, v))

QueueSorted ==
    pc \in {"merge", "done"} =>
        /\ IsInjective(vals)
        /\ ToSet(vals) = ReachedFrom(prog, Ranged(prog))
        /\ \A i, j \in DOMAIN vals :
              vals[j] \in Users(prog, vals[i]) => i < j \/ OnLoop(prog, vals[i])

(***************************************************************************)
(* Every value whose range some type of the largest size holds is given    *)
(* one that holds it, and keeps such a one whatever it is merged with,     *)
(* provided that the formal and actual arguments of calls have the same    *)
(* range, as they have where each call has a copy of the function.         *)
(***************************************************************************)
CallsCloned(p) == \A c \in p.calls : p.range[c[1]] = p.range[c[2]]

RangesHeld ==
    CallsCloned(prog) =>
        \A v \in Value :
            /\ prog.range[v] # NoRange /\ type[v] \notin {NoInfo, NoType}
            /\ prog.range[v].finite
            /\ WholeBits(Magnitude(prog.range[v])) + SignBit(prog.range[v].lo < 0) <= MaxTotalBits
            => Holds(type[v], prog.range[v])

(***************************************************************************)
(* Merging takes no bit in front of the point and no sign from a value     *)
(* that its own range asked for (initialType), whatever the types it is    *)
(* merged with and restored from, provided that what calls have to keep in *)
(* step asked for the same.                                                *)
(***************************************************************************)
Covers(t, u) == u \in TypeT => t \in TypeT /\ AsWide(t, u)
InStep(v) == {v} \cup FormalsOf(v) \cup Actuals(v)
                 \cup UNION {Actuals(x) : x \in FormalsOf(v)}
ArgumentsAlike == \A v \in Value : \A w \in InStep(v) : Covers(initial[v], initial[w])

OnlyWidened == ArgumentsAlike => \A v \in Value : Covers(type[v], initial[v])

(***************************************************************************)
(* A formal argument and the values passed for it that begin with the same *)
(* type keep the same type, if the former is not passed on, and the latter *)
(* are themselves no formal arguments and not passed for another one.      *)
(***************************************************************************)
PassedOnce(x) ==
    /\ IsFormal(x) /\ FormalsOf(x) = {}
    /\ HasInfo(x)
    /\ \A a \in Actuals(x) : /\ HasInfo(a) /\ initial[a] = initial[x]
                             /\ ~IsFormal(a) /\ FormalsOf(a) = {x}

ArgumentsAgree ==
    pc \in {"merge", "done"} =>
        \A x \in Value : PassedOnce(x) => \A a \in Actuals(x) : type[a] = type[x]

(***************************************************************************)
(* The merging ends, in rounds or in one.                                  *)
(***************************************************************************)
Terminates == <>(pc = "done")
=============================================================================
