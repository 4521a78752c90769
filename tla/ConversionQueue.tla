--------------------------- MODULE ConversionQueue ---------------------------
(***************************************************************************)
(* The worklist of the initializer,                                        *)
(* TaffoInitializer::buildConversionQueueForRootValues                     *)
(* (src/lib/Initializer/TaffoInitializer/TaffoInitializerPass.cpp): from   *)
(* the annotated values (the roots) it collects the values that use them   *)
(* and, where an annotation asks for backtracking, the values they are     *)
(* computed from, and gives each the metadata of a root.                   *)
(*                                                                         *)
(* The queue is a MultiValueMap; here it is the sequence of its keys, and  *)
(* info is what it maps them to.  An iterator is the value it is on, or    *)
(* EndIt.  A pass over the queue takes one step per value.                 *)
(***************************************************************************)
EXTENDS Integers, Sequences, FiniteSets, SequencesExt, FiniteSetsExt

CONSTANTS
    Value,      \* the llvm::Value objects of the module
    Root,       \* the annotated ones
    Programs,   \* the programs: records of
                \*   ops    : per value, the sequence of its operands,
                \*   users  : per value, its uses in the order of its use list,
                \*   phi    : the phi nodes,
                \*   gep    : the address computations, whose first operand
                \*            is the pointer,
                \*   malloc : the stores of the result of a cast to a float
                \*            pointer,
                \*   roots  : the roots, in the order they were read,
                \*   depth  : the backtracking depth of each root,
                \*   off    : the roots whose annotation disables conversion
    Far,        \* UINT_MAX, the distance of a value no root is known for
    EndIt,      \* queue.end()
    Default,    \* metadata made for a type, copied from no root
    NoRoot      \* no metadata

ASSUME QueueAssumption ==
    /\ IsFiniteSet(Value) /\ Root \subseteq Value
    /\ Far \in Nat /\ Far > Cardinality(Value)
    /\ EndIt \notin Value
    /\ Default \notin Root /\ NoRoot \notin Root \cup {Default}

\* Every root is in the queue once at first.  A store has no uses.  No value is
\* its own operand: the entry of a phi node that is would be erased while the
\* iterator is on it.
ASSUME ProgramAssumption ==
    \A p \in Programs :
        /\ p.ops \in [Value -> Seq(Value)] /\ p.users \in [Value -> Seq(Value)]
        /\ p.roots \in Seq(Value) /\ IsInjective(p.roots) /\ ToSet(p.roots) = Root
        /\ p.depth \in [Root -> Nat]
        /\ \A v \in Value : /\ v \notin ToSet(p.ops[v]) \cup ToSet(p.users[v])
                           /\ ToSet(p.ops[v]) \cap p.malloc = {}

VARIABLES
    prog,       \* the program, never changed
    queue,      \* the keys of the queue, in order
    info,       \* their ValueInfo
    visited,    \* the values the forward passes have been on
    next,       \* the iterator
    pass,       \* "forward", "backward" or "done"
    prevSize    \* prevQueueSize

vars == <<prog, queue, info, visited, next, pass, prevSize>>

\* ValueInfo: backtrackingDepthLeft, fixpTypeRootDistance, and of the
\* metadata the root it was copied from and the conversion flag.
InfoT == [depth : Nat, dist : 0..Far, from : Root \cup {Default, NoRoot},
          enabled : BOOLEAN]

NewInfo_AtRoot(d) == [depth |-> d, dist |-> 0, from |-> NoRoot, enabled |-> FALSE]

NewInfo(d) == [depth |-> d, dist |-> Far, from |-> NoRoot, enabled |-> FALSE]
RootInfo(p, r) ==
    [depth |-> p.depth[r], dist |-> 0, from |-> r, enabled |-> r \notin p.off]

\* min(d, d - 1) on unsigned integers.
Less1(d) == IF d = 0 THEN 0 ELSE d - 1
\* max(d, d + 1) on unsigned integers.
Plus1(d) == IF d = Far THEN Far ELSE d + 1

MaxOf(a, b) == IF a > b THEN a ELSE b

PosOf(q, v) == CHOOSE i \in 1..Len(q) : q[i] = v
Without(q, v) == IF v \in ToSet(q) THEN RemoveAt(q, PosOf(q, v)) ELSE q

\* ++next and --next.
After(q, v) ==
    IF PosOf(q, v) = Len(q) THEN EndIt ELSE q[PosOf(q, v) + 1]
Before(q, v) == IF v = EndIt THEN Last(q) ELSE q[PosOf(q, v) - 1]

\* Metadata is not copied from an index to the address computed with it.
IsPointerOf(used, user) == user \in prog.gep /\ used = prog.ops[user][1]
CopyOk(used, user) == user \in prog.gep => IsPointerOf(used, user)

CreateInfoOfUser_Farther(used, vi, user, ui) ==
    [ui EXCEPT !.dist = Plus1(vi.dist), !.from = vi.from, !.enabled = vi.enabled]
\* (Mutant: metadata that is closer is not copied over what there is.)
CreateInfoOfUser_KeepMetadata(used, vi, user, ui) ==
    [ui EXCEPT !.dist = IF @ > Plus1(vi.dist) THEN Plus1(vi.dist) ELSE @,
               !.from = IF @ = NoRoot THEN vi.from ELSE @,
               !.enabled = @ \/ vi.enabled]

(***************************************************************************)
(* createInfoOfUser: what user's info ui becomes by the info vi of used.   *)
(* Closer metadata is copied, an enabled flag is inherited, and an address *)
(* computation takes the metadata of its pointer in any case.              *)
(***************************************************************************)
CreateInfoOfUser(used, vi, user, ui) ==
    LET closer == ui.dist > Plus1(vi.dist)
        copied == IF ~closer THEN ui
                  ELSE [ui EXCEPT
                    !.dist    = Plus1(vi.dist),
                    !.from    = IF CopyOk(used, user) THEN vi.from ELSE Default,
                    !.enabled = CopyOk(used, user) => vi.enabled]
        shared == [copied EXCEPT !.enabled = @ \/ vi.enabled]
    IN  IF IsPointerOf(used, user) /\ vi.from # NoRoot
        THEN [shared EXCEPT !.from = vi.from, !.enabled = vi.enabled]
        ELSE shared

\* A pass in progress: the queue and the infos.
State == [queue |-> queue, info |-> info]

InQueue(s, v) == v \in ToSet(s.queue)

\* The info of v, or a new one.
InfoOf(s, v) == IF InQueue(s, v) THEN s.info[v] ELSE NewInfo(0)

\* The depth that a value with depth d leaves to its user u.
UserDepth(d, u) == IF u \in prog.malloc /\ Less1(d) < 2 THEN 2 ELSE Less1(d)

EnqueueUser_KeepPlace(s, v, u) ==
    [queue |-> IF InQueue(s, u) THEN s.queue ELSE Append(s.queue, u),
     info  |-> [s.info EXCEPT ![u] = CreateInfoOfUser(v, s.info[v], u, InfoOf(s, u))]]

EnqueueUser_NoVisited(s, v, u) ==
    [queue |-> Append(Without(s.queue, u), u),
     info  |-> [s.info EXCEPT ![u] = CreateInfoOfUser(v, s.info[v], u, InfoOf(s, u))]]

(***************************************************************************)
(* The loop over the users of v: a user goes to the end of the queue, or   *)
(* moves there, and gets depth and metadata from v; a phi node that was    *)
(* visited is left alone.                                                  *)
(***************************************************************************)
EnqueueUser(s, v, u) ==
    IF u \in prog.phi /\ u \in visited \cup {v} THEN s
    ELSE LET old  == InfoOf(s, u)
             deep == [old EXCEPT !.depth = MaxOf(@, UserDepth(s.info[v].depth, u))]
         IN  [queue |-> Append(Without(s.queue, u), u),
              info  |-> [s.info EXCEPT ![u] = CreateInfoOfUser(v, s.info[v], u, deep)]]

EnqueueOperand_SameDepth(s, v, u) ==
    IF InQueue(s, u) /\ PosOf(s.queue, u) < PosOf(s.queue, v) THEN s
    ELSE LET q == Without(s.queue, u)
         IN  [queue |-> InsertAt(q, PosOf(q, v), u),
              info  |-> [s.info EXCEPT ![u] =
                            CreateInfoOfUser(v, s.info[v], u, NewInfo(s.info[v].depth))]]

(***************************************************************************)
(* The loop over the operands of v in the backtracking pass: an operand    *)
(* that is not in front of v in the queue gets a new info and goes there.  *)
(***************************************************************************)
EnqueueOperand(s, v, u) ==
    IF InQueue(s, u) /\ PosOf(s.queue, u) < PosOf(s.queue, v)
    THEN [s EXCEPT !.info[u] = CreateInfoOfUser(v, s.info[v], u, @)]
    ELSE LET q   == Without(s.queue, u)
             new == NewInfo(Less1(s.info[v].depth))
         IN  [queue |-> InsertAt(q, PosOf(q, v), u),
              info  |-> [s.info EXCEPT ![u] = CreateInfoOfUser(v, s.info[v], u, new)]]

\* What the loops over the users and over the operands of v make of the queue.
EnqueueUsers(v) == FoldLeft(LAMBDA t, u : EnqueueUser(t, v, u), State, prog.users[v])
EnqueueOperands(v) == FoldLeft(LAMBDA t, u : EnqueueOperand(t, v, u), State, prog.ops[v])

-----------------------------------------------------------------------------
Init ==
    /\ prog \in Programs
    /\ queue = prog.roots
    /\ info = [v \in Value |-> IF v \in Root THEN RootInfo(prog, v) ELSE NewInfo(0)]
    /\ visited = {}
    /\ next = EndIt
    /\ pass = "done"
    /\ prevSize = 0

\* while (prevQueueSize < queue.size()): another round of both passes.
BeginRound ==
    /\ pass = "done" /\ prevSize < Len(queue)
    /\ prevSize' = Len(queue)
    /\ pass' = "forward"
    /\ next' = Head(queue)
    /\ UNCHANGED <<prog, queue, info, visited>>

\* One value of the forward pass, all of its users.
VisitUsers ==
    /\ pass = "forward" /\ next # EndIt
    /\ \E s \in {EnqueueUsers(next)} :
           /\ queue' = s.queue
           /\ info' = s.info
           /\ next' = After(s.queue, next)
    /\ visited' = visited \cup {next}
    /\ UNCHANGED <<prog, pass, prevSize>>

BeginBacktracking ==
    /\ pass = "forward" /\ next = EndIt
    /\ pass' = "backward"
    /\ UNCHANGED <<prog, queue, info, visited, next, prevSize>>

\* One value of the backtracking pass, all of its operands.
VisitOperands ==
    /\ pass = "backward" /\ next # Head(queue)
    /\ LET v == Before(queue, next) IN
       \E s \in {IF info[v].depth = 0 THEN State ELSE EnqueueOperands(v)} :
           /\ queue' = s.queue
           /\ info' = s.info
           /\ next' = v
    /\ UNCHANGED <<prog, visited, pass, prevSize>>

EndRound ==
    /\ pass = "backward" /\ next = Head(queue)
    /\ pass' = "done"
    /\ next' = EndIt
    /\ UNCHANGED <<prog, queue, info, visited, prevSize>>

Step == BeginRound \/ VisitUsers \/ BeginBacktracking \/ VisitOperands \/ EndRound

Finished == pass = "done" /\ prevSize = Len(queue)

Next == Step \/ (Finished /\ UNCHANGED vars)

\* Weak fairness of Step, which is enabled until the loop has finished: the
\* pass is sequential.  Written out, since ENABLED Step is slow to evaluate.
Fairness == []<>Finished \/ []<><<Step>>_vars

Spec == Init /\ [][Next]_vars /\ Fairness

-----------------------------------------------------------------------------
(* Properties.                                                             *)

(***************************************************************************)
(* UINT_MAX is larger than any distance from a root.  "backtracking"       *)
(* without a number is a depth of UINT_MAX: the operands of a phi node in  *)
(* a loop then take turns in the backtracking pass until it is used up.    *)
(***************************************************************************)
ShallowAnnotations ==
    \A p \in Programs : \A r \in Root : p.depth[r] + 3 * Cardinality(Value) + 2 <= Far

(***************************************************************************)
(* Types.  Every value in the queue has metadata: setMetadataOfValue       *)
(* dereferences it, and createInfoOfUser clones it.                        *)
(***************************************************************************)
TypeOK ==
    /\ queue \in Seq(Value) /\ IsInjective(queue)
    /\ info \in [Value -> InfoT]
    /\ \A v \in ToSet(queue) : info[v].from # NoRoot
    /\ visited \subseteq Value
    /\ next \in Value \cup {EndIt}
    /\ pass \in {"forward", "backward", "done"}
    /\ prevSize \in 0..Len(queue)

(***************************************************************************)
(* A round leaves every value in the queue behind the values it is         *)
(* computed from: the order in which metadata propagates.                  *)
(***************************************************************************)
UsersBehind ==
    pass = "forward" /\ next = EndIt =>
        \A v \in ToSet(queue) : \A u \in ToSet(prog.users[v]) \ prog.phi :
            InQueue(State, u) /\ PosOf(queue, v) < PosOf(queue, u)

(***************************************************************************)
(* What the annotations ask for: the values that use a root, directly or   *)
(* not, and along each path from a root the values used within the depth   *)
(* that is left of its backtracking.  Wanted is the set of those values,   *)
(* each with every depth that a path leaves to it: what rounds of growing  *)
(* make of the roots, as many as there may be values with depths.          *)
(***************************************************************************)
Grow(W) ==
    W \cup (UNION {{<<u, UserDepth(w[2], u)>> : u \in ToSet(prog.users[w[1]])} : w \in W})
      \cup (UNION {{<<u, w[2] - 1>> : u \in ToSet(prog.ops[w[1]])} :
                     w \in {x \in W : x[2] > 0}})

RootsAndDepths == {<<r, prog.depth[r]>> : r \in Root}
Deepest == Max({2} \cup {prog.depth[r] : r \in Root})
Rounds == Cardinality(Value) * (Deepest + 1)

Wanted ==
    LET grown[n \in 0..Rounds] == IF n = 0 THEN RootsAndDepths ELSE Grow(grown[n - 1])
    IN  grown[Rounds]

(***************************************************************************)
(* Nothing else ends up in the queue, whatever the order of the use lists, *)
(* nor is a value given more depth than the annotations grant.             *)
(***************************************************************************)
NothingElseQueued ==
    Finished => \A v \in ToSet(queue) :
                    \E w \in Wanted : w[1] = v /\ info[v].depth <= w[2]

\* The queue is in the order of use, with nothing in it that is not wanted.
QueueExact == UsersBehind /\ NothingElseQueued

(***************************************************************************)
(* In the end all of them are in the queue: backtracking schedules "the    *)
(* values indirectly used by this variable, in addition to the values      *)
(* which use it" (doc/AnnotationSyntax.md:116).                            *)
(***************************************************************************)
AllQueued ==
    Finished => \A w \in Wanted : w[1] \in ToSet(queue)

\* No phi nodes and no backtracking, which the stores of malloc ask for too.
Ordinary == prog.phi = {} /\ prog.malloc = {} /\ \A r \in Root : prog.depth[r] = 0

(***************************************************************************)
(* Without backtracking and phi nodes the distance of every value is that  *)
(* of a closest root, and where no address is computed, whose metadata is  *)
(* that of the pointer instead, it has the metadata of such a root,        *)
(* whatever the order of roots and use lists.                              *)
(***************************************************************************)
UsersOf(S) == UNION {ToSet(prog.users[v]) : v \in S}

\* The values that at most n uses lead to from those of R.
Within(R, n) ==
    LET within[i \in 0..n] == IF i = 0 THEN R ELSE within[i - 1] \cup UsersOf(within[i - 1])
    IN  within[n]

ClosestRoot ==
    Finished /\ Ordinary =>
        \A v \in ToSet(queue) : LET n == info[v].dist IN
            /\ v \in Within(Root, n) /\ (n > 0 => v \notin Within(Root, n - 1))
            /\ prog.gep = {} => info[v].from \in Root /\ v \in Within({info[v].from}, n)

(***************************************************************************)
(* "The conversion enabling flag shall be true if at least one of the      *)
(* parents of the children has it enabled" (:350), although a closer root  *)
(* may have overwritten it: without backtracking, which sets flags of      *)
(* operands in the last pass that no later pass hands on.                  *)
(***************************************************************************)
EnabledInherited ==
    Finished /\ prog.gep = {} /\ Ordinary =>
        \A v \in ToSet(queue) : \A u \in ToSet(prog.users[v]) :
            info[v].enabled => info[u].enabled

(***************************************************************************)
(* Both: what a value inherits depends on its roots alone, not on the      *)
(* order in which they and the use lists are walked.                       *)
(***************************************************************************)
RootsInherited == ClosestRoot /\ EnabledInherited

(***************************************************************************)
(* The rounds come to an end.                                              *)
(***************************************************************************)
Terminates == <>Finished
=============================================================================
