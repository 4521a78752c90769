------------------------ MODULE CodeInterpreterProofs ------------------------
(***************************************************************************)
(* For any modules that satisfy what LLVM guarantees of them, any trip     *)
(* counts and any call graph: the interpreter's containers stay well       *)
(* typed, it consults the loops of the function it is in, and its          *)
(* recursion is bounded.                                                   *)
(*                                                                         *)
(* And where the loops are plain (ControlFlow), whatever the branches are: *)
(* a block is evaluated when it has evaluations left and all that leads to *)
(* it has been, as often as its loop has rounds, and in the end everything *)
(* called is in the global store.  The argument has four parts:            *)
(*   - Schedule says which blocks an interpreter that keeps to the loops   *)
(*     may evaluate next, and how often each has been evaluated; evaluating*)
(*     one of them keeps it (ScheduleAfter);                               *)
(*   - CountsFit says what EvalCount is on schedule; following the edges   *)
(*     of a block, one by one, yields the counts of the schedule and puts  *)
(*     its next blocks on the Worklist (FollowEdgesFits);                  *)
(*   - Gathered says what the analyzers hold then; the three, OnPlan, hold *)
(*     of every scope (PlanInv);                                           *)
(*   - StoreInv and MetInv follow the blocks and the calls to the global   *)
(*     store.                                                              *)
(***************************************************************************)
EXTENDS CodeInterpreter, SequenceTheorems, Induction

(***************************************************************************)
(* The inductive invariant.  A block is on the Worklist only when it has   *)
(* an entry in EvalCount, so that counting it down yields a number.        *)
(***************************************************************************)
ScopeOK(s) ==
    /\ s \in ScopeT
    /\ \A i \in 1..Len(s.Worklist) : s.EvalCount[s.Worklist[i]] # Unseen
    /\ s.block # NoBlock => s.EvalCount[s.block] # Unseen

StackOK == \A i \in 1..Len(Scopes) : ScopeOK(Scopes[i])

\* The calls of a function that are left, and those its scopes have used.
Left(f) ==
    IF RecursionCount[f] = Unseen THEN CallsAllowed(f) ELSE RecursionCount[f]

CallsUsed ==
    \A f \in Func : IsFiniteSet(Nested(f))
                    /\ Cardinality(Nested(f)) + Left(f) <= CallsAllowed(f)

IInv ==
    /\ module \in Modules
    /\ TypeOK
    /\ OwnLoops
    /\ StackOK
    /\ CallsUsed

(***************************************************************************)
(* Following the edges of a block.                                         *)
(***************************************************************************)
Counts == [Block -> Nat \cup {Unseen}]

\* What a count of evaluations and a Worklist must satisfy.
CountedList(r) ==
    /\ r.ec \in Counts /\ r.wl \in Seq(Block)
    /\ \A i \in 1..Len(r.wl) : r.ec[r.wl[i]] # Unseen

\* What the running function's module entry provides.
Running ==
    /\ module \in Modules /\ Scopes # <<>>
    /\ Top.func \in Func /\ LoopInfo = Top.func

\* It follows that its graph leads to blocks, and its loops are of blocks.
LEMMA RunningFacts ==
    ASSUME Running
    PROVE  /\ Graph \in [Block -> Seq(Block)]
           /\ DOMAIN Loops \subseteq Block
           /\ \A h \in DOMAIN Loops : h \in Loops[h] /\ Loops[h] \subseteq Block
           /\ \A h \in DOMAIN Loops : EnteringCount(Top.func, h) \in Nat
           /\ 1 \in Block /\ NoBlock \notin Block
<1>1. /\ module[Top.func].succ \in [Block -> Seq(Block)]
      /\ DOMAIN module[Top.func].loops \subseteq Block
      /\ \A h \in DOMAIN module[Top.func].loops :
            h \in module[Top.func].loops[h] /\ module[Top.func].loops[h] \subseteq Block
      /\ module[Top.func].hint \in [DOMAIN module[Top.func].loops -> Nat]
  BY ModuleAssumption DEF Running
<1>2. LoopInfo = Top.func
  BY DEF Running
<1>3. ASSUME NEW h \in DOMAIN Loops PROVE EnteringCount(Top.func, h) \in Nat
  <2>1. module[Top.func].hint[h] \in Nat
    BY <1>1, <1>2 DEF Loops
  <2>2. TripCount(Top.func, h) \in Nat
    BY <2>1, TripCountAssumption DEF TripCount
  <2> QED
    BY <2>2 DEF EnteringCount
<1>4. 1 \in Block /\ NoBlock \notin Block
  <2>1. PICK n : Block = 1..n /\ 1 \in Block
    BY BlockAssumption
  <2> QED
    BY <2>1 DEF NoBlock
<1> QED
  BY <1>1, <1>2, <1>3, <1>4 DEF Graph, Loops

\* Counting down the block that is evaluated.
LEMMA CountedDown ==
    ASSUME NEW ec \in Counts, NEW b \in Block, ec[b] # Unseen, ec[b] # 0
    PROVE  /\ CountDown(ec, b) \in Counts
           /\ \A c \in Block : ec[c] # Unseen => CountDown(ec, b)[c] # Unseen
<1>1. ec[b] \in Nat /\ ec[b] - 1 \in Nat /\ ec[b] - 1 # Unseen
  BY TripCountAssumption DEF Counts
<1> QED
  BY <1>1 DEF CountDown, Counts

\* There is an innermost one of the loops around some blocks.
LEMMA LoopAroundFacts ==
    ASSUME Running, NEW x, NEW S, x \in S, LoopAround(Loops, S) # NoBlock
    PROVE  LoopAround(Loops, S) \in DOMAIN Loops /\ S \subseteq Loops[LoopAround(Loops, S)]
<1> DEFINE around == {h \in DOMAIN Loops : S \subseteq Loops[h]}
           T == {Cardinality(Loops[h]) : h \in around}
<1>1. /\ \A h \in DOMAIN Loops : h \in Loops[h] /\ IsFiniteSet(Loops[h])
      /\ \A h \in DOMAIN Loops : Cardinality(Loops[h]) \in Nat
  <2>1. IsFiniteSet(Block)
    BY BlockAssumption
  <2>2. \A h \in DOMAIN Loops : h \in Loops[h] /\ Loops[h] \subseteq Block
    BY RunningFacts
  <2> QED
    BY <2>1, <2>2, FS_Subset, FS_CardinalityType
<1>2. \A h, l \in DOMAIN Loops : \/ Loops[h] \subseteq Loops[l]
                                 \/ Loops[l] \subseteq Loops[h]
                                 \/ Loops[h] \cap Loops[l] = {}
  <2> DEFINE L == module[Top.func].loops
  <2>1. \A h, l \in DOMAIN L : L[h] \subseteq L[l] \/ L[l] \subseteq L[h] \/ L[h] \cap L[l] = {}
    BY ModuleAssumption DEF Running
  <2>2. Loops = L
    BY DEF Running, Loops
  <2> HIDE DEF L
  <2> QED
    BY <2>1, <2>2
<1>3. around # {}
  BY DEF LoopAround
<1>4. PICK h \in around : \A l \in around : Cardinality(Loops[h]) <= Cardinality(Loops[l])
  <2>1. PICK c \in T : TRUE
    BY <1>3
  <2>2. T \subseteq Nat
    BY <1>1
  <2> HIDE DEF T
  <2>3. PICK n \in T : \A k \in T : n <= k
    BY <2>1, <2>2, LeastNatural
  <2> QED
    BY <2>3 DEF T
<1>5. ASSUME NEW l \in around PROVE h \in Loops[l]
  <2>1. x \in Loops[h] \cap Loops[l]
    OBVIOUS
  <2>2. CASE Loops[h] \subseteq Loops[l]
    BY <2>2, <1>1
  <2>3. CASE Loops[l] \subseteq Loops[h]
    <3>1. Loops[l] = Loops[h]
      <4>1. /\ IsFiniteSet(Loops[h]) /\ Loops[l] \subseteq Loops[h]
            /\ Cardinality(Loops[h]) <= Cardinality(Loops[l])
            /\ Cardinality(Loops[h]) \in Nat /\ Cardinality(Loops[l]) \in Nat
        BY <2>3, <1>1, <1>4
      <4>2. Cardinality(Loops[l]) <= Cardinality(Loops[h])
            /\ (Cardinality(Loops[l]) = Cardinality(Loops[h]) => Loops[l] = Loops[h])
        BY <4>1, FS_Subset, FS_CardinalityType
      <4> QED
        BY <4>1, <4>2
    <3> QED
      BY <3>1, <1>1
  <2> QED
    BY <2>1, <2>2, <2>3, <1>2
<1>6. LoopAround(Loops, S) = CHOOSE k \in around : \A l \in around : k \in Loops[l]
  BY <1>3 DEF LoopAround
<1>7. LoopAround(Loops, S) \in around
  <2> HIDE DEF around
  <2> QED
    BY <1>5, <1>6
<1> QED
  BY <1>7

\* Following an edge keeps the counts counts, gives no block's entry up, and
\* gives the block it follows the edge to one.
LEMMA FollowEdgeCounts ==
    ASSUME Running, NEW ec \in Counts, NEW src \in Block, NEW dst \in Block,
           NEW r, r = FollowEdge(ec, src, dst)
    PROVE  /\ r.ec \in Counts
           /\ \A c \in Block : ec[c] # Unseen => r.ec[c] # Unseen
           /\ r.go => r.ec[dst] # Unseen
<1> DEFINE dl == LoopAround(Loops, {dst})
           sl == LoopAround(Loops, {src})
           entering == dl # NoBlock /\ src \notin Loops[dl]
           leaving == /\ sl # NoBlock /\ dst \notin Loops[sl]
                      /\ ec[src] = 0 /\ Exiting(Graph, Loops, sl, src)
           touched == Touch(ec, dst)
<1>1. r = IF HasUnvisitedPred(ec, src, dst)
          THEN [go |-> FALSE, ec |-> ec]
          ELSE IF entering
          THEN [go |-> TRUE, ec |-> EnterLoop(ec, dl)]
          ELSE IF leaving \/ sl = NoBlock
          THEN [go |-> TRUE, ec |-> [ec EXCEPT ![dst] = 1]]
          ELSE [go |-> Remaining(touched, dst) /\ dst \in Loops[sl], ec |-> touched]
  BY DEF FollowEdge
<1>2. Unseen \notin Nat /\ ec \in [Block -> Nat \cup {Unseen}]
  BY TripCountAssumption DEF Counts
<1>3. ASSUME dl # NoBlock
      PROVE  /\ EnterLoop(ec, dl) \in Counts
             /\ \A c \in Block : ec[c] # Unseen => EnterLoop(ec, dl)[c] # Unseen
             /\ EnterLoop(ec, dl)[dst] # Unseen
  <2> DEFINE n == EnteringCount(Top.func, dl)
             e == EnterLoop(ec, dl)
  <2>1. dl \in DOMAIN Loops /\ dst \in Loops[dl]
    BY <1>3, LoopAroundFacts
  <2> HIDE DEF dl
  <2>2. n \in Nat /\ n + 1 \in Nat
    BY <2>1, RunningFacts
  <2>3. e = [b \in Block |->
               IF b \notin Loops[dl] THEN ec[b]
               ELSE IF b = dl /\ Exiting(Graph, Loops, dl, dl) THEN n + 1
               ELSE n]
    BY DEF EnterLoop
  <2> HIDE DEF n, e
  <2>4. \A b \in Block : e[b] \in Nat \cup {Unseen}
                         /\ (b \in Loops[dl] => e[b] \in Nat)
                         /\ (b \notin Loops[dl] => e[b] = ec[b])
    BY <2>2, <2>3, <1>2
  <2>5. e \in Counts
    BY <2>3, <2>4 DEF Counts
  <2> QED
    BY <2>1, <2>4, <2>5, <1>2 DEF e
<1>4. /\ [ec EXCEPT ![dst] = 1] \in Counts
      /\ \A c \in Block : ec[c] # Unseen => [ec EXCEPT ![dst] = 1][c] # Unseen
      /\ [ec EXCEPT ![dst] = 1][dst] # Unseen
  BY <1>2 DEF Counts
<1>5. /\ touched \in Counts
      /\ \A c \in Block : ec[c] # Unseen => touched[c] # Unseen
      /\ touched[dst] # Unseen
  BY <1>2 DEF Touch, Counts
<1> HIDE DEF dl, sl, leaving, touched
<1> QED
  BY <1>1, <1>2, <1>3, <1>4, <1>5

\* So does following the edges of a block, and the blocks on the Worklist
\* keep an entry each.
LEMMA TakeEdgeCounts ==
    ASSUME Running, NEW acc, CountedList(acc), NEW src \in Block, NEW dst \in Block
    PROVE  CountedList(TakeEdge(acc, src, dst))
<1> DEFINE f == FollowEdge(acc.ec, src, dst)
           r == TakeEdge(acc, src, dst)
<1>1. /\ acc.ec \in Counts /\ acc.wl \in Seq(Block)
      /\ \A i \in 1..Len(acc.wl) : acc.ec[acc.wl[i]] # Unseen
  BY DEF CountedList
<1>2. /\ f.ec \in Counts
      /\ \A c \in Block : acc.ec[c] # Unseen => f.ec[c] # Unseen
      /\ f.go => f.ec[dst] # Unseen
  BY <1>1, FollowEdgeCounts
<1>3. r.ec = f.ec /\ r.wl = IF f.go THEN <<dst>> \o acc.wl ELSE acc.wl
  BY DEF TakeEdge
<1> HIDE DEF f, r
<1>4. \A i \in 1..Len(acc.wl) : f.ec[acc.wl[i]] # Unseen
  BY <1>1, <1>2
<1>5. CASE ~f.go
  BY <1>1, <1>2, <1>3, <1>4, <1>5 DEF CountedList, r
<1>6. CASE f.go
  <2> DEFINE w == <<dst>> \o acc.wl
  <2>1. /\ w \in Seq(Block) /\ Len(w) = Len(acc.wl) + 1 /\ w[1] = dst
        /\ \A i \in 2..Len(w) : w[i] = acc.wl[i-1]
        /\ Len(acc.wl) \in Nat
    BY <1>1
  <2> HIDE DEF w
  <2>2. ASSUME NEW i \in 1..Len(w) PROVE f.ec[w[i]] # Unseen
    <3>1. CASE i = 1
      BY <3>1, <2>1, <1>2, <1>6
    <3>2. CASE i # 1
      <4>1. i \in 2..Len(w) /\ i - 1 \in 1..Len(acc.wl)
        BY <3>2, <2>1
      <4> QED
        BY <4>1, <2>1, <1>4
    <3> QED
      BY <3>1, <3>2
  <2>3. r.wl = w
    BY <1>3, <1>6 DEF w
  <2> QED
    BY <2>1, <2>2, <2>3, <1>2, <1>3 DEF CountedList, r
<1> QED
  BY <1>5, <1>6

\* A record that TakeEdge makes.
CountedLists == {r \in [ec : Counts, wl : Seq(Block)] : CountedList(r)}

\* One edge makes another.
LEMMA TakeEdgeListed ==
    ASSUME Running, NEW r \in CountedLists, NEW src \in Block, NEW dst \in Block
    PROVE  TakeEdge(r, src, dst) \in CountedLists
<1>1. CountedList(TakeEdge(r, src, dst))
  BY TakeEdgeCounts DEF CountedLists
<1>2. TakeEdge(r, src, dst).ec \in Counts /\ TakeEdge(r, src, dst).wl \in Seq(Block)
  BY <1>1 DEF CountedList
<1>3. TakeEdge(r, src, dst) \in [ec : Counts, wl : Seq(Block)]
  BY <1>2 DEF TakeEdge
<1> QED
  BY <1>1, <1>3 DEF CountedLists

\* The loop over the successors goes through them one after the other.
LEMMA FollowEdgesSteps ==
    ASSUME Running, NEW r0 \in CountedLists, NEW src \in Block
    PROVE  \E acc :
              /\ acc[0] = r0 /\ acc[Len(Graph[src])] = FollowEdges(r0.ec, r0.wl, src)
              /\ \A n \in 1..Len(Graph[src]) :
                    acc[n] = IF \E i \in 1..(n-1) : Graph[src][i] = Graph[src][n] THEN acc[n-1]
                             ELSE TakeEdge(acc[n-1], src, Graph[src][n])
<1> DEFINE s == Graph[src]
           A == CountedLists
           again(n) == \E i \in 1..(n-1) : s[i] = s[n]
           Eq(f) == f = [n \in 0..Len(s) |->
                           IF n = 0 THEN r0
                           ELSE IF \E i \in 1..(n-1) : s[i] = s[n] THEN f[n-1]
                           ELSE TakeEdge(f[n-1], src, s[n])]
           acc == CHOOSE f : Eq(f)
           G == [n \in 1..Len(s) |-> [r \in A |->
                   IF again(n) THEN r ELSE TakeEdge(r, src, s[n])]]
<1>1. s \in Seq(Block) /\ Len(s) \in Nat /\ \A n \in 1..Len(s) : s[n] \in Block
  BY RunningFacts
<1>2. r0 \in A /\ r0 = [ec |-> r0.ec, wl |-> r0.wl]
  BY DEF CountedLists
<1>3. ASSUME NEW n \in 1..Len(s), NEW r \in A PROVE TakeEdge(r, src, s[n]) \in A
  BY <1>1, TakeEdgeListed
<1>4. FollowEdges(r0.ec, r0.wl, src) = acc[Len(s)]
  <2> DEFINE q == [ec |-> r0.ec, wl |-> r0.wl]
             acc1 == CHOOSE f :
                        f = [n \in 0..Len(s) |->
                           IF n = 0 THEN q
                           ELSE IF \E i \in 1..(n-1) : s[i] = s[n] THEN f[n-1]
                           ELSE TakeEdge(f[n-1], src, s[n])]
  <2>1. FollowEdges(r0.ec, r0.wl, src) = acc1[Len(s)]
    BY Zenon DEF FollowEdges
  <2>2. q = r0
    BY <1>2
  <2> HIDE DEF q
  <2> QED
    BY <2>1, <2>2
<1> HIDE DEF s, A
<1>5. G \in [1..Len(s) -> [A -> A]]
  <2> HIDE DEF again
  <2> QED
    BY <1>3
<1>6. PICK f \in [0..Len(s) -> A] :
          f[0] = r0 /\ \A n \in 1..Len(s) : f[n] = G[n][f[n-1]]
  <2> DEFINE K == Len(s)
  <2>1. r0 \in A /\ K \in Nat /\ G \in [1..K -> [A -> A]]
    BY <1>1, <1>2, <1>5
  <2> HIDE DEF G, K
  <2>2. \E f \in [0..K -> A] : f[0] = r0 /\ \A n \in 1..K : f[n] = G[n][f[n-1]]
    BY <2>1, IterationExists
  <2> QED
    BY <2>2 DEF K
<1>7. ASSUME NEW n \in 1..Len(s)
      PROVE  f[n] = IF again(n) THEN f[n-1] ELSE TakeEdge(f[n-1], src, s[n])
  <2>1. n - 1 \in 0..Len(s)
    BY <1>1
  <2>2. f[n-1] \in A /\ f[n] = G[n][f[n-1]]
    <3> HIDE DEF G
    <3> QED
      BY <2>1, <1>6
  <2> HIDE DEF again
  <2> QED
    BY <2>2
<1>8. Eq(f)
  <2>1. \A n \in 0..Len(s) : f[n] = IF n = 0 THEN r0
                                    ELSE IF again(n) THEN f[n-1]
                                    ELSE TakeEdge(f[n-1], src, s[n])
    <3>1. \A n \in 0..Len(s) : n = 0 \/ n \in 1..Len(s)
      BY <1>1
    <3> HIDE DEF again
    <3>2. \A n \in 1..Len(s) : f[n] = IF again(n) THEN f[n-1] ELSE TakeEdge(f[n-1], src, s[n])
      BY <1>7
    <3>3. f[0] = r0
      BY <1>6
    <3>4. \A n \in 1..Len(s) : n # 0
      BY <1>1
    <3> QED
      BY <3>1, <3>2, <3>3, <3>4
  <2> QED
    BY <2>1, <1>6
<1>9. Eq(acc)
  <2> HIDE DEF Eq
  <2> QED
    BY <1>8, Zenon
<1> HIDE DEF acc
<1>10. /\ acc[0] = r0
       /\ \A n \in 1..Len(s) : acc[n] = IF \E i \in 1..(n-1) : s[i] = s[n] THEN acc[n-1]
                                        ELSE TakeEdge(acc[n-1], src, s[n])
  <2>1. \A n \in 0..Len(s) : acc[n] = IF n = 0 THEN r0
                                      ELSE IF again(n) THEN acc[n-1]
                                      ELSE TakeEdge(acc[n-1], src, s[n])
    BY <1>9
  <2>2. 0 \in 0..Len(s) /\ \A n \in 1..Len(s) : n \in 0..Len(s) /\ n # 0
    BY <1>1
  <2> HIDE DEF again
  <2>3. \A n \in 1..Len(s) : acc[n] = IF again(n) THEN acc[n-1] ELSE TakeEdge(acc[n-1], src, s[n])
    BY <2>1, <2>2
  <2>4. acc[0] = r0
    BY <2>1, <2>2
  <2> QED
    BY <2>3, <2>4 DEF again
<1> QED
  BY <1>4, <1>10 DEF s

\* It has a result, and keeps all that.
LEMMA FollowEdgesCounts ==
    ASSUME Running, NEW r0 \in CountedLists, NEW src \in Block
    PROVE  CountedList(FollowEdges(r0.ec, r0.wl, src))
<1> DEFINE s == Graph[src]
           A == CountedLists
<1>1. s \in Seq(Block) /\ Len(s) \in Nat /\ \A n \in 1..Len(s) : s[n] \in Block
  BY RunningFacts
<1>2. ASSUME NEW n \in 1..Len(s), NEW r \in A PROVE TakeEdge(r, src, s[n]) \in A
  BY <1>1, TakeEdgeListed
<1>3. PICK acc : /\ acc[0] = r0 /\ acc[Len(s)] = FollowEdges(r0.ec, r0.wl, src)
                 /\ \A n \in 1..Len(s) :
                       acc[n] = IF \E i \in 1..(n-1) : s[i] = s[n] THEN acc[n-1]
                                ELSE TakeEdge(acc[n-1], src, s[n])
  BY FollowEdgesSteps
<1> HIDE DEF s, A
<1> DEFINE S == {n \in 0..Len(s) : acc[n] \in A}
<1>4. 0 \in S
  BY <1>1, <1>3 DEF A
<1>5. ASSUME NEW n \in 0..Len(s), n < Len(s), n \in S PROVE n + 1 \in S
  <2>1. n + 1 \in 1..Len(s) /\ (n + 1) - 1 = n /\ n + 1 \in 0..Len(s)
    BY <1>1, <1>5
  <2>2. acc[n] \in A
    BY <1>5
  <2>3. acc[n+1] = acc[n] \/ acc[n+1] = TakeEdge(acc[n], src, s[n+1])
    BY <2>1, <1>3
  <2>4. TakeEdge(acc[n], src, s[n+1]) \in A
    BY <2>1, <2>2, <1>2
  <2> QED
    BY <2>1, <2>2, <2>3, <2>4
<1>6. acc[Len(s)] \in A
  <2>1. \A n \in 0..Len(s) : n < Len(s) /\ n \in S => n + 1 \in S
    BY <1>5
  <2> HIDE DEF S
  <2>2. 0..Len(s) \subseteq S
    BY <1>1, <1>4, <2>1, InductionUpTo
  <2>3. Len(s) \in 0..Len(s)
    BY <1>1
  <2>4. Len(s) \in S
    BY <2>2, <2>3
  <2> QED
    BY <2>4 DEF S
<1> QED
  BY <1>3, <1>6 DEF A, CountedLists

(***************************************************************************)
(* The steps.                                                              *)
(***************************************************************************)
\* A new scope has its entry block to evaluate once.
LEMMA NewScopeOK ==
    ASSUME NEW f \in Func
    PROVE  ScopeOK(NewScope(f)) /\ NewScope(f).func = f
<1>1. 1 \in Block /\ Unseen \notin Nat
  BY BlockAssumption, TripCountAssumption
<1>2. NewScope(f) \in ScopeT
  BY <1>1 DEF NewScope, ScopeT, Entry
<1>3. /\ NewScope(f).Worklist = <<1>> /\ NewScope(f).block = NoBlock
      /\ NewScope(f).EvalCount[1] = 1 /\ NewScope(f).func = f
  BY <1>1 DEF NewScope, Entry
<1> QED
  BY <1>1, <1>2, <1>3 DEF ScopeOK

\* The parts of the inductive invariant in a state with a scope.
LEMMA TopFacts ==
    ASSUME IInv, Scopes # <<>>
    PROVE  /\ Len(Scopes) \in Nat \ {0} /\ Scopes \in Seq(ScopeT)
           /\ Top \in ScopeT /\ ScopeOK(Top) /\ Running
           /\ Top.func \in Func /\ Top.Worklist \in Seq(Block)
           /\ Top.calls \in Seq(Func) /\ Top.EvalCount \in Counts
           /\ Top.block \in Block \cup {NoBlock}
<1>1. /\ module \in Modules /\ Scopes \in Seq(ScopeT) /\ LoopInfo = Top.func
      /\ \A i \in 1..Len(Scopes) : ScopeOK(Scopes[i])
  BY DEF IInv, TypeOK, OwnLoops, StackOK
<1>2. Len(Scopes) \in Nat \ {0} /\ Len(Scopes) \in 1..Len(Scopes)
  BY <1>1
<1>3. Top \in ScopeT /\ ScopeOK(Top)
  BY <1>1, <1>2 DEF Top
<1>4. /\ Top.func \in Func /\ Top.Worklist \in Seq(Block)
      /\ Top.calls \in Seq(Func) /\ Top.EvalCount \in Counts
      /\ Top.block \in Block \cup {NoBlock}
  BY <1>3 DEF ScopeT, Counts
<1> QED
  BY <1>1, <1>2, <1>3, <1>4 DEF Running

\* A step that changes only the innermost scope, and stays in its function.
LEMMA TopChanges ==
    ASSUME IInv, Scopes # <<>>, NEW s, ScopeOK(s), s.func = Top.func, SetTop(s),
           UNCHANGED <<module, todo, LoopInfo, RecursionCount>>,
           GlobalStore' \subseteq Func \X Block
    PROVE  IInv'
<1>1. /\ Len(Scopes) \in Nat \ {0} /\ Scopes \in Seq(ScopeT) /\ s \in ScopeT
  BY TopFacts DEF ScopeOK
<1>2. /\ Scopes' \in Seq(ScopeT) /\ Len(Scopes') = Len(Scopes)
      /\ Scopes'[Len(Scopes)] = s
      /\ \A i \in 1..(Len(Scopes) - 1) : Scopes'[i] = Scopes[i]
  BY <1>1 DEF SetTop
<1>3. Scopes' # <<>> /\ Top' = s
  BY <1>1, <1>2 DEF Top
<1>4. StackOK'
  <2>1. \A i \in 1..Len(Scopes) : ScopeOK(Scopes[i])
    BY DEF IInv, StackOK
  <2>2. \A i \in 1..Len(Scopes') : i = Len(Scopes) \/ i \in 1..(Len(Scopes) - 1)
    BY <1>1, <1>2
  <2>3. \A i \in 1..Len(Scopes') : ScopeOK(Scopes'[i])
    BY <2>1, <2>2, <1>1, <1>2
  <2> QED
    BY <2>3 DEF StackOK, ScopeOK
<1>5. OwnLoops'
  BY <1>3 DEF IInv, OwnLoops
<1>6. TypeOK'
  BY <1>2 DEF IInv, TypeOK
<1>7. CallsUsed'
  <2>1. \A i \in 2..Len(Scopes) : Scopes'[i].func = Scopes[i].func
    BY <1>1, <1>2 DEF Top
  <2>2. \A f \in Func : Nested(f)' = Nested(f)
    BY <2>1, <1>2 DEF Nested
  <2>3. \A f \in Func : Left(f)' = Left(f) /\ CallsAllowed(f)' = CallsAllowed(f)
    BY DEF Left, CallsAllowed
  <2> QED
    BY <2>2, <2>3 DEF IInv, CallsUsed
<1> QED
  BY <1>4, <1>5, <1>6, <1>7 DEF IInv

\* The analysis starts without scopes.
LEMMA InitIInv == Init => IInv
<1> SUFFICES ASSUME Init PROVE IInv
  OBVIOUS
<1>1. todo \in Seq(Func)
  <2>1. IsFiniteSet(Func) /\ Cardinality(Func) \in Nat
    BY ModuleAssumption, FS_CardinalityType
  <2>2. todo \in [1..Cardinality(Func) -> Func]
    BY DEF Init, SetToSeqs
  <2> QED
    BY <2>1, <2>2
<1>2. Scopes = <<>> /\ Len(Scopes) = 0
  BY DEF Init
<1>3. TypeOK
  BY <1>1, <1>2 DEF Init, TypeOK
<1>4. OwnLoops /\ StackOK
  BY <1>2 DEF OwnLoops, StackOK
<1>5. CallsUsed
  <2>1. \A f \in Func : Nested(f) = {}
    BY <1>2 DEF Nested
  <2>2. \A f \in Func : Left(f) = CallsAllowed(f) /\ CallsAllowed(f) \in Nat
    BY ModuleAssumption DEF Init, Left, CallsAllowed
  <2> QED
    BY <2>1, <2>2, FS_EmptySet DEF CallsUsed
<1> QED
  BY <1>3, <1>4, <1>5 DEF IInv, Init

\* processModule starts a function with the stack empty.
LEMMA ProcessFunctionInv == IInv /\ ProcessFunction => IInv'
<1> SUFFICES ASSUME IInv, ProcessFunction PROVE IInv'
  OBVIOUS
<1>1. /\ todo \in Seq(Func) /\ todo # <<>> /\ Scopes = <<>>
      /\ todo' = Tail(todo)
      /\ UNCHANGED <<module, RecursionCount, GlobalStore>>
      /\ IF module[Head(todo)].start
         THEN Scopes' = <<NewScope(Head(todo))>> /\ LoopInfo' = Head(todo)
         ELSE UNCHANGED <<Scopes, LoopInfo>>
  BY DEF IInv, TypeOK, ProcessFunction
<1>2. Head(todo) \in Func /\ todo' \in Seq(Func)
  BY <1>1
<1>3. CASE module[Head(todo)].start
  <2> DEFINE s == NewScope(Head(todo))
  <2>1. ScopeOK(s) /\ s.func = Head(todo) /\ s \in ScopeT
    BY <1>2, NewScopeOK DEF ScopeOK
  <2>2. Scopes' = <<s>> /\ LoopInfo' = s.func
    BY <2>1, <1>1, <1>3
  <2> HIDE DEF s
  <2>3. Scopes' \in Seq(ScopeT) /\ Len(Scopes') = 1 /\ Scopes'[1] = s
    BY <2>1, <2>2
  <2>4. TypeOK'
    BY <2>1, <2>2, <2>3, <1>1, <1>2 DEF IInv, TypeOK, ScopeT
  <2>5. OwnLoops'
    BY <2>2, <2>3 DEF OwnLoops, Top
  <2>6. StackOK'
    <3>1. \A i \in 1..Len(Scopes') : ScopeOK(Scopes'[i])
      BY <2>1, <2>3
    <3> QED
      BY <3>1 DEF StackOK, ScopeOK
  <2>7. CallsUsed'
    <3>1. \A f \in Func : Nested(f)' = {} /\ Nested(f) = {}
      BY <2>3, <1>1 DEF Nested
    <3>2. \A f \in Func : Left(f)' = Left(f) /\ CallsAllowed(f)' = CallsAllowed(f)
      BY <1>1 DEF Left, CallsAllowed
    <3> QED
      BY <3>1, <3>2 DEF IInv, CallsUsed
  <2> QED
    BY <2>4, <2>5, <2>6, <2>7, <1>1 DEF IInv
<1>4. CASE ~module[Head(todo)].start
  <2>1. UNCHANGED <<module, Scopes, LoopInfo, RecursionCount, GlobalStore>>
    BY <1>1, <1>4
  <2>2. TypeOK' /\ OwnLoops' /\ StackOK'
    BY <2>1, <1>2 DEF IInv, TypeOK, OwnLoops, StackOK, ScopeOK, Top
  <2>3. CallsUsed'
    BY <2>1 DEF IInv, CallsUsed, Nested, Left, CallsAllowed
  <2> QED
    BY <2>1, <2>2, <2>3 DEF IInv
<1> QED
  BY <1>3, <1>4

\* A block is taken from the Worklist.
LEMMA BeginBlockInv == IInv /\ BeginBlock => IInv'
<1> SUFFICES ASSUME IInv, BeginBlock PROVE IInv'
  OBVIOUS
<1> DEFINE b == Head(Top.Worklist)
           s == [Top EXCEPT !.block = b, !.Worklist = Tail(@),
                            !.calls = module[Top.func].calls[b]]
<1>1. /\ Scopes # <<>> /\ Top.Worklist # <<>> /\ SetTop(s)
      /\ UNCHANGED <<module, todo, LoopInfo, RecursionCount, GlobalStore>>
  BY DEF BeginBlock
<1>2. /\ Top \in ScopeT /\ ScopeOK(Top) /\ Top.func \in Func
      /\ Top.Worklist \in Seq(Block) /\ module \in Modules
  BY <1>1, TopFacts DEF Running
<1>3. /\ b \in Block /\ Tail(Top.Worklist) \in Seq(Block) /\ b = Top.Worklist[1]
      /\ Len(Tail(Top.Worklist)) = Len(Top.Worklist) - 1
      /\ Len(Top.Worklist) \in Nat \ {0}
      /\ \A i \in 1..(Len(Top.Worklist) - 1) : Tail(Top.Worklist)[i] = Top.Worklist[i+1]
  BY <1>1, <1>2
<1>4. module[Top.func].calls[b] \in Seq(Func)
  BY <1>2, <1>3, ModuleAssumption
<1>5. /\ s.block = b /\ s.Worklist = Tail(Top.Worklist)
      /\ s.EvalCount = Top.EvalCount /\ s.func = Top.func
      /\ s \in ScopeT
  <2> HIDE DEF b
  <2> QED
    BY <1>2, <1>3, <1>4 DEF ScopeT
<1> HIDE DEF s, b
<1>6. ScopeOK(s)
  <2>1. \A i \in 1..Len(Top.Worklist) : Top.EvalCount[Top.Worklist[i]] # Unseen
    BY <1>2 DEF ScopeOK
  <2>2. Top.EvalCount[b] # Unseen
    <3>1. 1 \in 1..Len(Top.Worklist)
      BY <1>3
    <3> QED
      BY <3>1, <2>1, <1>3
  <2>3. ASSUME NEW i \in 1..Len(s.Worklist) PROVE s.EvalCount[s.Worklist[i]] # Unseen
    <3>1. i \in 1..(Len(Top.Worklist) - 1) /\ i + 1 \in 1..Len(Top.Worklist)
      BY <1>3, <1>5
    <3> QED
      BY <3>1, <2>1, <1>3, <1>5
  <2> QED
    BY <2>2, <2>3, <1>5 DEF ScopeOK
<1>7. GlobalStore' \subseteq Func \X Block
  BY <1>1 DEF IInv, TypeOK
<1> QED
  BY <1>1, <1>5, <1>6, <1>7, TopChanges

\* A call whose callee may not be interpreted again.
LEMMA SkipCallInv == IInv /\ SkipCall => IInv'
<1> SUFFICES ASSUME IInv, SkipCall PROVE IInv'
  OBVIOUS
<1> DEFINE s == [Top EXCEPT !.calls = Tail(@)]
<1>1. /\ Scopes # <<>> /\ Top.calls # <<>> /\ SetTop(s)
      /\ UNCHANGED <<module, todo, LoopInfo, RecursionCount, GlobalStore>>
  BY DEF SkipCall
<1>2. Top \in ScopeT /\ ScopeOK(Top) /\ Top.calls \in Seq(Func)
  BY <1>1, TopFacts
<1>3. s.func = Top.func /\ ScopeOK(s)
  <2>1. Tail(Top.calls) \in Seq(Func)
    BY <1>1, <1>2
  <2>2. /\ s \in ScopeT /\ s.func = Top.func /\ s.Worklist = Top.Worklist
        /\ s.block = Top.block /\ s.EvalCount = Top.EvalCount
    BY <2>1, <1>2 DEF ScopeT
  <2> HIDE DEF s
  <2> QED
    BY <2>2, <1>2 DEF ScopeOK
<1>4. GlobalStore' \subseteq Func \X Block
  BY <1>1 DEF IInv, TypeOK
<1> HIDE DEF s
<1> QED
  BY <1>1, <1>3, <1>4, TopChanges

\* What the end of a block b makes of the innermost scope.
EndsBlock(s, r0, b, an) ==
    /\ b = Top.block /\ b \in Block
    /\ an = [Top.Analyzer EXCEPT ![b] = @ \cup {b}] /\ an \in [Block -> SUBSET Block]
    /\ GlobalStore' = GlobalStore \cup {<<Top.func, x>> : x \in an[b]}
    /\ SetTop(s) /\ ScopeOK(s) /\ s.func = Top.func /\ s.block = NoBlock /\ s.calls = Top.calls
    /\ r0 \in CountedLists /\ r0.ec = CountDown(Top.EvalCount, b) /\ r0.wl = Top.Worklist
    /\ s.Worklist = FollowEdges(r0.ec, r0.wl, b).wl
    /\ s.EvalCount = FollowEdges(r0.ec, r0.wl, b).ec
    /\ s.Analyzer = UpdateSuccessorAnalyzers(an, b)
    /\ s.evals = [Top.evals EXCEPT ![b] = IF @ < MaxEvals THEN @ + 1 ELSE @]

\* It counts the block, follows its edges and merges its results.
LEMMA EndBlockFacts ==
    ASSUME IInv, EndBlock
    PROVE  /\ Scopes # <<>> /\ Top.block # NoBlock /\ Top.calls = <<>>
           /\ UNCHANGED <<module, todo, LoopInfo, RecursionCount>>
           /\ \E s, r0, b, an : EndsBlock(s, r0, b, an)
<1> DEFINE b  == Top.block
           an == [Top.Analyzer EXCEPT ![b] = @ \cup {b}]
           ec == CountDown(Top.EvalCount, b)
           r0 == [ec |-> ec, wl |-> Top.Worklist]
           r  == FollowEdges(ec, Top.Worklist, b)
           ua == UpdateSuccessorAnalyzers(an, b)
           ev == [Top.evals EXCEPT ![b] = IF @ < MaxEvals THEN @ + 1 ELSE @]
           s  == [Top EXCEPT !.block = NoBlock, !.Worklist = r.wl,
                             !.EvalCount = r.ec, !.Analyzer = ua,
                             !.evals[b] = IF @ < MaxEvals THEN @ + 1 ELSE @]
<1>1. /\ Scopes # <<>> /\ b # NoBlock /\ Top.calls = <<>> /\ Top.EvalCount[b] # 0 /\ SetTop(s)
      /\ GlobalStore' = GlobalStore \cup {<<Top.func, x>> : x \in an[b]}
      /\ UNCHANGED <<module, todo, LoopInfo, RecursionCount>>
  BY DEF EndBlock
<1>2. /\ Top \in ScopeT /\ ScopeOK(Top) /\ Running /\ Top.func \in Func
      /\ Top.Worklist \in Seq(Block) /\ Top.EvalCount \in Counts /\ b \in Block
  BY <1>1, TopFacts
<1>3. /\ Top.EvalCount[b] # Unseen
      /\ \A i \in 1..Len(Top.Worklist) : Top.EvalCount[Top.Worklist[i]] # Unseen
  BY <1>1, <1>2 DEF ScopeOK
<1>4. Top.Analyzer \in [Block -> SUBSET Block] /\ Top.evals \in [Block -> Nat]
  BY <1>2 DEF ScopeT
<1>5. an \in [Block -> SUBSET Block]
  BY <1>2, <1>4
<1>6. ua \in [Block -> SUBSET Block]
  <2> HIDE DEF an, b
  <2> QED
    BY <1>2, <1>5 DEF UpdateSuccessorAnalyzers
<1>7. ec \in Counts /\ \A c \in Block : Top.EvalCount[c] # Unseen => ec[c] # Unseen
  <2> HIDE DEF b
  <2> QED
    BY <1>1, <1>2, <1>3, CountedDown
<1>8. r0 \in CountedLists /\ r0.ec = ec /\ r0.wl = Top.Worklist
  <2>1. \A i \in 1..Len(Top.Worklist) : Top.Worklist[i] \in Block
    BY <1>2
  <2>2. \A i \in 1..Len(Top.Worklist) : ec[Top.Worklist[i]] # Unseen
    <3> HIDE DEF ec
    <3> QED
      BY <2>1, <1>3, <1>7
  <2> HIDE DEF ec
  <2>3. r0 \in CountedLists
    BY <2>2, <1>2, <1>7 DEF CountedLists, CountedList
  <2> QED
    BY <2>3
<1>9. r = FollowEdges(r0.ec, r0.wl, b) /\ CountedList(r)
  <2>1. r = FollowEdges(r0.ec, r0.wl, b)
    OBVIOUS
  <2> HIDE DEF r0, b, r
  <2> QED
    BY <2>1, <1>2, <1>8, FollowEdgesCounts
<1>10. /\ r.ec \in Counts /\ r.wl \in Seq(Block)
       /\ \A i \in 1..Len(r.wl) : r.ec[r.wl[i]] # Unseen
  BY <1>9 DEF CountedList
<1>11. /\ s.block = NoBlock /\ s.Worklist = r.wl /\ s.EvalCount = r.ec /\ s.Analyzer = ua
       /\ s.evals = ev /\ s.func = Top.func /\ s.calls = Top.calls /\ s \in ScopeT
  <2> HIDE DEF b, r, ua, ec, an
  <2>1. ev \in [Block -> Nat]
    BY <1>2, <1>4, TripCountAssumption
  <2>2. s = [Top EXCEPT !.block = NoBlock, !.Worklist = r.wl,
                        !.EvalCount = r.ec, !.Analyzer = ua, !.evals = ev]
    BY <1>2 DEF ScopeT
  <2> HIDE DEF ev, s
  <2>3. /\ s.block = NoBlock /\ s.Worklist = r.wl /\ s.EvalCount = r.ec /\ s.Analyzer = ua
        /\ s.evals = ev /\ s.func = Top.func /\ s.calls = Top.calls
    BY <2>2, <1>2 DEF ScopeT
  <2>4. s \in ScopeT
    BY <2>1, <2>2, <1>2, <1>6, <1>10 DEF ScopeT, Counts
  <2> QED
    BY <2>3, <2>4
<1>12. s.evals = [Top.evals EXCEPT ![b] = IF @ < MaxEvals THEN @ + 1 ELSE @]
  BY <1>11
<1>13. b = Top.block /\ an = [Top.Analyzer EXCEPT ![b] = @ \cup {b}]
       /\ ec = CountDown(Top.EvalCount, b) /\ ua = UpdateSuccessorAnalyzers(an, b)
  OBVIOUS
<1> HIDE DEF s, r, r0, b, an, ec, ua, ev
<1>14. ScopeOK(s)
  BY <1>10, <1>11 DEF ScopeOK
<1>15. EndsBlock(s, r0, b, an)
  BY <1>1, <1>2, <1>5, <1>8, <1>9, <1>11, <1>12, <1>13, <1>14 DEF EndsBlock
<1> QED
  BY <1>1, <1>13, <1>15

\* The end of a block.
LEMMA EndBlockInv == IInv /\ EndBlock => IInv'
<1> SUFFICES ASSUME IInv, EndBlock PROVE IInv'
  OBVIOUS
<1>1. /\ Scopes # <<>> /\ UNCHANGED <<module, todo, LoopInfo, RecursionCount>>
      /\ \E s, r0, b, an : EndsBlock(s, r0, b, an)
  BY EndBlockFacts
<1>2. PICK s, r0, b, an : EndsBlock(s, r0, b, an)
  BY <1>1
<1>3. /\ b \in Block /\ an \in [Block -> SUBSET Block]
      /\ GlobalStore' = GlobalStore \cup {<<Top.func, x>> : x \in an[b]}
      /\ SetTop(s) /\ ScopeOK(s) /\ s.func = Top.func
  BY <1>2 DEF EndsBlock
<1>4. GlobalStore' \subseteq Func \X Block
  <2>1. an[b] \subseteq Block /\ Top.func \in Func /\ GlobalStore \subseteq Func \X Block
    BY <1>1, <1>3, TopFacts DEF IInv, TypeOK
  <2> QED
    BY <2>1, <1>3
<1> QED
  BY <1>1, <1>3, <1>4, TopChanges

\* A call is interpreted in a scope of its own.
LEMMA InterpretCallInv == IInv /\ InterpretCall => IInv'
<1> SUFFICES ASSUME IInv, InterpretCall PROVE IInv'
  OBVIOUS
<1> DEFINE g == Callee
           N == Len(Scopes)
           S1 == [Scopes EXCEPT ![N].calls = Tail(@)]
           s == NewScope(g)
<1>1. /\ Scopes # <<>> /\ Top.calls # <<>> /\ MayCall(g)
      /\ RecursionCount' = [RecursionCount EXCEPT ![g] = CallsLeft(g)]
      /\ Scopes' = Append(S1, s) /\ LoopInfo' = g
      /\ UNCHANGED <<module, todo, GlobalStore>>
  BY DEF InterpretCall
<1>2. /\ N \in Nat \ {0} /\ Scopes \in Seq(ScopeT)
      /\ Top \in ScopeT /\ ScopeOK(Top)
      /\ Top.calls \in Seq(Func) /\ module \in Modules
      /\ \A i \in 1..N : ScopeOK(Scopes[i])
      /\ RecursionCount \in [Func -> Nat \cup {Unseen}]
  BY <1>1, TopFacts DEF IInv, StackOK, TypeOK, Running
<1>3. g \in Func /\ Tail(Top.calls) \in Seq(Func)
  BY <1>1, <1>2 DEF Callee
<1>4. ScopeOK(s) /\ s.func = g /\ s \in ScopeT
  BY <1>3, NewScopeOK DEF ScopeOK
<1> HIDE DEF g, s
<1> DEFINE t == [Top EXCEPT !.calls = Tail(@)]
<1>5. t \in ScopeT /\ t.func = Top.func /\ ScopeOK(t)
  <2>1. /\ t \in ScopeT /\ t.func = Top.func /\ t.Worklist = Top.Worklist
        /\ t.block = Top.block /\ t.EvalCount = Top.EvalCount
    BY <1>2, <1>3 DEF ScopeT
  <2> HIDE DEF t
  <2> QED
    BY <2>1, <1>2 DEF ScopeOK
<1>6. S1 = [Scopes EXCEPT ![N] = t]
  BY DEF Top
<1> HIDE DEF t, S1
<1>7. /\ S1 \in Seq(ScopeT) /\ Len(S1) = N /\ S1[N] = t
      /\ \A i \in 1..(N-1) : S1[i] = Scopes[i]
  BY <1>2, <1>5, <1>6
<1>8. /\ Scopes' \in Seq(ScopeT) /\ Len(Scopes') = N + 1 /\ Scopes'[N+1] = s
      /\ Scopes'[N] = t /\ \A i \in 1..(N-1) : Scopes'[i] = Scopes[i]
  BY <1>1, <1>2, <1>4, <1>7
<1>9. /\ \A i \in 1..(N+1) : i = N + 1 \/ i = N \/ i \in 1..(N-1)
  BY <1>2
<1>10. StackOK'
  <2>1. \A i \in 1..(N+1) : ScopeOK(Scopes'[i])
    BY <1>2, <1>4, <1>5, <1>8, <1>9
  <2> QED
    BY <2>1, <1>8 DEF StackOK, ScopeOK
<1>11. OwnLoops'
  BY <1>1, <1>4, <1>8 DEF OwnLoops, Top
<1>12. CallsLeft(g) \in Nat /\ Left(g) \in Nat \ {0} /\ CallsLeft(g) = Left(g) - 1
  <2>1. RecursionCount[g] \in Nat \cup {Unseen} /\ RecursionCount[g] # 0
    BY <1>1, <1>2, <1>3 DEF MayCall
  <2>2. module[g].maxrec \in Nat
    BY <1>2, <1>3, ModuleAssumption
  <2>3. Unseen \notin Nat
    BY TripCountAssumption
  <2> QED
    BY <2>1, <2>2, <2>3 DEF CallsLeft, Left, CallsAllowed
<1>13. TypeOK'
  <2>1. RecursionCount' \in [Func -> Nat \cup {Unseen}]
    BY <1>1, <1>2, <1>12
  <2> QED
    BY <2>1, <1>1, <1>3, <1>8 DEF IInv, TypeOK
<1>14. CallsUsed'
  <2> SUFFICES ASSUME NEW f \in Func
               PROVE  IsFiniteSet(Nested(f)') /\
                      Cardinality(Nested(f)') + Left(f)' <= CallsAllowed(f)'
    BY DEF CallsUsed
  <2>1. /\ IsFiniteSet(Nested(f)) /\ Cardinality(Nested(f)) + Left(f) <= CallsAllowed(f)
    BY DEF IInv, CallsUsed
  <2>2. CallsAllowed(f)' = CallsAllowed(f)
    BY <1>1 DEF CallsAllowed
  <2>3. \A i \in 1..N : Scopes'[i].func = Scopes[i].func
    <3>1. \A i \in 1..N : i = N \/ i \in 1..(N-1)
      BY <1>2
    <3> QED
      BY <3>1, <1>5, <1>8 DEF Top
  <2>4. Nested(f)' = {i \in 2..(N+1) : Scopes'[i].func = f}
    BY <1>8 DEF Nested
  <2>5. Nested(f) = {i \in 2..N : Scopes[i].func = f}
    BY DEF Nested
  <2>6. Cardinality(Nested(f)) \in Nat
    BY <2>1, FS_CardinalityType
  <2>7. CASE f = g
    <3>1. Nested(f)' = Nested(f) \cup {N + 1} /\ N + 1 \notin Nested(f)
      <4>1. \A i : i \in 2..(N+1) <=> i \in 2..N \/ i = N + 1
        BY <1>2
      <4>2. N + 1 \notin 2..N
        BY <1>2
      <4> QED
        BY <4>1, <4>2, <2>3, <2>4, <2>5, <2>7, <1>2, <1>4, <1>8
    <3>2. /\ IsFiniteSet(Nested(f)')
          /\ Cardinality(Nested(f)') = Cardinality(Nested(f)) + 1
      BY <3>1, <2>1, FS_AddElement
    <3>3. Left(f)' = CallsLeft(g)
      <4>1. RecursionCount'[g] = CallsLeft(g) /\ CallsLeft(g) # Unseen
        BY <1>1, <1>2, <1>3, <1>12, TripCountAssumption
      <4> QED
        BY <4>1, <2>7 DEF Left
    <3>4. CallsAllowed(f) \in Nat
      BY <1>2, ModuleAssumption DEF CallsAllowed
    <3> QED
      BY <3>2, <3>3, <3>4, <2>1, <2>2, <2>6, <2>7, <1>12
  <2>8. CASE f # g
    <3>1. Nested(f)' = Nested(f)
      <4>1. \A i : i \in 2..(N+1) <=> i \in 2..N \/ i = N + 1
        BY <1>2
      <4>2. \A i \in 2..N : i \in 1..N
        BY <1>2
      <4> QED
        BY <4>1, <4>2, <2>3, <2>4, <2>5, <2>8, <1>4, <1>8
    <3>2. Left(f)' = Left(f)
      <4>1. RecursionCount'[f] = RecursionCount[f]
        BY <2>8, <1>1, <1>2
      <4> QED
        BY <4>1, <2>2 DEF Left
    <3> QED
      BY <3>1, <3>2, <2>1, <2>2
  <2> QED
    BY <2>7, <2>8
<1> QED
  BY <1>1, <1>10, <1>11, <1>13, <1>14 DEF IInv

\* The end of a function: the caller's loops are back.
LEMMA ReturnInv == IInv /\ Return => IInv'
<1> SUFFICES ASSUME IInv, Return PROVE IInv'
  OBVIOUS
<1> DEFINE N == Len(Scopes)
<1>1. /\ Scopes # <<>> /\ Scopes' = Front(Scopes)
      /\ LoopInfo' = IF N > 1 THEN Scopes[N-1].func ELSE LoopInfo
      /\ UNCHANGED <<module, todo, RecursionCount, GlobalStore>>
  BY DEF Return
<1>2. /\ N \in Nat \ {0} /\ Scopes \in Seq(ScopeT)
      /\ \A i \in 1..N : ScopeOK(Scopes[i])
  BY <1>1, TopFacts DEF IInv, StackOK
<1>3. /\ Scopes' \in Seq(ScopeT) /\ Len(Scopes') = N - 1
      /\ \A i \in 1..(N-1) : Scopes'[i] = Scopes[i]
  <2>1. Scopes' = SubSeq(Scopes, 1, N - 1)
    BY <1>1 DEF Front
  <2> DEFINE M == N - 1
  <2>2. M \in Nat /\ M \in Int /\ 1 \in Int
        /\ M - 1 + 1 = M /\ (~(1 <= M) => M = 0)
    <3>1. N \in Nat /\ N # 0
      BY <1>2
    <3> HIDE DEF N
    <3>2. M \in Nat
      BY <3>1 DEF M
    <3> HIDE DEF M
    <3> QED
      BY <3>2
  <2>3. \A i \in 1..M : i \in 1..N /\ 1 + i - 1 = i
    BY <1>2
  <2>4. \A i \in 1..M : Scopes[i] \in ScopeT
    BY <1>2, <2>3
  <2>5. Scopes' = SubSeq(Scopes, 1, M)
    BY <2>1
  <2> HIDE DEF M, N, ScopeT
  <2>6. /\ SubSeq(Scopes, 1, M) \in Seq(ScopeT)
        /\ Len(SubSeq(Scopes, 1, M)) = IF 1 <= M THEN M - 1 + 1 ELSE 0
        /\ \A i \in 1 .. M - 1 + 1 : SubSeq(Scopes, 1, M)[i] = Scopes[1 + i - 1]
    BY <2>2, <2>4, SubSeqProperties
  <2>7. /\ Scopes' \in Seq(ScopeT) /\ Len(Scopes') = M
        /\ \A i \in 1..M : Scopes'[i] = Scopes[i]
    BY <2>2, <2>3, <2>5, <2>6
  <2> QED
    BY <2>7 DEF M
<1>4. StackOK'
  <2>1. \A i \in 1..(N-1) : ScopeOK(Scopes'[i])
    BY <1>2, <1>3
  <2> QED
    BY <2>1, <1>3 DEF StackOK, ScopeOK
<1>5. OwnLoops'
  <2>1. CASE N > 1
    <3>1. N - 1 \in 1..(N-1)
      BY <2>1, <1>2
    <3> QED
      BY <3>1, <2>1, <1>1, <1>3 DEF OwnLoops, Top
  <2>2. CASE ~(N > 1)
    <3>1. Scopes' = <<>>
      BY <2>2, <1>2, <1>3
    <3> QED
      BY <3>1 DEF OwnLoops
  <2> QED
    BY <2>1, <2>2
<1>6. TypeOK'
  <2>1. LoopInfo' \in Func \cup {NoFunc}
    <3>1. CASE N > 1
      <4>1. N - 1 \in 1..N
        BY <3>1, <1>2
      <4>2. Scopes[N-1] \in ScopeT
        BY <4>1, <1>2
      <4> QED
        BY <3>1, <4>2, <1>1 DEF ScopeT
    <3>2. CASE ~(N > 1)
      BY <3>2, <1>1 DEF IInv, TypeOK
    <3> QED
      BY <3>1, <3>2
  <2> QED
    BY <2>1, <1>1, <1>3 DEF IInv, TypeOK
<1>7. CallsUsed'
  <2> SUFFICES ASSUME NEW f \in Func
               PROVE  IsFiniteSet(Nested(f)') /\
                      Cardinality(Nested(f)') + Left(f)' <= CallsAllowed(f)'
    BY DEF CallsUsed
  <2>1. IsFiniteSet(Nested(f)) /\ Cardinality(Nested(f)) + Left(f) <= CallsAllowed(f)
    BY DEF IInv, CallsUsed
  <2>2. CallsAllowed(f)' = CallsAllowed(f) /\ Left(f)' = Left(f)
    BY <1>1 DEF CallsAllowed, Left
  <2>3. Nested(f)' \subseteq Nested(f)
    <3>1. \A i \in 2..(N-1) : i \in 2..N /\ i \in 1..(N-1)
      BY <1>2
    <3> QED
      BY <3>1, <1>3 DEF Nested
  <2>4. /\ IsFiniteSet(Nested(f)') /\ Cardinality(Nested(f)') <= Cardinality(Nested(f))
        /\ Cardinality(Nested(f)') \in Nat /\ Cardinality(Nested(f)) \in Nat
    BY <2>1, <2>3, FS_Subset, FS_CardinalityType
  <2>5. Left(f) \in Nat /\ CallsAllowed(f) \in Nat
    <3>1. module[f].maxrec \in Nat /\ RecursionCount[f] \in Nat \cup {Unseen}
      BY ModuleAssumption DEF IInv, TypeOK
    <3> QED
      BY <3>1 DEF Left, CallsAllowed
  <2> QED
    BY <2>1, <2>2, <2>4, <2>5
<1> QED
  BY <1>1, <1>4, <1>5, <1>6, <1>7 DEF IInv

\* Every step keeps the invariant.
LEMMA NextIInv == IInv /\ [Next]_vars => IInv'
<1> SUFFICES ASSUME IInv, [Next]_vars PROVE IInv'
  OBVIOUS
<1>1. CASE Step
  BY <1>1, ProcessFunctionInv, BeginBlockInv, InterpretCallInv, SkipCallInv,
     EndBlockInv, ReturnInv DEF Step
<1>2. CASE UNCHANGED vars
  <2>1. UNCHANGED <<module, todo, Scopes, LoopInfo, RecursionCount, GlobalStore>>
    BY <1>2 DEF vars
  <2>2. TypeOK' /\ OwnLoops' /\ StackOK'
    BY <2>1 DEF IInv, TypeOK, OwnLoops, StackOK, ScopeOK, Top
  <2>3. CallsUsed'
    BY <2>1 DEF IInv, CallsUsed, Nested, Left, CallsAllowed
  <2> QED
    BY <2>1, <2>2, <2>3 DEF IInv
<1> QED
  BY <1>1, <1>2 DEF Next

(***************************************************************************)
(* For every module that LLVM can hand over, the stack of scopes, the      *)
(* Worklists and the counts keep their types: no block is counted down     *)
(* that has no count, through any nesting of loops and calls, ...          *)
(***************************************************************************)
THEOREM TypeCorrect == Spec => []TypeOK
<1>1. IInv => TypeOK
  BY DEF IInv
<1> QED
  BY <1>1, InitIInv, NextIInv, PTL DEF Spec

(***************************************************************************)
(* ... the loops consulted are those of the function being interpreted,    *)
(* after any sequence of calls and returns, and the interpretations of a   *)
(* function inside of others are at most as many as its maxrec metadata    *)
(* says, for any recursion in the module.                                  *)
(***************************************************************************)
THEOREM CallsStayNested == Spec => []CallsNest
<1>1. IInv => RecursionBounded
  <2> SUFFICES ASSUME IInv, NEW f \in Func
               PROVE  Cardinality(Nested(f)) <= CallsAllowed(f)
    BY DEF RecursionBounded
  <2>1. IsFiniteSet(Nested(f)) /\ Cardinality(Nested(f)) + Left(f) <= CallsAllowed(f)
    BY DEF IInv, CallsUsed
  <2>2. Cardinality(Nested(f)) \in Nat
    BY <2>1, FS_CardinalityType
  <2>3. Left(f) \in Nat /\ CallsAllowed(f) \in Nat
    <3>1. module[f].maxrec \in Nat /\ RecursionCount[f] \in Nat \cup {Unseen}
      BY ModuleAssumption DEF IInv, TypeOK
    <3> QED
      BY <3>1 DEF Left, CallsAllowed
  <2> QED
    BY <2>1, <2>2, <2>3
<1>2. IInv => CallsNest
  BY <1>1 DEF IInv, CallsNest
<1> QED
  BY <1>2, InitIInv, NextIInv, PTL DEF Spec

(***************************************************************************)
(* Graphs.                                                                 *)
(***************************************************************************)
IsGraph(g) == g \in [Block -> Seq(Block)]

\* All the edges from blocks of X stay in X.
Closed(g, X) == \A b \in X : Succs(g, b) \subseteq X

\* What is known of the blocks.
LEMMA BlockFacts ==
    /\ IsFiniteSet(Block) /\ Cardinality(Block) \in Nat
    /\ Entry \in Block /\ NoBlock \notin Block
<1>1. PICK n : Block = 1..n /\ 1 \in Block
  BY BlockAssumption
<1>2. NoBlock \notin Block /\ Entry \in Block
  BY <1>1 DEF NoBlock, Entry
<1> QED
  BY <1>2, BlockAssumption, FS_CardinalityType

\* The sequence of the elements of a finite set has these elements.
LEMMA SetToSeqFacts ==
    ASSUME NEW S, IsFiniteSet(S)
    PROVE  SetToSeq(S) \in Seq(S) /\ ToSet(SetToSeq(S)) = S
<1> PICK n \in Nat : n = Cardinality(S)
  BY FS_CardinalityType
<1>1. PICK f : f \in Bijection(1..n, S)
  BY FS_CardinalityType, Zenon DEF ExistsBijection
<1>2. f \in [1..n -> S] /\ IsInjective(f)
  BY <1>1 DEF Bijection, Injection
<1> DEFINE s == SetToSeq(S)
<1>3. s \in [1..n -> S] /\ IsInjective(s)
  <2>1. s = CHOOSE e \in [1..n -> S] : IsInjective(e)
    BY Zenon DEF SetToSeq
  <2> HIDE DEF s
  <2> QED
    BY <1>2, <2>1, Zenon
<1> HIDE DEF s
<1> DEFINE T == {s[i] : i \in 1..n}
<1>4. s \in Bijection(1..n, T)
  BY <1>3 DEF Bijection, Injection, Surjection
<1>5. T \subseteq S
  BY <1>3
<1>6. ExistsBijection(1..n, T)
  BY <1>4, Zenon DEF ExistsBijection
<1> HIDE DEF T
<1>7. Cardinality(T) = n
  BY <1>6, FS_CountingElements
<1>8. T = S
  BY <1>5, <1>7, FS_Subset
<1>9. s \in Seq(S) /\ DOMAIN s = 1..n
  BY <1>3
<1> QED
  BY <1>8, <1>9 DEF T, s, ToSet

\* The edges that are not back edges.
Ahead(g, L, b) == {s \in Succs(g, b) : ~(s \in DOMAIN L /\ b \in L[s])}

\* The edges of a graph lead to blocks; those of its forward edges are some of them.
LEMMA ForwardFacts ==
    ASSUME NEW g, IsGraph(g), NEW L
    PROVE  /\ IsGraph(Forward(g, L))
           /\ \A b \in Block : /\ Succs(g, b) \subseteq Block
                               /\ Succs(Forward(g, L), b) = Ahead(g, L, b)
<1>1. ASSUME NEW b \in Block
      PROVE  Succs(g, b) \subseteq Block
  <2>1. g[b] \in Seq(Block)
    BY DEF IsGraph
  <2> QED
    BY <2>1 DEF Succs, ToSet
<1>2. ASSUME NEW b \in Block
      PROVE  Forward(g, L)[b] \in Seq(Block) /\ ToSet(Forward(g, L)[b]) = Ahead(g, L, b)
  <2>1. Ahead(g, L, b) \subseteq Block
    BY <1>1 DEF Ahead
  <2>2. IsFiniteSet(Ahead(g, L, b))
    BY <2>1, BlockFacts, FS_Subset
  <2>3. Forward(g, L)[b] = SetToSeq(Ahead(g, L, b))
    BY DEF Forward, Ahead
  <2>4. /\ SetToSeq(Ahead(g, L, b)) \in Seq(Ahead(g, L, b))
        /\ ToSet(SetToSeq(Ahead(g, L, b))) = Ahead(g, L, b)
    BY <2>2, SetToSeqFacts
  <2> QED
    BY <2>1, <2>3, <2>4
<1>3. Forward(g, L) = [b \in Block |-> Forward(g, L)[b]]
  BY DEF Forward
<1>4. IsGraph(Forward(g, L))
  BY <1>2, <1>3 DEF IsGraph
<1> QED
  BY <1>1, <1>2, <1>4 DEF Succs

\* The blocks reached from S are the least set with S that the edges stay in.
LEMMA ReachFacts ==
    ASSUME NEW g, IsGraph(g), NEW S, S \subseteq Block, NEW X, X = ReachFrom(g, S, Block)
    PROVE  /\ S \subseteq X /\ X \subseteq Block /\ Closed(g, X)
           /\ \A Y : S \subseteq Y /\ Closed(g, Y) => X \subseteq Y
<1> DEFINE m == Cardinality(Block)
<1>0. m \in Nat
  BY BlockFacts
<1> DEFINE Out(R) == R \cup ((UNION {Succs(g, b) : b \in R}) \cap Block)
           Eq(f) == f = [k \in 0..m |-> IF k = 0 THEN S
                                        ELSE LET R == f[k-1]
                                             IN  R \cup ((UNION {Succs(g, b) : b \in R}) \cap Block)]
           grow == CHOOSE f : Eq(f)
           G == [R \in SUBSET Block |-> Out(R)]
           GG == [i \in 1..m |-> G]
<1>1. X = grow[m]
  BY Zenon DEF ReachFrom
<1> HIDE DEF m
<1>2. \A R \in SUBSET Block : Out(R) \in SUBSET Block /\ R \subseteq Out(R)
  OBVIOUS
<1>3. G \in [SUBSET Block -> SUBSET Block] /\ \A R \in SUBSET Block : G[R] = Out(R)
  <2> HIDE DEF Out
  <2> QED
    BY <1>2
<1>4. Grows(G, Block)
  <2> HIDE DEF G, Out
  <2> QED
    BY <1>2, <1>3 DEF Grows
<1>5. PICK f \in [0..m -> SUBSET Block] : f[0] = S /\ \A i \in 1..m : f[i] = G[f[i-1]]
  <2> DEFINE A == SUBSET Block
  <2>1. S \in A /\ G \in [A -> A]
    BY <1>3
  <2> HIDE DEF G, A
  <2>2. GG \in [1..m -> [A -> A]] /\ \A i \in 1..m : GG[i] = G
    BY <2>1
  <2> HIDE DEF GG
  <2>3. S \in A /\ GG \in [1..m -> [A -> A]]
    BY <2>1, <2>2
  <2> HIDE DEF Eq, grow, Out
  <2>4. \E f \in [0..m -> A] : f[0] = S /\ \A i \in 1..m : f[i] = GG[i][f[i-1]]
    BY <1>0, <2>3, IterationExists
  <2> QED
    BY <2>2, <2>4 DEF A
<1>6. \A i \in 1..m : i - 1 \in 0..m /\ f[i-1] \in SUBSET Block /\ f[i] = Out(f[i-1])
  <2> HIDE DEF Out, G
  <2>1. \A i \in 1..m : i - 1 \in 0..m
    BY <1>0
  <2> QED
    BY <2>1, <1>3, <1>5
<1>7. Eq(f)
  <2>1. \A k \in 0..m : f[k] = IF k = 0 THEN S ELSE Out(f[k-1])
    <3> HIDE DEF Out
    <3>1. \A k \in 0..m : k = 0 \/ k \in 1..m
      BY <1>0
    <3> QED
      BY <3>1, <1>5, <1>6
  <2> QED
    BY <2>1, <1>5
<1>8. Eq(grow)
  <2> HIDE DEF Eq
  <2> QED
    BY <1>7, Zenon
<1> HIDE DEF grow
<1>9. \A k \in 0..m : grow[k] = IF k = 0 THEN S ELSE Out(grow[k-1])
  BY <1>8
<1> HIDE DEF Eq
<1>10. grow[0] = S /\ \A k \in 1..m : grow[k] = Out(grow[k-1])
  <2>1. 0 \in 0..m /\ \A k \in 1..m : k \in 0..m /\ k # 0
    BY <1>0
  <2> HIDE DEF Out
  <2> QED
    BY <1>9, <2>1
<1>11. \A k \in 0..m : grow[k] = f[k]
  <2> DEFINE K == {k \in 0..m : grow[k] = f[k]}
  <2>1. 0 \in K
    BY <1>0, <1>5, <1>10
  <2>2. ASSUME NEW k \in 0..m, k < m, k \in K PROVE k + 1 \in K
    <3>1. k + 1 \in 1..m /\ (k + 1) - 1 = k /\ k + 1 \in 0..m
      BY <1>0, <2>2
    <3>2. grow[k+1] = Out(grow[k]) /\ f[k+1] = Out(f[k])
      <4> HIDE DEF Out
      <4> QED
        BY <3>1, <1>6, <1>10
    <3> QED
      BY <3>1, <3>2, <2>2
  <2>3. 0..m \subseteq K
    <3> HIDE DEF K
    <3> QED
      BY <2>1, <2>2, <1>0, InductionUpTo
  <2> QED
    BY <2>3
<1>12. X = f[m] /\ X \in SUBSET Block
  BY <1>0, <1>1, <1>5, <1>11
<1>13. Out(X) = X
  <2>1. IsGrowth(f, Block, m, G)
    <3> HIDE DEF G
    <3> QED
      BY <1>5 DEF IsGrowth
  <2> HIDE DEF G
  <2>2. G[f[m]] = f[m]
    BY <1>0, <2>1, <1>4, BlockFacts, GrowthEnds DEF m
  <2> QED
    BY <2>2, <1>3, <1>12
<1>14. Closed(g, X)
  BY <1>12, <1>13, ForwardFacts DEF Closed
<1>15. S \subseteq X
  <2> DEFINE K == {k \in 0..m : S \subseteq f[k]}
  <2>1. 0 \in K
    BY <1>0, <1>5
  <2>2. ASSUME NEW k \in 0..m, k < m, k \in K PROVE k + 1 \in K
    <3>1. k + 1 \in 1..m /\ (k + 1) - 1 = k /\ k + 1 \in 0..m
      BY <1>0, <2>2
    <3> QED
      BY <3>1, <2>2, <1>6
  <2>3. 0..m \subseteq K
    <3> HIDE DEF K
    <3> QED
      BY <2>1, <2>2, <1>0, InductionUpTo
  <2> QED
    BY <1>0, <2>3, <1>12
<1>16. ASSUME NEW Y, S \subseteq Y, Closed(g, Y) PROVE X \subseteq Y
  <2> DEFINE K == {k \in 0..m : f[k] \subseteq Y}
  <2>1. 0 \in K
    BY <1>0, <1>5, <1>16
  <2>2. ASSUME NEW k \in 0..m, k < m, k \in K PROVE k + 1 \in K
    <3>1. k + 1 \in 1..m /\ (k + 1) - 1 = k /\ k + 1 \in 0..m
      BY <1>0, <2>2
    <3>2. f[k+1] = Out(f[k]) /\ f[k] \subseteq Y
      <4> HIDE DEF Out
      <4> QED
        BY <3>1, <2>2, <1>6
    <3>3. Out(f[k]) \subseteq Y
      BY <3>2, <1>16 DEF Closed
    <3> QED
      BY <3>1, <3>2, <3>3
  <2>3. 0..m \subseteq K
    <3> HIDE DEF K
    <3> QED
      BY <2>1, <2>2, <1>0, InductionUpTo
  <2> QED
    BY <1>0, <2>3, <1>12
<1> QED
  BY <1>12, <1>14, <1>15, <1>16

\* No block is reached from its own successors.
Acyclic(f) == \A b \in Block : b \notin ReachFrom(f, Succs(f, b), Block)

\* Fewer blocks are reached from a block than from one before it.
LEMMA FewerAhead ==
    ASSUME NEW f, IsGraph(f), Acyclic(f)
    PROVE  \E n \in [Block -> Nat] :
              /\ \A b \in Block : n[b] <= Cardinality(Block)
              /\ \A p \in Block : \A b \in Succs(f, p) : n[b] < n[p]
<1> DEFINE A(b) == ReachFrom(f, Succs(f, b), Block)
           n == [b \in Block |-> Cardinality(A(b))]
<1>1. ASSUME NEW b \in Block
      PROVE  /\ Succs(f, b) \subseteq Block
             /\ Succs(f, b) \subseteq A(b) /\ A(b) \subseteq Block /\ Closed(f, A(b))
             /\ \A Y : Succs(f, b) \subseteq Y /\ Closed(f, Y) => A(b) \subseteq Y
             /\ b \notin A(b)
  <2>1. Succs(f, b) \subseteq Block
    BY ForwardFacts
  <2>2. b \notin A(b)
    BY DEF Acyclic
  <2> QED
    BY <2>1, <2>2, ReachFacts
<1> HIDE DEF A
<1>2. ASSUME NEW b \in Block
      PROVE  IsFiniteSet(A(b)) /\ Cardinality(A(b)) \in Nat /\ Cardinality(A(b)) <= Cardinality(Block)
  BY <1>1, BlockFacts, FS_Subset, FS_CardinalityType
<1>3. ASSUME NEW p \in Block, NEW b \in Succs(f, p)
      PROVE  Cardinality(A(b)) < Cardinality(A(p))
  <2>1. b \in Block /\ b \in A(p)
    BY <1>1
  <2>2. Succs(f, b) \subseteq A(p)
    BY <2>1, <1>1 DEF Closed
  <2>3. A(b) \subseteq A(p) /\ b \notin A(b)
    BY <2>1, <2>2, <1>1
  <2>4. /\ Cardinality(A(b)) <= Cardinality(A(p))
        /\ Cardinality(A(b)) # Cardinality(A(p))
    BY <2>1, <2>3, <1>2, FS_Subset
  <2> QED
    BY <2>1, <2>4, <1>2
<1>4. n \in [Block -> Nat] /\ \A b \in Block : n[b] = Cardinality(A(b))
  BY <1>2
<1> HIDE DEF n
<1>5. \A b \in Block : n[b] <= Cardinality(Block)
  BY <1>2, <1>4
<1>6. \A p \in Block : \A b \in Succs(f, p) : n[b] < n[p]
  BY <1>1, <1>3, <1>4
<1> QED
  BY <1>4, <1>5, <1>6

\* Of some blocks, one has no predecessor among them, ...
LEMMA FirstBlock ==
    ASSUME NEW f, IsGraph(f), Acyclic(f), NEW S, S \subseteq Block, S # {}
    PROVE  \E b \in S : \A p \in S : b \notin Succs(f, p)
<1>1. PICK n \in [Block -> Nat] :
              /\ \A b \in Block : n[b] <= Cardinality(Block)
              /\ \A p \in Block : \A b \in Succs(f, p) : n[b] < n[p]
  BY FewerAhead
<1> DEFINE T == {n[b] : b \in S}
<1>2. T \subseteq 0..Cardinality(Block) /\ T # {}
  BY <1>1, BlockFacts
<1>3. PICK k \in T : \A l \in T : l <= k
  <2> HIDE DEF T
  <2> QED
    BY <1>2, BlockFacts, LargestBounded
<1>4. PICK b \in S : k = n[b]
  OBVIOUS
<1>5. ASSUME NEW p \in S, b \in Succs(f, p) PROVE FALSE
  <2>1. n[b] < n[p] /\ n[b] \in Nat /\ n[p] \in Nat
    BY <1>1, <1>5
  <2>2. n[p] \in T
    OBVIOUS
  <2>3. n[p] <= n[b]
    BY <2>2, <1>3, <1>4
  <2> QED
    BY <2>1, <2>3
<1> QED
  BY <1>5

\* ... and one has no successor among them.
LEMMA LastBlock ==
    ASSUME NEW f, IsGraph(f), Acyclic(f), NEW S, S \subseteq Block, S # {}
    PROVE  \E b \in S : \A s \in S : s \notin Succs(f, b)
<1>1. PICK n \in [Block -> Nat] :
              /\ \A b \in Block : n[b] <= Cardinality(Block)
              /\ \A p \in Block : \A b \in Succs(f, p) : n[b] < n[p]
  BY FewerAhead
<1> DEFINE T == {n[b] : b \in S}
<1>2. T \subseteq Nat /\ T # {}
  BY <1>1
<1>3. PICK k \in T : \A l \in T : k <= l
  <2> HIDE DEF T
  <2> QED
    BY <1>2, LeastNatural
<1>4. PICK b \in S : k = n[b]
  OBVIOUS
<1>5. ASSUME NEW s \in S, s \in Succs(f, b) PROVE FALSE
  <2>1. n[s] < n[b] /\ n[b] \in Nat /\ n[s] \in Nat
    BY <1>1, <1>5
  <2>2. n[s] \in T
    OBVIOUS
  <2>3. n[b] <= n[s]
    BY <2>2, <1>3, <1>4
  <2> QED
    BY <2>1, <2>3
<1> QED
  BY <1>5

\* What leads to b over one edge or more: the last edge comes from a block p
\* that it reaches.
LEMMA LastEdge ==
    ASSUME NEW f, IsGraph(f), NEW p \in Block, NEW b \in Block, b # p,
           b \in ReachFrom(f, {p}, Block)
    PROVE  \E q \in Block : b \in Succs(f, q) /\ q \in ReachFrom(f, {p}, Block)
<1> DEFINE X == ReachFrom(f, {p}, Block)
           Y == {p} \cup {y \in X : \E q \in X : y \in Succs(f, q)}
<1>1. p \in X /\ X \subseteq Block /\ Closed(f, X)
      /\ \A Z : {p} \subseteq Z /\ Closed(f, Z) => X \subseteq Z
  <2>1. {p} \subseteq Block
    OBVIOUS
  <2> QED
    BY <2>1, ReachFacts
<1> HIDE DEF X
<1>2. Closed(f, Y)
  BY <1>1 DEF Closed
<1>3. X \subseteq Y
  BY <1>1, <1>2
<1>4. b \in X
  BY DEF X
<1>5. PICK q \in X : b \in Succs(f, q)
  BY <1>3, <1>4
<1> QED
  BY <1>1, <1>5 DEF X

(***************************************************************************)
(* The schedule of a function with plain loops: g its graph, L its loops,  *)
(* r how often each block has to be evaluated, ev how often it was, and q  *)
(* the blocks that are to be evaluated next.                               *)
(***************************************************************************)
Before(g, L, b) == {p \in Block : b \in Ahead(g, L, p)}

\* Two blocks of one loop, and a block of none.
SameLoop(L, a, b) == \E h \in DOMAIN L : a \in L[h] /\ b \in L[h]
Outside(L, b) == \A h \in DOMAIN L : b \notin L[h]

\* Blocks outside of loops are evaluated once, those of a loop as often as its
\* trip count says, and a header that can leave the loop once more.
Shape(g, L, r) ==
    /\ IsGraph(g) /\ Plain(g, L)
    /\ DOMAIN L \subseteq Block
    /\ \A h \in DOMAIN L : h \in L[h] /\ L[h] \subseteq Block
    /\ r \in [Block -> Nat]
    /\ \A b \in Block : Outside(L, b) => r[b] = 1
    /\ \A h \in DOMAIN L : \E n \in Nat :
          /\ n > 0
          /\ \A b \in L[h] \ {h} : r[b] = n
          /\ r[h] = IF Exiting(g, L, h, h) THEN n + 1 ELSE n

\* The edges of such a function.
LEMMA EdgeFacts ==
    ASSUME NEW g, NEW L, NEW r, Shape(g, L, r)
    PROVE  /\ \A b \in Block : /\ Succs(g, b) \subseteq Block /\ b \notin Before(g, L, b)
                               /\ r[b] \in Nat /\ r[b] > 0
           /\ \A h, k \in DOMAIN L : \A b \in L[h] : b \in L[k] => h = k
           /\ \A h \in DOMAIN L : \A b \in L[h] \ {h} :
                 /\ b \in Block /\ b \notin DOMAIN L
                 /\ Before(g, L, b) \subseteq L[h] /\ Before(g, L, b) # {}
                 /\ \A p \in Block : b \in Succs(g, p) => p \in Before(g, L, b)
           /\ \A h \in DOMAIN L : /\ h \in Block
                                  /\ \A p \in Before(g, L, h) : Outside(L, p)
                                  /\ \A p \in Block : h \in Succs(g, p) => p \in L[h] \/ p \in Before(g, L, h)
           /\ \A b \in Block : Outside(L, b) =>
                 /\ \A p \in Block : b \in Succs(g, p) => p \in Before(g, L, b)
                 /\ \A h \in DOMAIN L : \A p \in L[h] :
                       b \in Succs(g, p) => Before(g, L, b) \subseteq L[h]
<1> DEFINE F == Forward(g, L)
<1>1. /\ IsGraph(g) /\ DOMAIN L \subseteq Block
      /\ \A h \in DOMAIN L : h \in L[h] /\ L[h] \subseteq Block
      /\ Preds(g, Entry) = {} /\ Nest(L, Entry) = {}
      /\ \A b \in Block \ {Entry} : Preds(F, b) # {}
      /\ Reducible(g, L)
      /\ \A h \in DOMAIN L : PlainLoop(g, L, h)
      /\ r \in [Block -> Nat]
  BY DEF Shape, Plain
<1>2. /\ IsGraph(F)
      /\ \A b \in Block : Succs(g, b) \subseteq Block /\ Succs(F, b) = Ahead(g, L, b)
  BY <1>1, ForwardFacts
<1>3. \A b \in Block : Preds(F, b) = Before(g, L, b)
  BY <1>2 DEF Preds, Before
<1>4. \A h \in DOMAIN L : \A b \in L[h] : \A k \in DOMAIN L : b \in L[k] <=> k = h
  BY <1>1 DEF PlainLoop, Nest
<1>5. \A h, k \in DOMAIN L : \A b \in L[h] : b \in L[k] => h = k
  BY <1>4
<1>6. ASSUME NEW b \in Block PROVE b \notin Before(g, L, b)
  <2>1. SUFFICES ASSUME b \in Ahead(g, L, b) PROVE FALSE
    BY DEF Before
  <2>2. Succs(F, b) \subseteq Block /\ b \in Succs(F, b)
    BY <2>1, <1>2, ForwardFacts
  <2>3. b \in ReachFrom(F, Succs(F, b), Block)
    BY <2>2, <1>2, ReachFacts
  <2> QED
    BY <2>3, <1>1 DEF Reducible
<1>7. ASSUME NEW b \in Block PROVE r[b] \in Nat /\ r[b] > 0
  <2>1. CASE Outside(L, b)
    BY <2>1 DEF Shape
  <2>2. CASE ~Outside(L, b)
    <3>1. PICK h \in DOMAIN L : b \in L[h]
      BY <2>2 DEF Outside
    <3>2. PICK n \in Nat : n > 0 /\ (\A c \in L[h] \ {h} : r[c] = n)
                           /\ r[h] = IF Exiting(g, L, h, h) THEN n + 1 ELSE n
      BY DEF Shape
    <3> QED
      BY <3>1, <3>2, <1>1
  <2> QED
    BY <2>1, <2>2
<1>8. ASSUME NEW h \in DOMAIN L, NEW b \in L[h] \ {h}
      PROVE  /\ b \in Block /\ b \notin DOMAIN L
             /\ Before(g, L, b) \subseteq L[h] /\ Before(g, L, b) # {}
             /\ \A p \in Block : b \in Succs(g, p) => p \in Before(g, L, b)
  <2>1. b \in Block /\ b \notin DOMAIN L
    BY <1>1, <1>5
  <2>2. b # Entry
    BY <1>1 DEF Nest
  <2>3. Preds(g, b) \subseteq L[h]
    BY <1>1 DEF PlainLoop
  <2>4. Before(g, L, b) \subseteq Preds(g, b)
    BY DEF Before, Preds, Ahead
  <2>5. \A p \in Block : b \in Succs(g, p) => p \in Before(g, L, b)
    BY <2>1 DEF Before, Ahead
  <2> QED
    BY <2>1, <2>2, <2>3, <2>4, <2>5, <1>1, <1>3
<1>9. ASSUME NEW k \in DOMAIN L, NEW p \in L[k], NEW b \in Succs(g, p), b \notin L[k]
      PROVE  Outside(L, b) /\ Preds(g, b) \subseteq L[k]
  <2>1. PICK e \in Block : /\ ExitBlocks(g, L, k) = {e} /\ Nest(L, e) = {}
                           /\ Preds(g, e) \subseteq L[k]
    BY <1>1 DEF PlainLoop
  <2>2. b \in ExitBlocks(g, L, k)
    BY <1>9 DEF ExitBlocks
  <2>3. b = e
    BY <2>1, <2>2
  <2> QED
    BY <2>1, <2>3 DEF Nest, Outside
<1>10. ASSUME NEW h \in DOMAIN L
       PROVE  /\ h \in Block
              /\ \A p \in Before(g, L, h) : Outside(L, p)
              /\ \A p \in Block : h \in Succs(g, p) => p \in L[h] \/ p \in Before(g, L, h)
  <2>1. ASSUME NEW p \in Before(g, L, h), NEW k \in DOMAIN L, p \in L[k] PROVE FALSE
    <3>1. p \in Block /\ h \in Succs(g, p) /\ p \notin L[h]
      BY <2>1 DEF Before, Ahead
    <3>2. h \notin L[k]
      BY <3>1, <2>1, <1>1, <1>5
    <3>3. Outside(L, h)
      BY <3>1, <3>2, <2>1, <1>9
    <3> QED
      BY <3>3, <1>1 DEF Outside
  <2> QED
    BY <2>1, <1>1 DEF Outside, Before, Ahead
<1>11. ASSUME NEW b \in Block, Outside(L, b)
       PROVE  /\ \A p \in Block : b \in Succs(g, p) => p \in Before(g, L, b)
              /\ \A h \in DOMAIN L : \A p \in L[h] :
                    b \in Succs(g, p) => Before(g, L, b) \subseteq L[h]
  <2>1. b \notin DOMAIN L
    BY <1>11, <1>1 DEF Outside
  <2>2. Before(g, L, b) \subseteq Preds(g, b)
    BY DEF Before, Preds, Ahead
  <2>3. ASSUME NEW h \in DOMAIN L, NEW p \in L[h], b \in Succs(g, p)
        PROVE  Before(g, L, b) \subseteq L[h]
    <3>1. b \notin L[h]
      BY <1>11 DEF Outside
    <3> QED
      BY <3>1, <2>2, <2>3, <1>9
  <2> QED
    BY <2>1, <2>3 DEF Before, Ahead
<1> QED
  BY <1>2, <1>5, <1>6, <1>7, <1>8, <1>10, <1>11

\* Of some blocks, one has none of its forward predecessors among them.
LEMMA FirstOf ==
    ASSUME NEW g, NEW L, NEW r, Shape(g, L, r), NEW S, S \subseteq Block, S # {}
    PROVE  \E b \in S : Before(g, L, b) \cap S = {}
<1> DEFINE F == Forward(g, L)
<1>1. IsGraph(g) /\ Reducible(g, L)
  BY DEF Shape, Plain
<1>2. IsGraph(F) /\ \A b \in Block : Succs(F, b) = Ahead(g, L, b)
  BY <1>1, ForwardFacts
<1>3. Acyclic(F)
  BY <1>1 DEF Acyclic, Reducible
<1> HIDE DEF F
<1>4. PICK b \in S : \A p \in S : b \notin Succs(F, p)
  BY <1>2, <1>3, FirstBlock
<1> QED
  BY <1>2, <1>4 DEF Before

\* The latch of a loop: of the other blocks of the body, one leads out of any
\* set of them.
LatchOf(g, L, h, l) ==
    /\ l \in L[h]
    /\ \A p \in L[h] : h \in Succs(g, p) <=> p = l
    /\ \A S : S \subseteq L[h] \ {h, l} /\ S # {} =>
          \E x \in S : \E c \in (L[h] \ {h}) \ S : x \in Before(g, L, c)
    /\ l = h => L[h] = {h}

\* A loop has one latch, and a header that leaves it one way in.
LEMMA LoopFacts ==
    ASSUME NEW g, NEW L, NEW r, Shape(g, L, r), NEW h \in DOMAIN L
    PROVE  /\ \E l \in L[h] : LatchOf(g, L, h, l)
           /\ Exiting(g, L, h, h) =>
                 \E a \in L[h] : \A c \in L[h] :
                    /\ c \in Succs(g, h) <=> c = a
                    /\ a \in Succs(g, c) <=> c = h
<1> DEFINE F == Forward(g, L)
<1>1. /\ IsGraph(g) /\ Reducible(g, L) /\ L[h] \subseteq Block /\ h \in L[h] /\ PlainLoop(g, L, h)
  BY DEF Shape, Plain
<1>2. IsGraph(F) /\ \A b \in Block : Succs(F, b) = Ahead(g, L, b)
  BY <1>1, ForwardFacts
<1>3. Acyclic(F)
  BY <1>1 DEF Acyclic, Reducible
<1>4. PICK l \in L[h] : /\ Preds(g, h) \cap L[h] = {l}
                        /\ \A b \in L[h] \ {l} : (Succs(g, b) \cap L[h]) \ {h} # {}
  BY <1>1 DEF PlainLoop
<1>5. \A p \in L[h] : h \in Succs(g, p) <=> p = l
  BY <1>1, <1>4 DEF Preds
<1> HIDE DEF F
<1>6. ASSUME NEW S, S \subseteq L[h] \ {l}, h \notin S, S # {}
      PROVE  \E x \in S : \E c \in (L[h] \ {h}) \ S : x \in Before(g, L, c)
  <2>1. S \subseteq Block
    BY <1>1, <1>6
  <2>2. PICK x \in S : \A s \in S : s \notin Succs(F, x)
    BY <2>1, <1>2, <1>3, <1>6, LastBlock
  <2>3. PICK c \in L[h] \ {h} : c \in Succs(g, x)
    BY <1>4, <1>6
  <2>4. x \in Before(g, L, c)
    BY <2>1, <2>3, EdgeFacts
  <2>5. c \notin S
    BY <2>1, <2>2, <2>4, <1>2 DEF Before
  <2> QED
    BY <2>3, <2>4, <2>5
<1>7. ASSUME l = h PROVE L[h] = {h}
  <2>1. SUFFICES ASSUME L[h] \ {h} # {} PROVE FALSE
    BY <1>1
  <2>2. L[h] \ {h} \subseteq L[h] \ {l}
    BY <1>7
  <2>3. \E x \in L[h] \ {h} : \E c \in (L[h] \ {h}) \ (L[h] \ {h}) : x \in Before(g, L, c)
    BY <2>1, <2>2, <1>6
  <2> QED
    BY <2>3
<1>8. LatchOf(g, L, h, l)
  BY <1>5, <1>6, <1>7 DEF LatchOf
<1>9. ASSUME Exiting(g, L, h, h)
      PROVE  \E a \in L[h] : \A c \in L[h] : /\ c \in Succs(g, h) <=> c = a
                                             /\ a \in Succs(g, c) <=> c = h
  <2>1. PICK a \in L[h] : Succs(g, h) \cap L[h] = {a} /\ Preds(g, a) \cap L[h] = {h}
    BY <1>1, <1>9 DEF PlainLoop
  <2> QED
    BY <2>1, <1>1 DEF Preds
<1> QED
  BY <1>8, <1>9

(***************************************************************************)
(* What the schedule keeps to, ...                                         *)
(***************************************************************************)
\* no block is evaluated too often;
Bounded(r, ev, q) ==
    \A b \in Block : ev[b] <= r[b] /\ (b \in q => ev[b] < r[b])

\* a loop, and what is not in one, waits until all before it is done;
AfterAll(g, L, r, ev, q) ==
    \A b \in Block : \A p \in Before(g, L, b) :
        ~SameLoop(L, p, b) /\ (b \in q \/ ev[b] > 0) => ev[p] = r[p]

\* the blocks of a loop are evaluated one after the other, round by round;
RoundOf(g, L, ev, q, h, b) ==
    /\ ev[b] <= ev[h] /\ ev[h] <= ev[b] + 1
    /\ b \in q => ev[b] < ev[h]
    /\ h \in q => ev[b] = ev[h]
    /\ \A p \in Before(g, L, b) : ev[b] <= ev[p] /\ (b \in q => ev[b] < ev[p])

InRounds(g, L, ev, q) ==
    \A h \in DOMAIN L : \A b \in L[h] \ {h} : RoundOf(g, L, ev, q, h, b)

\* and a block is to be evaluated when all before it is.
DueOnce(g, L, r, ev, q) ==
    \A b \in Block :
        (Outside(L, b) \/ b \in DOMAIN L) /\ ev[b] = 0
        /\ (\A p \in Before(g, L, b) : ev[p] = r[p]) => b \in q

DueInRound(g, L, r, ev, q) ==
    \A h \in DOMAIN L : \A b \in L[h] \ {h} :
        ev[b] < r[b] /\ (\A p \in Before(g, L, b) : ev[b] < ev[p]) => b \in q

DueAgain(g, L, r, ev, q) ==
    \A h \in DOMAIN L :
        0 < ev[h] /\ ev[h] < r[h]
        /\ (\A l \in L[h] : h \in Succs(g, l) => ev[l] = ev[h]) => h \in q

Schedule(g, L, r, ev, q) ==
    /\ ev \in [Block -> Nat] /\ q \subseteq Block
    /\ Bounded(r, ev, q)
    /\ AfterAll(g, L, r, ev, q)
    /\ InRounds(g, L, ev, q)
    /\ DueOnce(g, L, r, ev, q)
    /\ DueInRound(g, L, r, ev, q)
    /\ DueAgain(g, L, r, ev, q)

(***************************************************************************)
(* ... and a step of it: b is evaluated, and its successors that are ready *)
(* then are to be evaluated next.                                          *)
(***************************************************************************)
BackReady(L, r, ev, b, d) == d \in DOMAIN L /\ b \in L[d] /\ ev[d] < r[d]
BodyReady(g, L, r, ev, b, d) ==
    /\ \E h \in DOMAIN L : b \in L[h] /\ d \in L[h] /\ d # h
    /\ ev[d] < r[d] /\ \A p \in Before(g, L, d) : ev[d] < ev[p]
OnceReady(g, L, r, ev, b, d) ==
    ~SameLoop(L, b, d) /\ \A p \in Before(g, L, d) : ev[p] = r[p]

Ready(g, L, r, ev, b, d) ==
    \/ BackReady(L, r, ev, b, d)
    \/ BodyReady(g, L, r, ev, b, d)
    \/ OnceReady(g, L, r, ev, b, d)

After(ev, b) == [ev EXCEPT ![b] = @ + 1]
Onward(g, L, r, ev, q, b) ==
    (q \ {b}) \cup {d \in Succs(g, b) : Ready(g, L, r, After(ev, b), b, d)}

\* What a step changes, and the edges that may make a block ready.
LEMMA AfterFacts ==
    ASSUME NEW g, NEW L, NEW r, Shape(g, L, r), NEW ev, NEW q, Schedule(g, L, r, ev, q),
           NEW b \in q, NEW e2, e2 = After(ev, b), NEW q2, q2 = Onward(g, L, r, ev, q, b)
    PROVE  /\ b \in Block /\ ev[b] < r[b] /\ e2[b] = ev[b] + 1
           /\ ev \in [Block -> Nat] /\ e2 \in [Block -> Nat]
           /\ \A x \in Block : e2[x] \in Nat /\ ev[x] \in Nat /\ (x # b => e2[x] = ev[x])
           /\ q2 \subseteq Block
           /\ \A x : x \in q2 <=> \/ x \in q /\ x # b
                                  \/ x \in Succs(g, b) /\ Ready(g, L, r, e2, b, x)
<1>1. /\ ev \in [Block -> Nat] /\ q \subseteq Block /\ Bounded(r, ev, q)
  BY DEF Schedule
<1>2. b \in Block /\ ev[b] < r[b] /\ r[b] \in Nat
  BY <1>1, EdgeFacts DEF Bounded
<1>3. /\ e2 \in [Block -> Nat] /\ e2[b] = ev[b] + 1
      /\ \A x \in Block : x # b => e2[x] = ev[x]
  BY <1>1, <1>2 DEF After
<1>4. Succs(g, b) \subseteq Block
  BY <1>2, EdgeFacts
<1>5. \A x : x \in q2 <=> \/ x \in q /\ x # b
                          \/ x \in Succs(g, b) /\ Ready(g, L, r, e2, b, x)
  BY DEF Onward
<1> QED
  BY <1>1, <1>2, <1>3, <1>4, <1>5

\* A block that b leads to from outside of its loop has not been reached yet.
LEMMA NotYet ==
    ASSUME NEW g, NEW L, NEW r, Shape(g, L, r), NEW ev, NEW q, Schedule(g, L, r, ev, q),
           NEW b \in q, NEW d \in Succs(g, b), ~SameLoop(L, b, d)
    PROVE  b \in Before(g, L, d) /\ d \notin q /\ ev[d] = 0 /\ d # b
           /\ (Outside(L, d) \/ d \in DOMAIN L)
<1>1. /\ b \in Block /\ ev \in [Block -> Nat] /\ AfterAll(g, L, r, ev, q)
      /\ ev[b] < r[b]
  BY DEF Schedule, Bounded
<1>2. d \in Block
  BY <1>1, EdgeFacts
<1>3. b \in Before(g, L, d) /\ (Outside(L, d) \/ d \in DOMAIN L)
  <2>1. CASE Outside(L, d)
    BY <2>1, <1>1, <1>2, EdgeFacts
  <2>2. ASSUME NEW h \in DOMAIN L, d \in L[h]
        PROVE  b \in Before(g, L, d) /\ d \in DOMAIN L
    <3>1. b \notin L[h]
      BY <2>2 DEF SameLoop
    <3>2. d = h
      <4>1. SUFFICES ASSUME d # h PROVE FALSE
        OBVIOUS
      <4>2. d \in L[h] \ {h}
        BY <4>1, <2>2
      <4>3. b \in Before(g, L, d) /\ Before(g, L, d) \subseteq L[h]
        BY <4>2, <1>1, EdgeFacts
      <4> QED
        BY <4>3, <3>1
    <3> QED
      BY <3>1, <3>2, <1>1, EdgeFacts
  <2> QED
    BY <2>1, <2>2 DEF Outside
<1>4. ev[b] # r[b] /\ ev[b] \in Nat /\ r[b] \in Nat /\ ev[d] \in Nat
  BY <1>1, <1>2, EdgeFacts
<1>5. ~SameLoop(L, b, d)
  OBVIOUS
<1>6. d \notin q /\ ~(ev[d] > 0)
  BY <1>1, <1>2, <1>3, <1>4, <1>5 DEF AfterAll
<1>7. d # b
  BY <1>2, <1>3, EdgeFacts
<1> QED
  BY <1>3, <1>4, <1>6, <1>7

\* A block of a loop that is not its header, and is to be evaluated.
LEMMA BodyFacts ==
    ASSUME NEW g, NEW L, NEW r, Shape(g, L, r), NEW ev, NEW q, Schedule(g, L, r, ev, q),
           NEW h \in DOMAIN L, NEW b \in L[h] \ {h}, b \in q
    PROVE  h \notin q /\ ev[h] = ev[b] + 1 /\ ev[h] > 0
<1>1. /\ ev \in [Block -> Nat] /\ q \subseteq Block /\ RoundOf(g, L, ev, q, h, b)
  BY DEF Schedule, InRounds
<1>2. ev[b] \in Nat /\ ev[h] \in Nat
  BY <1>1, EdgeFacts
<1> QED
  BY <1>1, <1>2 DEF RoundOf

\* The step keeps each part of the schedule: no block is evaluated too often,
LEMMA BoundedAfter ==
    ASSUME NEW g, NEW L, NEW r, Shape(g, L, r), NEW ev, NEW q, Schedule(g, L, r, ev, q),
           NEW b \in q, NEW e2, e2 = After(ev, b), NEW q2, q2 = Onward(g, L, r, ev, q, b)
    PROVE  Bounded(r, e2, q2)
<1>1. /\ b \in Block /\ ev[b] < r[b] /\ e2[b] = ev[b] + 1
      /\ \A x \in Block : e2[x] \in Nat /\ ev[x] \in Nat /\ (x # b => e2[x] = ev[x])
      /\ q2 \subseteq Block
      /\ \A x : x \in q2 <=> \/ x \in q /\ x # b
                             \/ x \in Succs(g, b) /\ Ready(g, L, r, e2, b, x)
  BY AfterFacts
<1>2. \A x \in Block : r[x] \in Nat /\ r[x] > 0
  BY EdgeFacts
<1>3. \A x \in Block : ev[x] <= r[x] /\ (x \in q => ev[x] < r[x])
  BY DEF Schedule, Bounded
<1>4. \A x \in Block : e2[x] <= r[x]
  <2>1. e2[b] <= r[b]
    BY <1>1, <1>2
  <2> QED
    BY <2>1, <1>1, <1>3
<1>5. ASSUME NEW x \in q2 PROVE e2[x] < r[x]
  <2>1. CASE x \in q /\ x # b
    BY <2>1, <1>1, <1>3, <1>5
  <2>2. CASE x \in Succs(g, b) /\ Ready(g, L, r, e2, b, x)
    <3>1. CASE OnceReady(g, L, r, e2, b, x)
      <4>1. ~SameLoop(L, b, x)
        BY <3>1 DEF OnceReady
      <4>2. ev[x] = 0 /\ x # b
        BY <4>1, <2>2, NotYet
      <4> QED
        BY <4>2, <1>1, <1>2, <1>5
    <3>2. CASE ~OnceReady(g, L, r, e2, b, x)
      BY <3>2, <2>2 DEF Ready, BackReady, BodyReady
    <3> QED
      BY <3>1, <3>2
  <2> QED
    BY <2>1, <2>2, <1>1, <1>5
<1> QED
  BY <1>4, <1>5 DEF Bounded

\* a block still waits until all before it is done,
LEMMA AfterAllAfter ==
    ASSUME NEW g, NEW L, NEW r, Shape(g, L, r), NEW ev, NEW q, Schedule(g, L, r, ev, q),
           NEW b \in q, NEW e2, e2 = After(ev, b), NEW q2, q2 = Onward(g, L, r, ev, q, b)
    PROVE  AfterAll(g, L, r, e2, q2)
<1>1. /\ b \in Block /\ ev[b] < r[b] /\ e2[b] = ev[b] + 1
      /\ \A x \in Block : e2[x] \in Nat /\ ev[x] \in Nat /\ (x # b => e2[x] = ev[x])
      /\ q2 \subseteq Block
      /\ \A x : x \in q2 <=> \/ x \in q /\ x # b
                             \/ x \in Succs(g, b) /\ Ready(g, L, r, e2, b, x)
  BY AfterFacts
<1>2. SUFFICES ASSUME NEW x \in Block, NEW p \in Before(g, L, x), ~SameLoop(L, p, x),
                      x \in q2 \/ e2[x] > 0
               PROVE  e2[p] = r[p]
  BY DEF AfterAll
<1>3. p \in Block /\ x \in Succs(g, p) /\ ev[b] # r[b] /\ x \notin Before(g, L, x)
  <2>1. r[b] \in Nat /\ x \notin Before(g, L, x)
    BY <1>1, EdgeFacts
  <2> QED
    BY <2>1, <1>1 DEF Before, Ahead
<1>4. ASSUME x \in q \/ ev[x] > 0 PROVE e2[p] = r[p]
  <2>1. ev[p] = r[p]
    BY <1>2, <1>4 DEF Schedule, AfterAll
  <2> QED
    BY <2>1, <1>1, <1>3
<1>5. CASE x \in q \/ ev[x] > 0 \/ x = b
  BY <1>4, <1>5
<1>6. CASE ~(x \in q \/ ev[x] > 0 \/ x = b)
  <2>1. x \in Succs(g, b) /\ Ready(g, L, r, e2, b, x)
    BY <1>1, <1>2, <1>6
  <2>2. CASE OnceReady(g, L, r, e2, b, x)
    BY <2>2 DEF OnceReady
  <2>3. CASE BodyReady(g, L, r, e2, b, x)
    <3>1. PICK h \in DOMAIN L : b \in L[h] /\ x \in L[h] /\ x # h
      BY <2>3 DEF BodyReady
    <3>2. p \in L[h]
      BY <3>1, EdgeFacts
    <3> QED
      BY <3>1, <3>2, <1>2 DEF SameLoop
  <2>4. CASE BackReady(L, r, e2, b, x)
    <3>1. x \in DOMAIN L /\ b \in L[x] \ {x}
      BY <2>4, <1>6 DEF BackReady
    <3>2. ev[x] > 0
      BY <3>1, BodyFacts
    <3> QED
      BY <3>2, <1>6
  <2> QED
    BY <2>1, <2>2, <2>3, <2>4 DEF Ready
<1> QED
  BY <1>5, <1>6

\* loops still go round by round,
LEMMA InRoundsAfter ==
    ASSUME NEW g, NEW L, NEW r, Shape(g, L, r), NEW ev, NEW q, Schedule(g, L, r, ev, q),
           NEW b \in q, NEW e2, e2 = After(ev, b), NEW q2, q2 = Onward(g, L, r, ev, q, b)
    PROVE  InRounds(g, L, e2, q2)
<1>1. /\ b \in Block /\ ev[b] < r[b] /\ e2[b] = ev[b] + 1
      /\ \A x \in Block : e2[x] \in Nat /\ ev[x] \in Nat /\ (x # b => e2[x] = ev[x])
      /\ q2 \subseteq Block
      /\ \A x : x \in q2 <=> \/ x \in q /\ x # b
                             \/ x \in Succs(g, b) /\ Ready(g, L, r, e2, b, x)
  BY AfterFacts
<1> SUFFICES ASSUME NEW h \in DOMAIN L
             PROVE  \A x \in L[h] \ {h} : RoundOf(g, L, e2, q2, h, x)
  BY DEF InRounds
<1>2. /\ h \in Block /\ h \in L[h]
      /\ \A x \in L[h] : x \in Block
      /\ \A x \in L[h] \ {h} : /\ x \notin DOMAIN L
                               /\ Before(g, L, x) \subseteq L[h] /\ Before(g, L, x) # {}
                               /\ x \notin Before(g, L, x)
                               /\ \A p \in Block : x \in Succs(g, p) => p \in Before(g, L, x)
  BY EdgeFacts DEF Shape
<1>3. \A x \in L[h] \ {h} : RoundOf(g, L, ev, q, h, x)
  BY DEF Schedule, InRounds
<1>4. \A x \in L[h] : b \in L[h] => SameLoop(L, b, x)
  BY DEF SameLoop
<1>5. CASE b \notin L[h]
  <2> SUFFICES ASSUME NEW x \in L[h] \ {h} PROVE RoundOf(g, L, e2, q2, h, x)
    OBVIOUS
  <2>1. RoundOf(g, L, ev, q, h, x)
    BY <1>3
  <2>2. \A y \in L[h] : e2[y] = ev[y]
    BY <1>1, <1>2, <1>5
  <2>3. x \in q2 => x \in q
    <3>1. x \notin Succs(g, b)
      BY <1>1, <1>2, <1>5
    <3> QED
      BY <3>1, <1>1
  <2>4. h \in q2 => ev[x] = ev[h]
    <3>1. SUFFICES ASSUME h \in q2, h \notin q PROVE ev[x] = ev[h]
      BY <2>1 DEF RoundOf
    <3>2. h \in Succs(g, b)
      BY <3>1, <1>1
    <3>3. ~SameLoop(L, b, h)
      BY <1>2, <1>5, EdgeFacts DEF SameLoop
    <3>4. ev[h] = 0
      BY <3>2, <3>3, NotYet
    <3> QED
      BY <3>4, <2>1, <1>1, <1>2 DEF RoundOf
  <2>5. \A p \in Before(g, L, x) : e2[p] = ev[p] /\ p \in Block
    BY <2>2, <1>2
  <2> QED
    BY <2>1, <2>2, <2>3, <2>4, <2>5, <1>2 DEF RoundOf
<1>6. CASE b = h
  <2> SUFFICES ASSUME NEW x \in L[h] \ {h} PROVE RoundOf(g, L, e2, q2, h, x)
    OBVIOUS
  <2>1. \A y \in L[h] \ {h} : e2[y] = ev[y] /\ ev[y] = ev[h]
    BY <1>1, <1>2, <1>3, <1>6 DEF RoundOf
  <2>2. e2[h] = ev[h] + 1 /\ ev[h] \in Nat
    BY <1>1, <1>6
  <2>3. h \notin q2
    <3>1. SUFFICES ASSUME h \in Succs(g, h) PROVE FALSE
      BY <1>1, <1>6
    <3>2. PICK l \in L[h] : LatchOf(g, L, h, l)
      BY LoopFacts
    <3>3. l = h
      BY <3>1, <3>2, <1>2 DEF LatchOf
    <3>4. L[h] = {h}
      BY <3>2, <3>3 DEF LatchOf
    <3> QED
      BY <3>4
  <2>4. x \in q2 => \A p \in Before(g, L, x) : e2[x] < e2[p]
    <3>1. SUFFICES ASSUME x \in q2 PROVE \A p \in Before(g, L, x) : e2[x] < e2[p]
      OBVIOUS
    <3>2. x \notin q
      BY <2>1, <1>3, <1>1, <1>2 DEF RoundOf
    <3>3. Ready(g, L, r, e2, b, x)
      BY <3>1, <3>2, <1>1
    <3>4. ~OnceReady(g, L, r, e2, b, x)
      BY <1>2, <1>4, <1>6 DEF OnceReady
    <3>5. ~BackReady(L, r, e2, b, x)
      BY <1>2 DEF BackReady
    <3> QED
      BY <3>3, <3>4, <3>5 DEF Ready, BodyReady
  <2>5. \A p \in Before(g, L, x) : e2[x] <= e2[p]
    <3> SUFFICES ASSUME NEW p \in Before(g, L, x) PROVE e2[x] <= e2[p]
      OBVIOUS
    <3>1. p \in L[h]
      BY <1>2
    <3>2. CASE p = h
      BY <3>2, <2>1, <2>2
    <3>3. CASE p # h
      BY <3>1, <3>3, <2>1, <2>2
    <3> QED
      BY <3>2, <3>3
  <2>6. e2[x] = ev[h]
    BY <2>1
  <2> HIDE DEF Before
  <2> QED
    BY <2>2, <2>3, <2>4, <2>5, <2>6 DEF RoundOf
<1>7. CASE b \in L[h] /\ b # h
  <2>1. h \notin q /\ ev[h] = ev[b] + 1 /\ ev[h] > 0 /\ e2[h] = ev[h] /\ e2[b] = ev[h]
    BY <1>1, <1>2, <1>7, BodyFacts
  <2>2. \A x \in L[h] \ {h} : /\ e2[x] <= e2[h] /\ e2[h] <= e2[x] + 1
                              /\ \A p \in Before(g, L, x) : e2[x] <= e2[p]
    <3> SUFFICES ASSUME NEW x \in L[h] \ {h}
                 PROVE  /\ e2[x] <= e2[h] /\ e2[h] <= e2[x] + 1
                        /\ \A p \in Before(g, L, x) : e2[x] <= e2[p]
      OBVIOUS
    <3>1. RoundOf(g, L, ev, q, h, x) /\ ev[x] \in Nat /\ ev[h] \in Nat /\ ev[b] \in Nat
      BY <1>1, <1>2, <1>3
    <3>2. e2[x] <= e2[h] /\ e2[h] <= e2[x] + 1
      <4>1. CASE x = b
        BY <4>1, <3>1, <2>1
      <4>2. CASE x # b
        BY <4>2, <3>1, <2>1, <1>1, <1>2 DEF RoundOf
      <4> QED
        BY <4>1, <4>2
    <3>3. ASSUME NEW p \in Before(g, L, x) PROVE e2[x] <= e2[p]
      <4>1. p \in Block /\ ev[x] <= ev[p] /\ (x \in q => ev[x] < ev[p]) /\ p # x
        BY <3>1, <1>2 DEF RoundOf
      <4>2. e2[p] \in Nat /\ ev[p] \in Nat /\ e2[p] >= ev[p]
        <5>1. p = b \/ p # b
          OBVIOUS
        <5> QED
          BY <5>1, <4>1, <1>1
      <4>3. CASE x = b
        BY <4>1, <4>2, <4>3, <1>1, <3>1
      <4>4. CASE x # b
        BY <4>1, <4>2, <4>4, <1>1, <1>2, <3>1
      <4> QED
        BY <4>3, <4>4
    <3> QED
      BY <3>2, <3>3
  <2>3. ASSUME NEW x \in L[h] \ {h}, x \in q2
        PROVE  e2[x] < e2[h] /\ \A p \in Before(g, L, x) : e2[x] < e2[p]
    <3>1. \A p \in Before(g, L, x) : e2[x] < e2[p]
      <4> SUFFICES ASSUME NEW p \in Before(g, L, x) PROVE e2[x] < e2[p]
        OBVIOUS
      <4>0. p \in Block
        BY <1>2
      <4>1. CASE x \in q /\ x # b
        <5>1. ev[x] < ev[p]
          BY <4>1, <1>3 DEF RoundOf
        <5>2. e2[x] = ev[x] /\ e2[p] >= ev[p] /\ e2[p] \in Nat /\ ev[p] \in Nat /\ ev[x] \in Nat
          BY <4>0, <4>1, <1>1, <1>2
        <5> QED
          BY <5>1, <5>2
      <4>2. CASE ~(x \in q /\ x # b)
        <5>1. Ready(g, L, r, e2, b, x)
          BY <4>2, <2>3, <1>1
        <5>2. ~OnceReady(g, L, r, e2, b, x)
          BY <1>4, <1>7 DEF OnceReady
        <5>3. ~BackReady(L, r, e2, b, x)
          BY <1>2 DEF BackReady
        <5> QED
          BY <5>1, <5>2, <5>3 DEF Ready, BodyReady
      <4> QED
        BY <4>1, <4>2
    <3>2. PICK p \in Before(g, L, x) : p \in L[h]
      BY <1>2
    <3>3. e2[p] <= e2[h]
      <4>1. e2[h] \in Nat
        BY <1>1, <1>2
      <4>2. p = h \/ p \in L[h] \ {h}
        BY <3>2
      <4> QED
        BY <4>1, <4>2, <2>2
    <3>4. e2[x] \in Nat /\ e2[p] \in Nat /\ e2[h] \in Nat
      BY <3>2, <1>1, <1>2
    <3>5. e2[x] < e2[p]
      BY <3>1
    <3> QED
      BY <3>1, <3>3, <3>4, <3>5
  <2>4. ASSUME h \in q2, NEW x \in L[h] \ {h} PROVE e2[x] = e2[h]
    <3>1. h \in Succs(g, b)
      BY <2>1, <2>4, <1>1
    <3>2. PICK l \in L[h] : LatchOf(g, L, h, l)
      BY LoopFacts
    <3>3. l = b
      BY <3>1, <3>2, <1>7 DEF LatchOf
    <3> DEFINE S == {y \in L[h] \ {h} : e2[y] # e2[h]}
    <3>4. SUFFICES ASSUME S # {} PROVE FALSE
      OBVIOUS
    <3>5. S \subseteq L[h] \ {h, l}
      BY <3>3, <2>1
    <3>6. PICK y \in S : \E c \in (L[h] \ {h}) \ S : y \in Before(g, L, c)
      <4> HIDE DEF S
      <4> QED
        BY <3>2, <3>4, <3>5 DEF LatchOf
    <3>7. PICK c \in (L[h] \ {h}) \ S : y \in Before(g, L, c)
      BY <3>6
    <3>8. e2[c] = e2[h] /\ e2[c] <= e2[y] /\ e2[y] <= e2[h]
      BY <3>7, <2>2
    <3>9. e2[c] \in Nat /\ e2[y] \in Nat /\ e2[h] \in Nat /\ e2[y] # e2[h]
      BY <1>1, <1>2
    <3> QED
      BY <3>8, <3>9
  <2> QED
    BY <2>2, <2>3, <2>4 DEF RoundOf
<1> QED
  BY <1>5, <1>6, <1>7

\* a block that is evaluated once, or begins a loop, is still not forgotten,
LEMMA DueOnceAfter ==
    ASSUME NEW g, NEW L, NEW r, Shape(g, L, r), NEW ev, NEW q, Schedule(g, L, r, ev, q),
           NEW b \in q, NEW e2, e2 = After(ev, b), NEW q2, q2 = Onward(g, L, r, ev, q, b)
    PROVE  DueOnce(g, L, r, e2, q2)
<1>1. /\ b \in Block /\ ev[b] < r[b] /\ e2[b] = ev[b] + 1
      /\ \A x \in Block : e2[x] \in Nat /\ ev[x] \in Nat /\ (x # b => e2[x] = ev[x])
      /\ \A x : x \in q2 <=> \/ x \in q /\ x # b
                             \/ x \in Succs(g, b) /\ Ready(g, L, r, e2, b, x)
  BY AfterFacts
<1> SUFFICES ASSUME NEW x \in Block, Outside(L, x) \/ x \in DOMAIN L, e2[x] = 0,
                    \A p \in Before(g, L, x) : e2[p] = r[p]
             PROVE  x \in q2
  BY DEF DueOnce
<1>2. x # b /\ ev[x] = 0
  BY <1>1
<1>3. CASE \A p \in Before(g, L, x) : ev[p] = r[p]
  BY <1>1, <1>2, <1>3 DEF Schedule, DueOnce
<1>4. CASE \E p \in Before(g, L, x) : ev[p] # r[p]
  <2>1. PICK p \in Before(g, L, x) : ev[p] # r[p]
    BY <1>4
  <2>2. p \in Block /\ e2[p] = r[p]
    BY <2>1 DEF Before
  <2>3. p = b
    BY <2>1, <2>2, <1>1
  <2>4. x \in Succs(g, b)
    BY <2>3 DEF Before, Ahead
  <2>5. ~SameLoop(L, b, x)
    <3>1. CASE Outside(L, x)
      BY <3>1 DEF Outside, SameLoop
    <3>2. CASE x \in DOMAIN L
      BY <3>2, <2>3, EdgeFacts DEF Outside, SameLoop
    <3> QED
      BY <3>1, <3>2
  <2> QED
    BY <2>4, <2>5, <1>1 DEF Ready, OnceReady
<1> QED
  BY <1>3, <1>4

\* nor is one in a loop,
LEMMA DueInRoundAfter ==
    ASSUME NEW g, NEW L, NEW r, Shape(g, L, r), NEW ev, NEW q, Schedule(g, L, r, ev, q),
           NEW b \in q, NEW e2, e2 = After(ev, b), NEW q2, q2 = Onward(g, L, r, ev, q, b)
    PROVE  DueInRound(g, L, r, e2, q2)
<1>1. /\ b \in Block /\ ev[b] < r[b] /\ e2[b] = ev[b] + 1
      /\ \A x \in Block : e2[x] \in Nat /\ ev[x] \in Nat /\ (x # b => e2[x] = ev[x])
      /\ \A x : x \in q2 <=> \/ x \in q /\ x # b
                             \/ x \in Succs(g, b) /\ Ready(g, L, r, e2, b, x)
  BY AfterFacts
<1> SUFFICES ASSUME NEW h \in DOMAIN L, NEW x \in L[h] \ {h}, e2[x] < r[x],
                    \A p \in Before(g, L, x) : e2[x] < e2[p]
             PROVE  x \in q2
  BY DEF DueInRound
<1>2. /\ x \in Block /\ Before(g, L, x) \subseteq L[h] /\ Before(g, L, x) # {}
      /\ \A p \in L[h] : p \in Block
  BY EdgeFacts DEF Shape
<1>3. CASE x = b
  <2>1. ev[h] = ev[b] + 1 /\ h \in Block
    BY <1>3, BodyFacts, EdgeFacts
  <2>2. e2[h] = e2[b]
    BY <2>1, <1>1, <1>3
  <2>3. InRounds(g, L, e2, q2)
    BY InRoundsAfter
  <2>4. PICK p \in Before(g, L, x) : p \in L[h] /\ p \in Block
    BY <1>2
  <2>5. e2[p] <= e2[h]
    <3>1. p = h \/ RoundOf(g, L, e2, q2, h, p)
      BY <2>3, <2>4 DEF InRounds
    <3> QED
      BY <3>1, <2>1, <1>1 DEF RoundOf
  <2>6. e2[x] < e2[p] /\ e2[p] \in Nat /\ e2[x] \in Nat /\ e2[h] = e2[x] /\ e2[h] \in Nat
    BY <2>1, <2>2, <2>4, <1>1, <1>3
  <2> QED
    BY <2>5, <2>6
<1>4. CASE x # b /\ \A p \in Before(g, L, x) : ev[x] < ev[p]
  <2>1. e2[x] = ev[x]
    BY <1>1, <1>2, <1>4
  <2> QED
    BY <2>1, <1>1, <1>4 DEF Schedule, DueInRound
<1>5. CASE x # b /\ \E p \in Before(g, L, x) : ~(ev[x] < ev[p])
  <2>1. PICK p \in Before(g, L, x) : ~(ev[x] < ev[p])
    BY <1>5
  <2>2. p = b
    BY <2>1, <1>1, <1>2, <1>5
  <2>3. x \in Succs(g, b) /\ b \in L[h]
    BY <2>2, <1>2 DEF Before, Ahead
  <2> QED
    BY <2>3, <1>1 DEF Ready, BodyReady
<1> QED
  BY <1>3, <1>4, <1>5

\* nor the header when a round is over.
LEMMA DueAgainAfter ==
    ASSUME NEW g, NEW L, NEW r, Shape(g, L, r), NEW ev, NEW q, Schedule(g, L, r, ev, q),
           NEW b \in q, NEW e2, e2 = After(ev, b), NEW q2, q2 = Onward(g, L, r, ev, q, b)
    PROVE  DueAgain(g, L, r, e2, q2)
<1>1. /\ b \in Block /\ ev[b] < r[b] /\ e2[b] = ev[b] + 1
      /\ \A x \in Block : e2[x] \in Nat /\ ev[x] \in Nat /\ (x # b => e2[x] = ev[x])
      /\ \A x : x \in q2 <=> \/ x \in q /\ x # b
                             \/ x \in Succs(g, b) /\ Ready(g, L, r, e2, b, x)
  BY AfterFacts
<1> SUFFICES ASSUME NEW h \in DOMAIN L, 0 < e2[h], e2[h] < r[h],
                    \A l \in L[h] : h \in Succs(g, l) => e2[l] = e2[h]
             PROVE  h \in q2
  BY DEF DueAgain
<1>2. h \in Block /\ \A p \in L[h] : p \in Block
  BY EdgeFacts DEF Shape
<1>3. PICK l \in L[h] : LatchOf(g, L, h, l)
  BY LoopFacts
<1>4. h \in Succs(g, l) /\ e2[l] = e2[h] /\ l \in Block
  BY <1>2, <1>3 DEF LatchOf
<1>5. CASE b = l
  BY <1>1, <1>4, <1>5 DEF Ready, BackReady
<1>6. CASE b # l /\ b = h
  <2>1. RoundOf(g, L, ev, q, h, l)
    BY <1>3, <1>6 DEF Schedule, InRounds
  <2>2. ev[l] = ev[h] /\ e2[l] = ev[l] /\ e2[h] = ev[h] + 1 /\ ev[h] \in Nat
    BY <2>1, <1>1, <1>4, <1>6 DEF RoundOf
  <2> QED
    BY <2>2, <1>4
<1>7. CASE b # l /\ b # h
  <2>1. e2[l] = ev[l] /\ e2[h] = ev[h]
    BY <1>1, <1>2, <1>4, <1>7
  <2>2. \A k \in L[h] : h \in Succs(g, k) => ev[k] = ev[h]
    BY <2>1, <1>3, <1>4 DEF LatchOf
  <2>3. h \in q
    BY <2>1, <2>2 DEF Schedule, DueAgain
  <2> QED
    BY <2>3, <1>1, <1>7
<1> QED
  BY <1>5, <1>6, <1>7

\* A step keeps to the schedule.
LEMMA ScheduleAfter ==
    ASSUME NEW g, NEW L, NEW r, Shape(g, L, r), NEW ev, NEW q, Schedule(g, L, r, ev, q),
           NEW b \in q, NEW e2, e2 = After(ev, b), NEW q2, q2 = Onward(g, L, r, ev, q, b)
    PROVE  Schedule(g, L, r, e2, q2)
<1>1. e2 \in [Block -> Nat] /\ q2 \subseteq Block
  BY AfterFacts
<1>2. Bounded(r, e2, q2) /\ AfterAll(g, L, r, e2, q2)
  BY BoundedAfter, AfterAllAfter
<1>3. InRounds(g, L, e2, q2) /\ DueOnce(g, L, r, e2, q2)
  BY InRoundsAfter, DueOnceAfter
<1>4. DueInRound(g, L, r, e2, q2) /\ DueAgain(g, L, r, e2, q2)
  BY DueInRoundAfter, DueAgainAfter
<1> QED
  BY <1>1, <1>2, <1>3, <1>4 DEF Schedule

\* A loop that was entered, and of which no block is to be evaluated, is done.
LEMMA LoopDone ==
    ASSUME NEW g, NEW L, NEW r, Shape(g, L, r), NEW ev, NEW q, Schedule(g, L, r, ev, q),
           NEW h \in DOMAIN L, ev[h] > 0, \A x \in L[h] : x \notin q
    PROVE  \A x \in L[h] : ev[x] = r[x]
<1>1. /\ h \in Block /\ h \in L[h] /\ \A x \in L[h] : x \in Block
      /\ \A x \in L[h] \ {h} : Before(g, L, x) \subseteq L[h] /\ Before(g, L, x) # {}
  BY EdgeFacts DEF Shape
<1>2. /\ \A x \in Block : ev[x] \in Nat /\ r[x] \in Nat /\ ev[x] <= r[x]
      /\ \A x \in L[h] \ {h} : RoundOf(g, L, ev, q, h, x)
  BY EdgeFacts DEF Schedule, Bounded, InRounds
<1>3. PICK n \in Nat : /\ n > 0 /\ \A x \in L[h] \ {h} : r[x] = n
                       /\ r[h] = IF Exiting(g, L, h, h) THEN n + 1 ELSE n
  BY DEF Shape
<1>4. ASSUME NEW x \in L[h] \ {h} PROVE ev[x] = n \/ ev[x] = ev[h]
  <2> DEFINE S == {y \in L[h] \ {h} : ev[y] # n /\ ev[y] # ev[h]}
  <2>1. SUFFICES ASSUME S # {} PROVE FALSE
    OBVIOUS
  <2>2. S \subseteq Block
    BY <1>1
  <2>3. PICK y \in S : Before(g, L, y) \cap S = {}
    <3> HIDE DEF S
    <3> QED
      BY <2>1, <2>2, FirstOf
  <2>4. /\ y \in L[h] \ {h} /\ ev[y] < n /\ ev[y] < ev[h] /\ ev[y] < r[y]
        /\ ev[y] \in Nat /\ ev[h] \in Nat
    <3>1. ev[y] <= r[y] /\ r[y] = n /\ ev[y] \in Nat /\ ev[h] \in Nat /\ ev[y] # n /\ ev[y] # ev[h]
      BY <1>1, <1>2, <1>3
    <3>2. ev[y] <= ev[h]
      BY <1>2 DEF RoundOf
    <3> QED
      BY <3>1, <3>2
  <2>5. ASSUME NEW p \in Before(g, L, y) PROVE ev[y] < ev[p]
    <3>1. p \in L[h] /\ p \notin S
      BY <2>3, <2>4, <1>1
    <3>2. p = h \/ ev[p] = n \/ ev[p] = ev[h]
      BY <3>1
    <3> QED
      BY <3>2, <2>4
  <2>6. y \in q
    BY <2>4, <2>5 DEF Schedule, DueInRound
  <2> QED
    BY <2>4, <2>6
<1>5. PICK l \in L[h] : LatchOf(g, L, h, l)
  BY LoopFacts
<1>6. ev[h] = r[h]
  <2>1. SUFFICES ASSUME ev[h] < r[h] PROVE FALSE
    BY <1>1, <1>2
  <2>2. ev[h] <= n /\ ev[h] \in Nat
    BY <2>1, <1>1, <1>2, <1>3
  <2>3. ev[l] = ev[h]
    <3>1. CASE l = h
      BY <3>1
    <3>2. CASE l # h
      <4>1. ev[l] <= ev[h] /\ ev[l] \in Nat
        BY <3>2, <1>1, <1>2 DEF RoundOf
      <4> QED
        BY <4>1, <3>2, <2>2, <1>3, <1>4
    <3> QED
      BY <3>1, <3>2
  <2>4. \A k \in L[h] : h \in Succs(g, k) => ev[k] = ev[h]
    BY <2>3, <1>5 DEF LatchOf
  <2>5. h \in q
    BY <2>1, <2>4 DEF Schedule, DueAgain
  <2> QED
    BY <2>5, <1>1
<1>7. ASSUME NEW x \in L[h] \ {h} PROVE ev[x] = r[x]
  <2>1. ev[x] <= r[x] /\ r[x] = n /\ ev[x] \in Nat /\ r[h] >= n /\ r[h] \in Nat
    BY <1>1, <1>2, <1>3
  <2> QED
    BY <2>1, <1>3, <1>4, <1>6
<1> QED
  BY <1>6, <1>7

\* When nothing is to be evaluated any more, all is done.
LEMMA AllDone ==
    ASSUME NEW g, NEW L, NEW r, Shape(g, L, r), NEW ev, Schedule(g, L, r, ev, {}),
           NEW b \in Block
    PROVE  ev[b] = r[b]
<1> DEFINE S == {x \in Block : ev[x] # r[x]}
<1>1. SUFFICES ASSUME S # {} PROVE FALSE
  OBVIOUS
<1>2. PICK x \in S : Before(g, L, x) \cap S = {}
  <2>1. S \subseteq Block
    OBVIOUS
  <2> HIDE DEF S
  <2> QED
    BY <1>1, <2>1, FirstOf
<1>3. /\ x \in Block /\ ev[x] # r[x]
      /\ \A p \in Before(g, L, x) : p \in Block /\ ev[p] = r[p]
  BY <1>2 DEF Before
<1>4. \A y \in Block : ev[y] \in Nat /\ r[y] \in Nat /\ r[y] > 0 /\ ev[y] <= r[y]
  BY EdgeFacts DEF Schedule, Bounded
<1>5. ASSUME NEW h \in DOMAIN L, x \in L[h] PROVE ev[h] = 0
  <2>1. h \in Block
    BY EdgeFacts
  <2>2. ev[h] > 0 => ev[x] = r[x]
    BY <1>5, LoopDone
  <2> QED
    BY <2>1, <2>2, <1>3, <1>4
<1>6. CASE Outside(L, x) \/ x \in DOMAIN L
  <2>1. ev[x] # 0
    BY <1>3, <1>6 DEF Schedule, DueOnce
  <2>2. CASE Outside(L, x)
    <3>1. r[x] = 1
      BY <2>2, <1>3 DEF Shape
    <3> QED
      BY <3>1, <2>1, <1>3, <1>4
  <2>3. CASE x \in DOMAIN L
    <3>1. x \in L[x]
      BY <2>3 DEF Shape
    <3> QED
      BY <3>1, <2>1, <2>3, <1>5
  <2> QED
    BY <2>2, <2>3, <1>6
<1>7. CASE ~(Outside(L, x) \/ x \in DOMAIN L)
  <2>1. PICK h \in DOMAIN L : x \in L[h] \ {h}
    BY <1>7 DEF Outside
  <2>2. ev[h] = 0
    BY <2>1, <1>5
  <2>3. PICK p \in Before(g, L, x) : p \in L[h]
    BY <2>1, EdgeFacts
  <2>4. ev[p] > 0 /\ p \in Block
    BY <2>3, <1>3, <1>4
  <2>5. p = h \/ RoundOf(g, L, ev, {}, h, p)
    BY <2>3 DEF Schedule, InRounds
  <2> QED
    BY <2>2, <2>4, <2>5, <1>4 DEF RoundOf
<1> QED
  BY <1>6, <1>7

\* No successor of the block that is evaluated is waiting.
LEMMA Fresh ==
    ASSUME NEW g, NEW L, NEW r, Shape(g, L, r), NEW ev, NEW q, Schedule(g, L, r, ev, q),
           NEW b \in q, NEW d \in Succs(g, b), d # b
    PROVE  d \notin q
<1>1. CASE ~SameLoop(L, b, d)
  BY <1>1, NotYet
<1>2. CASE SameLoop(L, b, d)
  <2>1. PICK h \in DOMAIN L : b \in L[h] /\ d \in L[h]
    BY <1>2 DEF SameLoop
  <2>2. b \in Block /\ h \in Block /\ \A x \in Block : ev[x] \in Nat
    BY EdgeFacts DEF Schedule
  <2>3. CASE d = h
    BY <2>1, <2>3, BodyFacts
  <2>4. CASE d # h
    <3>1. SUFFICES ASSUME d \in q PROVE FALSE
      OBVIOUS
    <3>2. RoundOf(g, L, ev, q, h, d) /\ b \in Before(g, L, d)
      BY <2>1, <2>2, <2>4, EdgeFacts DEF Schedule, InRounds
    <3>3. ev[d] < ev[b] /\ h \notin q /\ ev[h] = ev[d] + 1 /\ d \in Block
      BY <3>1, <3>2, <2>1, <2>4, BodyFacts, EdgeFacts DEF RoundOf
    <3>4. b # h
      BY <3>3
    <3>5. ev[h] = ev[b] + 1
      BY <3>4, <2>1, BodyFacts
    <3> QED
      BY <3>3, <3>5, <2>2
  <2> QED
    BY <2>3, <2>4
<1> QED
  BY <1>1, <1>2

(***************************************************************************)
(* EvalCount: the evaluations a block has left.  The blocks of a loop have *)
(* theirs from when it is entered; a block outside of loops has one when   *)
(* it is to be evaluated, and may have an entry of 0 before, when a loop   *)
(* leads to it.                                                            *)
(***************************************************************************)
Entered(ev, q, h) == h \in q \/ ev[h] > 0

CountsFit(g, L, r, ev, q, ec) ==
    /\ ec \in Counts
    /\ \A b \in Block : Outside(L, b) =>
          /\ b \in q => ec[b] = 1
          /\ ev[b] > 0 => ec[b] = 0
          /\ ev[b] = 0 /\ b \notin q =>
                \/ ec[b] = Unseen
                \/ ec[b] = 0 /\ \E h \in DOMAIN L : ev[h] > 0
                                   /\ \E p \in L[h] : b \in Succs(g, p)
    /\ \A h \in DOMAIN L : \A b \in L[h] :
          /\ Entered(ev, q, h) => ec[b] = r[b] - ev[b]
          /\ ~Entered(ev, q, h) => ec[b] = Unseen

\* The loop of a block that is to be evaluated has been entered.
LEMMA EnteredFacts ==
    ASSUME NEW g, NEW L, NEW r, Shape(g, L, r), NEW ev, NEW q, Schedule(g, L, r, ev, q),
           NEW h \in DOMAIN L, NEW b \in L[h], b \in q
    PROVE  Entered(ev, q, h)
<1>1. CASE b = h
  BY <1>1 DEF Entered
<1>2. CASE b # h
  BY <1>2, BodyFacts DEF Entered
<1> QED
  BY <1>1, <1>2

\* The block that is evaluated has evaluations left, and is counted down.
LEMMA CountDownFits ==
    ASSUME NEW g, NEW L, NEW r, Shape(g, L, r), NEW ev, NEW q, Schedule(g, L, r, ev, q),
           NEW b \in q, NEW ec, CountsFit(g, L, r, ev, q, ec), NEW c, c = CountDown(ec, b)
    PROVE  /\ ec[b] # Unseen /\ ec[b] # 0
           /\ CountsFit(g, L, r, After(ev, b), q \ {b}, c)
<1> DEFINE e2 == After(ev, b)
           qq == q \ {b}
<1>1. /\ b \in Block /\ ev[b] < r[b] /\ e2[b] = ev[b] + 1
      /\ \A x \in Block : e2[x] \in Nat /\ ev[x] \in Nat /\ (x # b => e2[x] = ev[x])
  BY AfterFacts
<1> HIDE DEF e2
<1>2. /\ ec \in Counts /\ Unseen \notin Nat
      /\ \A x \in Block : Outside(L, x) =>
            /\ x \in q => ec[x] = 1
            /\ ev[x] > 0 => ec[x] = 0
            /\ ev[x] = 0 /\ x \notin q =>
                \/ ec[x] = Unseen
                \/ ec[x] = 0 /\ \E h \in DOMAIN L : ev[h] > 0
                                   /\ \E p \in L[h] : x \in Succs(g, p)
      /\ \A h \in DOMAIN L : \A x \in L[h] :
          /\ Entered(ev, q, h) => ec[x] = r[x] - ev[x]
          /\ ~Entered(ev, q, h) => ec[x] = Unseen
  BY TripCountAssumption DEF CountsFit
<1>3. /\ \A x \in Block : r[x] \in Nat /\ r[x] > 0
      /\ \A h \in DOMAIN L : h \in Block /\ \A x \in L[h] : x \in Block
  BY EdgeFacts DEF Shape
<1>4. ec[b] \in Nat \ {0} /\ (Outside(L, b) => ec[b] = 1)
  <2>1. CASE Outside(L, b)
    BY <2>1, <1>1, <1>2
  <2>2. ASSUME NEW h \in DOMAIN L, b \in L[h] PROVE ec[b] \in Nat \ {0}
    <3>1. ec[b] = r[b] - ev[b]
      BY <2>2, <1>2, EnteredFacts
    <3> QED
      BY <3>1, <1>1, <1>3
  <2> QED
    BY <2>1, <2>2 DEF Outside
<1>5. c \in Counts /\ c[b] = ec[b] - 1 /\ \A x \in Block : x # b => c[x] = ec[x]
  <2>1. c \in Counts
    BY <1>1, <1>2, <1>4, CountedDown
  <2> QED
    BY <2>1, <1>1, <1>2 DEF CountDown, Counts
<1>6. ASSUME NEW x \in Block, Outside(L, x)
      PROVE  /\ x \in qq => c[x] = 1
             /\ e2[x] > 0 => c[x] = 0
             /\ e2[x] = 0 /\ x \notin qq =>
                \/ c[x] = Unseen
                \/ c[x] = 0 /\ \E h \in DOMAIN L : e2[h] > 0
                                  /\ \E p \in L[h] : x \in Succs(g, p)
  <2>1. CASE x = b
    BY <2>1, <1>1, <1>4, <1>5, <1>6
  <2>2. CASE x # b
    <3>1. \A h \in DOMAIN L : ev[h] > 0 => e2[h] > 0
      BY <1>1, <1>3
    <3>2. c[x] = ec[x] /\ e2[x] = ev[x]
      BY <2>2, <1>1, <1>5
    <3> QED
      BY <3>1, <3>2, <2>2, <1>2, <1>6
  <2> QED
    BY <2>1, <2>2
<1>7. ASSUME NEW h \in DOMAIN L, NEW x \in L[h]
      PROVE  /\ Entered(e2, qq, h) => c[x] = r[x] - e2[x]
             /\ ~Entered(e2, qq, h) => c[x] = Unseen
  <2>0. x \in Block /\ h \in Block
    BY <1>3
  <2>1. Entered(e2, qq, h) <=> Entered(ev, q, h)
    <3>1. CASE h = b
      BY <3>1, <1>1 DEF Entered
    <3>2. CASE h # b
      BY <3>2, <2>0, <1>1 DEF Entered
    <3> QED
      BY <3>1, <3>2
  <2>2. CASE x = b
    <3>1. Entered(ev, q, h)
      BY <2>2, EnteredFacts
    <3>2. ec[b] = r[b] - ev[b]
      BY <3>1, <2>2, <1>2
    <3> QED
      BY <3>1, <3>2, <2>0, <2>1, <2>2, <1>1, <1>3, <1>5
  <2>3. CASE x # b
    <3>1. c[x] = ec[x] /\ e2[x] = ev[x]
      BY <2>0, <2>3, <1>1, <1>5
    <3> QED
      BY <3>1, <2>1, <1>2
  <2> QED
    BY <2>2, <2>3
<1>8. CountsFit(g, L, r, e2, qq, c)
  BY <1>5, <1>6, <1>7 DEF CountsFit
<1> QED
  BY <1>2, <1>4, <1>8 DEF e2

(***************************************************************************)
(* followEdge decides by the counts what the schedule says.                *)
(***************************************************************************)
\* The loop around the blocks of a set, where no loop is in another.
LEMMA PlainLoopAround ==
    ASSUME NEW g, NEW L, NEW r, Shape(g, L, r), NEW S
    PROVE  /\ (\A h \in DOMAIN L : ~(S \subseteq L[h])) => LoopAround(L, S) = NoBlock
           /\ \A h \in DOMAIN L : S \subseteq L[h] /\ S # {} =>
                 LoopAround(L, S) = h /\ h # NoBlock
<1>1. /\ \A h, k \in DOMAIN L : \A b \in L[h] : b \in L[k] => h = k
      /\ \A h \in DOMAIN L : h \in Block /\ h \in L[h]
      /\ NoBlock \notin Block
  BY EdgeFacts, BlockFacts DEF Shape
<1> DEFINE around == {h \in DOMAIN L : S \subseteq L[h]}
<1>2. LoopAround(L, S) = IF around = {} THEN NoBlock
                         ELSE CHOOSE h \in around : \A l \in around : h \in L[l]
  BY DEF LoopAround
<1>3. ASSUME NEW h \in DOMAIN L, S \subseteq L[h], S # {}
      PROVE  LoopAround(L, S) = h /\ h # NoBlock
  <2>1. around = {h}
    <3>1. PICK x \in S : TRUE
      BY <1>3
    <3> QED
      BY <3>1, <1>1, <1>3
  <2>2. h \in L[h] /\ h # NoBlock
    BY <1>1
  <2>3. (CHOOSE k \in around : \A l \in around : k \in L[l]) = h
    <3> HIDE DEF around
    <3> QED
      BY <2>1, <2>2
  <2> HIDE DEF around
  <2> QED
    BY <2>1, <2>2, <2>3, <1>2
<1> QED
  BY <1>2, <1>3

\* The loop around one block, and the edges that followEdge takes to be back edges.
LEMMA AroundFacts ==
    ASSUME NEW r, Shape(Graph, Loops, r)
    PROVE  /\ \A b \in Block : Outside(Loops, b) => LoopAround(Loops, {b}) = NoBlock
           /\ \A h \in DOMAIN Loops : \A b \in Loops[h] :
                 LoopAround(Loops, {b}) = h /\ h # NoBlock
           /\ \A ec : \A b, d \in Block :
                 HasUnvisitedPred(ec, b, d) <=>
                 \E p \in Before(Graph, Loops, d) : ec[p] = Unseen \/ ec[p] > ec[b]
<1>1. /\ \A h, k \in DOMAIN Loops : \A b \in Loops[h] : b \in Loops[k] => h = k
      /\ \A h \in DOMAIN Loops : h \in Loops[h]
  BY EdgeFacts DEF Shape
<1>2. ASSUME NEW b \in Block, Outside(Loops, b) PROVE LoopAround(Loops, {b}) = NoBlock
  <2>1. \A h \in DOMAIN Loops : ~({b} \subseteq Loops[h])
    BY <1>2 DEF Outside
  <2> QED
    BY <2>1, PlainLoopAround
<1>3. ASSUME NEW h \in DOMAIN Loops, NEW b \in Loops[h]
      PROVE  LoopAround(Loops, {b}) = h /\ h # NoBlock
  <2>1. {b} \subseteq Loops[h] /\ {b} # {}
    OBVIOUS
  <2> QED
    BY <2>1, PlainLoopAround
<1>4. ASSUME NEW p \in Block, NEW d \in Block
      PROVE  IsLoopBackEdge(p, d) <=> d \in DOMAIN Loops /\ p \in Loops[d]
  <2>1. CASE d \in DOMAIN Loops /\ p \in Loops[d]
    <3>1. {p, d} \subseteq Loops[d] /\ {p, d} # {}
      BY <2>1, <1>1
    <3>2. LoopAround(Loops, {p, d}) # NoBlock
      BY <3>1, <2>1, PlainLoopAround
    <3> QED
      BY <3>2, <2>1 DEF IsLoopBackEdge
  <2>2. CASE d \in DOMAIN Loops /\ p \notin Loops[d]
    <3>1. \A h \in DOMAIN Loops : ~({p, d} \subseteq Loops[h])
      BY <2>2, <1>1
    <3>2. LoopAround(Loops, {p, d}) = NoBlock
      BY <3>1, PlainLoopAround
    <3> QED
      BY <3>2, <2>2 DEF IsLoopBackEdge
  <2> QED
    BY <2>1, <2>2 DEF IsLoopBackEdge
<1>5. ASSUME NEW ec, NEW b \in Block, NEW d \in Block
      PROVE  HasUnvisitedPred(ec, b, d) <=>
             \E p \in Before(Graph, Loops, d) : ec[p] = Unseen \/ ec[p] > ec[b]
  <2>1. \A p : p \in Preds(Graph, d) /\ ~IsLoopBackEdge(p, d) <=> p \in Before(Graph, Loops, d)
    BY <1>4 DEF Preds, Before, Ahead
  <2> QED
    BY <2>1 DEF HasUnvisitedPred
<1> QED
  BY <1>2, <1>3, <1>5

\* The blocks the exits of the loops lead to have had their turn.
NoneOpen(g, L, r, ev) ==
    \A h \in DOMAIN L : ev[h] > 0 =>
        \A p \in L[h] : \A c \in Succs(g, p) : Outside(L, c) =>
            \A x \in Before(g, L, c) : ev[x] = r[x]

\* r is how often followEdge says that the blocks of the loops are evaluated.
CountsOf(r) ==
    \A h \in DOMAIN Loops : \A b \in Loops[h] :
        r[b] = IF b = h /\ Exiting(Graph, Loops, h, h)
               THEN EnteringCount(Top.func, h) + 1 ELSE EnteringCount(Top.func, h)

(***************************************************************************)
(* The edges of b are followed one after the other; Z are those taken so   *)
(* far, and ec the counts then.                                            *)
(***************************************************************************)
Taken(g, L, r, ev, q, b, Z) ==
    (q \ {b}) \cup {d \in Z : Ready(g, L, r, After(ev, b), b, d)}

Midway(r, ev, q, b, Z, ec) ==
    /\ Shape(Graph, Loops, r) /\ CountsOf(r)
    /\ Schedule(Graph, Loops, r, ev, q) /\ b \in q
    /\ Outside(Loops, b) => NoneOpen(Graph, Loops, r, ev)
    /\ Z \subseteq Succs(Graph, b)
    /\ CountsFit(Graph, Loops, r, After(ev, b), Taken(Graph, Loops, r, ev, q, b, Z), ec)

\* What is known then.
LEMMA MidwayFacts ==
    ASSUME NEW r, NEW ev, NEW q, NEW b, NEW Z, NEW ec, Midway(r, ev, q, b, Z, ec),
           NEW e2, e2 = After(ev, b), NEW qq, qq = Taken(Graph, Loops, r, ev, q, b, Z)
    PROVE  /\ Shape(Graph, Loops, r) /\ Schedule(Graph, Loops, r, ev, q) /\ b \in q
           /\ b \in Block /\ ev[b] < r[b] /\ e2[b] = ev[b] + 1
           /\ \A x \in Block : e2[x] \in Nat /\ ev[x] \in Nat /\ (x # b => e2[x] = ev[x])
           /\ \A x \in Block : e2[x] <= r[x] /\ (x \in qq => e2[x] < r[x])
           /\ q \ {b} \subseteq qq
           /\ \A h \in DOMAIN Loops : \A x \in Loops[h] : e2[x] <= e2[h]
           /\ \A x \in Block : \A p \in Before(Graph, Loops, x) :
                 ~SameLoop(Loops, p, x) /\ e2[x] > 0 => e2[p] = r[p]
           /\ \A h \in DOMAIN Loops : b \in Loops[h] => e2[h] > 0
           /\ \A x : x \in qq <=> \/ x \in q /\ x # b
                                  \/ x \in Z /\ Ready(Graph, Loops, r, e2, b, x)
<1>1. /\ Shape(Graph, Loops, r) /\ Schedule(Graph, Loops, r, ev, q) /\ b \in q
      /\ Z \subseteq Succs(Graph, b)
  BY DEF Midway
<1> DEFINE q2 == Onward(Graph, Loops, r, ev, q, b)
<1>2. /\ b \in Block /\ ev[b] < r[b] /\ e2[b] = ev[b] + 1
      /\ \A x \in Block : e2[x] \in Nat /\ ev[x] \in Nat /\ (x # b => e2[x] = ev[x])
      /\ q2 \subseteq Block
      /\ \A x : x \in q2 <=> \/ x \in q /\ x # b
                             \/ x \in Succs(Graph, b) /\ Ready(Graph, Loops, r, e2, b, x)
  BY <1>1, AfterFacts
<1>3. Schedule(Graph, Loops, r, e2, q2)
  BY <1>1, ScheduleAfter
<1> HIDE DEF q2
<1>4. \A x : x \in qq <=> \/ x \in q /\ x # b
                          \/ x \in Z /\ Ready(Graph, Loops, r, e2, b, x)
  BY DEF Taken
<1>5. qq \subseteq q2 /\ q \ {b} \subseteq qq
  BY <1>1, <1>2, <1>4
<1>6. \A x \in Block : e2[x] <= r[x] /\ (x \in qq => e2[x] < r[x])
  BY <1>3, <1>5 DEF Schedule, Bounded
<1>7. ASSUME NEW h \in DOMAIN Loops, NEW x \in Loops[h] PROVE e2[x] <= e2[h]
  <2>1. CASE x = h
    <3>1. h \in Block
      BY <1>1, EdgeFacts
    <3> QED
      BY <3>1, <2>1, <1>2
  <2>2. CASE x # h
    BY <2>2, <1>3 DEF Schedule, InRounds, RoundOf
  <2> QED
    BY <2>1, <2>2
<1>8. \A x \in Block : \A p \in Before(Graph, Loops, x) :
         ~SameLoop(Loops, p, x) /\ e2[x] > 0 => e2[p] = r[p]
  BY <1>3 DEF Schedule, AfterAll
<1>9. ASSUME NEW h \in DOMAIN Loops, b \in Loops[h] PROVE e2[h] > 0
  <2>1. h \in Block
    BY <1>1, EdgeFacts
  <2>2. e2[b] <= e2[h] /\ e2[b] > 0
    BY <1>2, <1>7, <1>9
  <2> QED
    BY <2>1, <2>2, <1>2
<1> QED
  BY <1>1, <1>2, <1>4, <1>5, <1>6, <1>7, <1>8, <1>9

\* What following the edge to d does, and when it leads on.
EdgeOK(r, ev, q, b, Z, d, f) ==
    /\ f.go <=> Ready(Graph, Loops, r, After(ev, b), b, d)
    /\ CountsFit(Graph, Loops, r, After(ev, b), Taken(Graph, Loops, r, ev, q, b, Z \cup {d}), f.ec)

\* The blocks to be evaluated, with d or without it.
LEMMA TakenMore ==
    ASSUME NEW r, NEW ev, NEW q, NEW b, NEW Z, NEW ec, Midway(r, ev, q, b, Z, ec),
           NEW d \in Succs(Graph, b), d \notin Z,
           NEW qq, qq = Taken(Graph, Loops, r, ev, q, b, Z),
           NEW q3, q3 = Taken(Graph, Loops, r, ev, q, b, Z \cup {d})
    PROVE  /\ d \in Block /\ d \notin qq
           /\ Ready(Graph, Loops, r, After(ev, b), b, d) => q3 = qq \cup {d}
           /\ ~Ready(Graph, Loops, r, After(ev, b), b, d) => q3 = qq
<1>1. /\ Shape(Graph, Loops, r) /\ Schedule(Graph, Loops, r, ev, q) /\ b \in q /\ b \in Block
      /\ \A x : x \in qq <=> \/ x \in q /\ x # b
                             \/ x \in Z /\ Ready(Graph, Loops, r, After(ev, b), b, x)
  BY MidwayFacts
<1>2. d \in Block /\ d \notin qq
  BY <1>1, EdgeFacts, Fresh
<1>3. \A x : x \in q3 <=> \/ x \in q /\ x # b
                          \/ x \in Z \cup {d} /\ Ready(Graph, Loops, r, After(ev, b), b, x)
  BY DEF Taken
<1> HIDE DEF Ready
<1>4. ASSUME Ready(Graph, Loops, r, After(ev, b), b, d) PROVE q3 = qq \cup {d}
  <2>1. \A x : x \in q3 <=> x \in qq \cup {d}
    BY <1>1, <1>3, <1>4
  <2> QED
    BY <2>1
<1>5. ASSUME ~Ready(Graph, Loops, r, After(ev, b), b, d) PROVE q3 = qq
  <2>1. \A x : x \in q3 <=> x \in qq
    BY <1>1, <1>3, <1>5
  <2> QED
    BY <2>1
<1> QED
  BY <1>2, <1>4, <1>5

\* The parts of CountsFit, with the loops' entries unfolded.
LEMMA FitFacts ==
    ASSUME NEW g, NEW L, NEW r, NEW ev, NEW q, NEW ec
    PROVE  CountsFit(g, L, r, ev, q, ec) <=>
    /\ ec \in Counts
    /\ \A b \in Block : Outside(L, b) =>
          /\ b \in q => ec[b] = 1
          /\ ev[b] > 0 => ec[b] = 0
          /\ ev[b] = 0 /\ b \notin q =>
                \/ ec[b] = Unseen
                \/ ec[b] = 0 /\ \E h \in DOMAIN L : ev[h] > 0
                                   /\ \E p \in L[h] : b \in Succs(g, p)
    /\ \A h \in DOMAIN L : \A b \in L[h] :
          /\ h \in q \/ ev[h] > 0 => ec[b] = r[b] - ev[b]
          /\ ~(h \in q \/ ev[h] > 0) => ec[b] = Unseen
BY DEF CountsFit, Entered

\* A block outside of loops that is to be evaluated gets a count of 1.
LEMMA FitOnce ==
    ASSUME NEW g, NEW L, NEW r, Shape(g, L, r), NEW ev, NEW q, NEW ec, CountsFit(g, L, r, ev, q, ec),
           NEW d \in Block, Outside(L, d), ev[d] = 0
    PROVE  CountsFit(g, L, r, ev, q \cup {d}, [ec EXCEPT ![d] = 1])
<1> DEFINE c == [ec EXCEPT ![d] = 1]
<1>1. /\ ec \in Counts
      /\ \A b \in Block : Outside(L, b) =>
            /\ b \in q => ec[b] = 1
            /\ ev[b] > 0 => ec[b] = 0
            /\ ev[b] = 0 /\ b \notin q =>
                  \/ ec[b] = Unseen
                  \/ ec[b] = 0 /\ \E h \in DOMAIN L : ev[h] > 0
                                     /\ \E p \in L[h] : b \in Succs(g, p)
      /\ \A h \in DOMAIN L : \A b \in L[h] :
            /\ h \in q \/ ev[h] > 0 => ec[b] = r[b] - ev[b]
            /\ ~(h \in q \/ ev[h] > 0) => ec[b] = Unseen
  BY FitFacts
<1>2. c \in Counts /\ c[d] = 1 /\ \A b \in Block : b # d => c[b] = ec[b]
  BY <1>1 DEF Counts
<1> HIDE DEF c
<1>3. \A h \in DOMAIN L : h # d /\ \A b \in L[h] : b # d /\ b \in Block
  BY DEF Outside, Shape
<1>4. ASSUME NEW b \in Block, Outside(L, b)
      PROVE  /\ b \in q \cup {d} => c[b] = 1
             /\ ev[b] > 0 => c[b] = 0
             /\ ev[b] = 0 /\ b \notin q \cup {d} =>
                   \/ c[b] = Unseen
                   \/ c[b] = 0 /\ \E h \in DOMAIN L : ev[h] > 0
                                     /\ \E p \in L[h] : b \in Succs(g, p)
  <2>1. CASE b = d
    BY <2>1, <1>2
  <2>2. CASE b # d
    BY <2>2, <1>1, <1>2, <1>4
  <2> QED
    BY <2>1, <2>2
<1>5. ASSUME NEW h \in DOMAIN L, NEW b \in L[h]
      PROVE  /\ h \in q \cup {d} \/ ev[h] > 0 => c[b] = r[b] - ev[b]
             /\ ~(h \in q \cup {d} \/ ev[h] > 0) => c[b] = Unseen
  BY <1>1, <1>2, <1>3
<1>6. CountsFit(g, L, r, ev, q \cup {d}, c)
  BY <1>2, <1>4, <1>5, FitFacts
<1> QED
  BY <1>6 DEF c

\* A block outside of loops that a loop leads to may get an entry.
LEMMA FitTouched ==
    ASSUME NEW g, NEW L, NEW r, Shape(g, L, r), NEW ev, NEW q, NEW ec, CountsFit(g, L, r, ev, q, ec),
           NEW d \in Block, Outside(L, d), d \notin q, ev[d] = 0,
           NEW k \in DOMAIN L, ev[k] > 0, NEW p \in L[k], d \in Succs(g, p)
    PROVE  CountsFit(g, L, r, ev, q, Touch(ec, d))
<1> DEFINE c == Touch(ec, d)
<1>1. /\ ec \in Counts
      /\ \A b \in Block : Outside(L, b) =>
            /\ b \in q => ec[b] = 1
            /\ ev[b] > 0 => ec[b] = 0
            /\ ev[b] = 0 /\ b \notin q =>
                  \/ ec[b] = Unseen
                  \/ ec[b] = 0 /\ \E h \in DOMAIN L : ev[h] > 0
                                     /\ \E x \in L[h] : b \in Succs(g, x)
      /\ \A h \in DOMAIN L : \A b \in L[h] :
            /\ h \in q \/ ev[h] > 0 => ec[b] = r[b] - ev[b]
            /\ ~(h \in q \/ ev[h] > 0) => ec[b] = Unseen
  BY FitFacts
<1>2. ec[d] = Unseen \/ ec[d] = 0
  BY <1>1
<1>3. c \in Counts /\ c[d] = 0 /\ \A b \in Block : b # d => c[b] = ec[b]
  BY <1>1, <1>2 DEF Touch, Counts
<1> HIDE DEF c
<1>4. \A h \in DOMAIN L : h # d /\ \A b \in L[h] : b # d /\ b \in Block
  BY DEF Outside, Shape
<1>5. ASSUME NEW b \in Block, Outside(L, b)
      PROVE  /\ b \in q => c[b] = 1
             /\ ev[b] > 0 => c[b] = 0
             /\ ev[b] = 0 /\ b \notin q =>
                   \/ c[b] = Unseen
                   \/ c[b] = 0 /\ \E h \in DOMAIN L : ev[h] > 0
                                     /\ \E x \in L[h] : b \in Succs(g, x)
  <2>1. CASE b = d
    BY <2>1, <1>3
  <2>2. CASE b # d
    BY <2>2, <1>1, <1>3, <1>5
  <2> QED
    BY <2>1, <2>2
<1>6. ASSUME NEW h \in DOMAIN L, NEW b \in L[h]
      PROVE  /\ h \in q \/ ev[h] > 0 => c[b] = r[b] - ev[b]
             /\ ~(h \in q \/ ev[h] > 0) => c[b] = Unseen
  BY <1>1, <1>3, <1>4
<1>7. CountsFit(g, L, r, ev, q, c)
  BY <1>3, <1>5, <1>6, FitFacts
<1> QED
  BY <1>7 DEF c

\* The blocks of a loop that is entered get the counts of all its rounds.
LEMMA FitEntered ==
    ASSUME NEW r, Shape(Graph, Loops, r), CountsOf(r), NEW ev, NEW q, NEW ec,
           CountsFit(Graph, Loops, r, ev, q, ec),
           NEW h \in DOMAIN Loops, \A b \in Loops[h] : ev[b] = 0
    PROVE  CountsFit(Graph, Loops, r, ev, q \cup {h}, EnterLoop(ec, h))
<1> DEFINE c == EnterLoop(ec, h)
<1>1. /\ ec \in Counts
      /\ \A b \in Block : Outside(Loops, b) =>
            /\ b \in q => ec[b] = 1
            /\ ev[b] > 0 => ec[b] = 0
            /\ ev[b] = 0 /\ b \notin q =>
                  \/ ec[b] = Unseen
                  \/ ec[b] = 0 /\ \E k \in DOMAIN Loops : ev[k] > 0
                                     /\ \E p \in Loops[k] : b \in Succs(Graph, p)
      /\ \A k \in DOMAIN Loops : \A b \in Loops[k] :
            /\ k \in q \/ ev[k] > 0 => ec[b] = r[b] - ev[b]
            /\ ~(k \in q \/ ev[k] > 0) => ec[b] = Unseen
  BY FitFacts
<1>2. /\ \A k, l \in DOMAIN Loops : \A b \in Loops[k] : b \in Loops[l] => k = l
      /\ \A b \in Block : r[b] \in Nat
      /\ \A k \in DOMAIN Loops : k \in Loops[k] /\ \A b \in Loops[k] : b \in Block
  BY EdgeFacts DEF Shape
<1>3. \A b \in Block : c[b] = IF b \in Loops[h] THEN r[b] ELSE ec[b]
  BY DEF CountsOf, EnterLoop
<1>4. c \in Counts
  <2>1. c = [b \in Block |-> c[b]]
    BY DEF EnterLoop
  <2>2. \A b \in Block : ec[b] \in Nat \cup {Unseen}
    BY <1>1 DEF Counts
  <2> HIDE DEF c
  <2>3. \A b \in Block : c[b] \in Nat \cup {Unseen}
    BY <2>2, <1>2, <1>3
  <2> QED
    BY <2>1, <2>3 DEF Counts
<1> HIDE DEF c
<1>5. ASSUME NEW b \in Block, Outside(Loops, b)
      PROVE  /\ b \in q \cup {h} => c[b] = 1
             /\ ev[b] > 0 => c[b] = 0
             /\ ev[b] = 0 /\ b \notin q \cup {h} =>
                   \/ c[b] = Unseen
                   \/ c[b] = 0 /\ \E k \in DOMAIN Loops : ev[k] > 0
                                     /\ \E p \in Loops[k] : b \in Succs(Graph, p)
  <2>1. b \notin Loops[h] /\ b # h
    BY <1>2, <1>5 DEF Outside
  <2>2. c[b] = ec[b]
    BY <2>1, <1>3
  <2> QED
    BY <2>1, <2>2, <1>1, <1>5
<1>6. ASSUME NEW k \in DOMAIN Loops, NEW b \in Loops[k]
      PROVE  /\ k \in q \cup {h} \/ ev[k] > 0 => c[b] = r[b] - ev[b]
             /\ ~(k \in q \cup {h} \/ ev[k] > 0) => c[b] = Unseen
  <2>1. CASE k = h
    <3>1. c[b] = r[b] /\ ev[b] = 0 /\ r[b] \in Nat
      BY <2>1, <1>2, <1>3
    <3> QED
      BY <3>1, <2>1
  <2>2. CASE k # h
    <3>1. c[b] = ec[b]
      BY <2>2, <1>2, <1>3
    <3> QED
      BY <3>1, <2>2, <1>1
  <2> QED
    BY <2>1, <2>2
<1>7. CountsFit(Graph, Loops, r, ev, q \cup {h}, c)
  BY <1>4, <1>5, <1>6, FitFacts
<1> QED
  BY <1>7 DEF c

\* An edge from outside of the loops.
LEMMA EdgeFromOutside ==
    ASSUME NEW r, NEW ev, NEW q, NEW b, NEW Z, NEW ec, Midway(r, ev, q, b, Z, ec),
           NEW d \in Succs(Graph, b), d \notin Z, Outside(Loops, b),
           NEW f, f = FollowEdge(ec, b, d)
    PROVE  EdgeOK(r, ev, q, b, Z, d, f)
<1> DEFINE e2 == After(ev, b)
           qq == Taken(Graph, Loops, r, ev, q, b, Z)
           go == Ready(Graph, Loops, r, e2, b, d)
           q3 == Taken(Graph, Loops, r, ev, q, b, Z \cup {d})
           dl == LoopAround(Loops, {d})
<1>1. /\ Shape(Graph, Loops, r) /\ Schedule(Graph, Loops, r, ev, q) /\ b \in q
      /\ b \in Block /\ ev[b] < r[b] /\ e2[b] = ev[b] + 1
      /\ \A x \in Block : e2[x] \in Nat /\ ev[x] \in Nat /\ (x # b => e2[x] = ev[x])
      /\ \A x \in Block : e2[x] <= r[x] /\ (x \in qq => e2[x] < r[x])
      /\ q \ {b} \subseteq qq
      /\ \A h \in DOMAIN Loops : \A x \in Loops[h] : e2[x] <= e2[h]
  BY MidwayFacts
<1>2. /\ d \in Block /\ d \notin qq
      /\ go => q3 = qq \cup {d}
      /\ ~go => q3 = qq
  BY TakenMore
<1>3. ~SameLoop(Loops, b, d)
  BY DEF Outside, SameLoop
<1>4. b \in Before(Graph, Loops, d) /\ d \notin q /\ ev[d] = 0 /\ d # b
      /\ (Outside(Loops, d) \/ d \in DOMAIN Loops)
  BY <1>1, <1>3, NotYet
<1>5. CountsFit(Graph, Loops, r, e2, qq, ec) /\ NoneOpen(Graph, Loops, r, ev) /\ CountsOf(r)
  BY DEF Midway
<1>6. go <=> \A p \in Before(Graph, Loops, d) : e2[p] = r[p]
  <2>1. ~BackReady(Loops, r, e2, b, d) /\ ~BodyReady(Graph, Loops, r, e2, b, d)
    BY <1>3 DEF BackReady, BodyReady, Outside
  <2> QED
    BY <2>1, <1>3 DEF Ready, OnceReady
<1> HIDE DEF e2, qq, go, q3
<1>7. /\ ec \in Counts
      /\ \A x \in Block : Outside(Loops, x) =>
          /\ x \in qq => ec[x] = 1
          /\ e2[x] > 0 => ec[x] = 0
          /\ e2[x] = 0 /\ x \notin qq =>
                \/ ec[x] = Unseen
                \/ ec[x] = 0 /\ \E h \in DOMAIN Loops : e2[h] > 0
                                   /\ \E p \in Loops[h] : x \in Succs(Graph, p)
      /\ \A h \in DOMAIN Loops : \A x \in Loops[h] :
          /\ h \in qq \/ e2[h] > 0 => ec[x] = r[x] - e2[x]
          /\ ~(h \in qq \/ e2[h] > 0) => ec[x] = Unseen
  BY <1>5, FitFacts
<1>8. /\ \A x \in Block : r[x] \in Nat /\ r[x] > 0 /\ (Outside(Loops, x) => r[x] = 1)
      /\ \A h \in DOMAIN Loops : h \in Block /\ h \in Loops[h] /\ \A x \in Loops[h] : x \in Block
      /\ Unseen \notin Nat
  BY <1>1, EdgeFacts, TripCountAssumption DEF Shape
<1>9. ec[b] = 0
  BY <1>1, <1>7
<1>10. ASSUME NEW p \in Before(Graph, Loops, d)
       PROVE  (ec[p] = Unseen \/ ec[p] > ec[b]) <=> e2[p] # r[p]
  <2>0. p \in Block
    BY DEF Before
  <2>1. CASE Outside(Loops, p) /\ e2[p] > 0
    <3>1. ec[p] = 0 /\ e2[p] = r[p]
      BY <2>0, <2>1, <1>1, <1>7, <1>8
    <3> QED
      BY <3>1, <1>8, <1>9
  <2>2. CASE Outside(Loops, p) /\ p \in qq
    <3>1. ec[p] = 1 /\ e2[p] # r[p]
      BY <2>0, <2>2, <1>1, <1>7, <1>8
    <3> QED
      BY <3>1, <1>9
  <2>3. CASE Outside(Loops, p) /\ ~(e2[p] > 0) /\ p \notin qq
    <3>1. e2[p] = 0 /\ e2[p] # r[p]
      BY <2>0, <2>3, <1>1, <1>8
    <3>2. SUFFICES ASSUME ec[p] # Unseen PROVE FALSE
      BY <3>1
    <3>3. PICK h \in DOMAIN Loops : e2[h] > 0 /\ \E x \in Loops[h] : p \in Succs(Graph, x)
      BY <2>0, <2>3, <3>1, <3>2, <1>7
    <3>4. h # b /\ h \in Block /\ ev[h] > 0
      BY <3>3, <1>1, <1>8 DEF Outside
    <3>5. \A x \in Before(Graph, Loops, p) : ev[x] = r[x]
      BY <2>3, <3>3, <3>4, <1>5 DEF NoneOpen
    <3>6. p # b
      BY <3>1, <1>1
    <3>7. ev[p] = 0
      BY <2>0, <3>1, <3>6, <1>1
    <3>8. p \in q
      BY <2>0, <2>3, <3>5, <3>7, <1>1 DEF Schedule, DueOnce
    <3> QED
      BY <3>6, <3>8, <2>3, <1>1
  <2>4. ASSUME NEW h \in DOMAIN Loops, p \in Loops[h]
        PROVE  (ec[p] = Unseen \/ ec[p] > ec[b]) <=> e2[p] # r[p]
    <3>1. CASE h \in qq \/ e2[h] > 0
      <4>1. ec[p] = r[p] - e2[p]
        BY <2>4, <3>1, <1>7
      <4>2. r[p] \in Nat /\ e2[p] \in Nat /\ e2[p] <= r[p]
        BY <2>0, <1>1, <1>8
      <4>3. ec[p] \in Nat
        BY <4>1, <4>2
      <4> QED
        BY <4>1, <4>2, <4>3, <1>8, <1>9
    <3>2. CASE ~(h \in qq \/ e2[h] > 0)
      <4>1. ec[p] = Unseen
        BY <2>4, <3>2, <1>7
      <4>2. e2[p] <= e2[h] /\ e2[h] \in Nat /\ e2[p] \in Nat /\ r[p] > 0
        BY <2>0, <2>4, <1>1, <1>8
      <4> QED
        BY <3>2, <4>1, <4>2
    <3> QED
      BY <3>1, <3>2
  <2> QED
    BY <2>1, <2>2, <2>3, <2>4 DEF Outside
<1>11. HasUnvisitedPred(ec, b, d) <=> ~go
  <2>1. HasUnvisitedPred(ec, b, d) <=>
             \E p \in Before(Graph, Loops, d) : ec[p] = Unseen \/ ec[p] > ec[b]
    BY <1>1, <1>2, AroundFacts
  <2> QED
    BY <2>1, <1>6, <1>10
<1>12. CASE ~go
  <2>1. f = [go |-> FALSE, ec |-> ec]
    BY <1>11, <1>12 DEF FollowEdge
  <2>2. f.go = FALSE /\ f.ec = ec
    BY <2>1
  <2>3. CountsFit(Graph, Loops, r, e2, q3, f.ec)
    BY <2>2, <1>2, <1>5, <1>12
  <2> QED
    BY <2>2, <2>3, <1>12 DEF EdgeOK, e2, go, q3
<1>13. e2[d] = 0 /\ LoopAround(Loops, {b}) = NoBlock
  BY <1>1, <1>2, <1>4, AroundFacts
<1>14. CASE go /\ Outside(Loops, d)
  <2>1. dl = NoBlock
    BY <1>1, <1>2, <1>14, AroundFacts
  <2>2. f = [go |-> TRUE, ec |-> [ec EXCEPT ![d] = 1]]
    BY <2>1, <1>11, <1>13, <1>14 DEF FollowEdge
  <2>3. f.go = TRUE /\ f.ec = [ec EXCEPT ![d] = 1]
    BY <2>2
  <2>4. CountsFit(Graph, Loops, r, e2, qq \cup {d}, [ec EXCEPT ![d] = 1])
    BY <1>1, <1>2, <1>5, <1>13, <1>14, FitOnce
  <2>5. CountsFit(Graph, Loops, r, e2, q3, f.ec)
    BY <2>3, <2>4, <1>2, <1>14
  <2> QED
    BY <2>3, <2>5, <1>14 DEF EdgeOK, e2, go, q3
<1>15. CASE go /\ d \in DOMAIN Loops
  <2>1. dl = d /\ d # NoBlock /\ b \notin Loops[d]
    BY <1>1, <1>8, <1>15, AroundFacts DEF Outside
  <2>2. f = [go |-> TRUE, ec |-> EnterLoop(ec, d)]
    BY <2>1, <1>11, <1>15 DEF FollowEdge
  <2>3. f.go = TRUE /\ f.ec = EnterLoop(ec, d)
    BY <2>2
  <2>4. \A x \in Loops[d] : e2[x] = 0
    BY <1>1, <1>8, <1>13, <1>15
  <2>5. CountsFit(Graph, Loops, r, e2, qq \cup {d}, f.ec)
    BY <2>3, <2>4, <1>1, <1>5, <1>15, FitEntered
  <2>6. CountsFit(Graph, Loops, r, e2, q3, f.ec)
    BY <2>5, <1>2, <1>15
  <2> QED
    BY <2>3, <2>6, <1>15 DEF EdgeOK, e2, go, q3
<1> QED
  BY <1>4, <1>12, <1>14, <1>15

\* An edge out of a loop.
LEMMA EdgeOut ==
    ASSUME NEW r, NEW ev, NEW q, NEW b, NEW Z, NEW ec, Midway(r, ev, q, b, Z, ec),
           NEW d \in Succs(Graph, b), d \notin Z,
           NEW k \in DOMAIN Loops, b \in Loops[k], d \notin Loops[k],
           NEW f, f = FollowEdge(ec, b, d)
    PROVE  EdgeOK(r, ev, q, b, Z, d, f)
<1> DEFINE e2 == After(ev, b)
           qq == Taken(Graph, Loops, r, ev, q, b, Z)
           go == Ready(Graph, Loops, r, e2, b, d)
           q3 == Taken(Graph, Loops, r, ev, q, b, Z \cup {d})
<1>1. /\ Shape(Graph, Loops, r) /\ Schedule(Graph, Loops, r, ev, q) /\ b \in q
      /\ b \in Block /\ ev[b] < r[b] /\ e2[b] = ev[b] + 1
      /\ \A x \in Block : e2[x] \in Nat /\ ev[x] \in Nat /\ (x # b => e2[x] = ev[x])
      /\ \A x \in Block : e2[x] <= r[x] /\ (x \in qq => e2[x] < r[x])
      /\ e2[k] > 0
  BY MidwayFacts
<1>2. /\ d \in Block /\ d \notin qq
      /\ go => q3 = qq \cup {d}
      /\ ~go => q3 = qq
  BY TakenMore
<1>3. ~SameLoop(Loops, b, d)
  BY <1>1, EdgeFacts DEF SameLoop
<1>4. b \in Before(Graph, Loops, d) /\ d \notin q /\ ev[d] = 0 /\ d # b /\ Outside(Loops, d)
  <2>1. b \in Before(Graph, Loops, d) /\ d \notin q /\ ev[d] = 0 /\ d # b
        /\ (Outside(Loops, d) \/ d \in DOMAIN Loops)
    BY <1>1, <1>3, NotYet
  <2>2. d \notin DOMAIN Loops
    BY <2>1, <1>1, EdgeFacts DEF Outside
  <2> QED
    BY <2>1, <2>2
<1>5. CountsFit(Graph, Loops, r, e2, qq, ec)
  BY DEF Midway
<1>6. go <=> \A p \in Before(Graph, Loops, d) : e2[p] = r[p]
  <2>2. d \notin DOMAIN Loops
    BY <1>1, <1>4 DEF Outside, Shape
  <2>1. ~BackReady(Loops, r, e2, b, d) /\ ~BodyReady(Graph, Loops, r, e2, b, d)
    BY <1>4, <2>2 DEF BackReady, BodyReady, Outside
  <2> QED
    BY <2>1, <2>2, <1>3 DEF Ready, OnceReady, BackReady
<1>7. Exiting(Graph, Loops, k, b)
  BY DEF Exiting
<1> HIDE DEF e2, qq, go, q3
<1>8. \A x \in Loops[k] : ec[x] = r[x] - e2[x] /\ x \in Block
  BY <1>1, <1>5, FitFacts DEF Shape
<1>9. /\ Unseen \notin Nat
      /\ \A x \in Block : r[x] \in Nat
      /\ Before(Graph, Loops, d) \subseteq Loops[k]
  BY <1>1, <1>2, <1>4, EdgeFacts, TripCountAssumption
<1>10. ASSUME NEW p \in Loops[k]
       PROVE  ec[p] \in Nat /\ (ec[p] = 0 <=> e2[p] = r[p])
  <2>1. p \in Block /\ ec[p] = r[p] - e2[p] /\ r[p] \in Nat /\ e2[p] \in Nat /\ e2[p] <= r[p]
    BY <1>1, <1>8, <1>9
  <2> QED
    BY <2>1
<1>11. HasUnvisitedPred(ec, b, d) <=> \E p \in Before(Graph, Loops, d) : ec[p] > ec[b]
  <2>1. HasUnvisitedPred(ec, b, d) <=>
             \E p \in Before(Graph, Loops, d) : ec[p] = Unseen \/ ec[p] > ec[b]
    BY <1>1, <1>2, AroundFacts
  <2>2. \A p \in Before(Graph, Loops, d) : ec[p] # Unseen
    BY <1>9, <1>10
  <2> QED
    BY <2>1, <2>2
<1>12. LoopAround(Loops, {b}) = k /\ k # NoBlock /\ LoopAround(Loops, {d}) = NoBlock
  BY <1>1, <1>2, <1>4, AroundFacts
<1>13. e2[d] = 0
  BY <1>1, <1>2, <1>4
<1>14. CASE HasUnvisitedPred(ec, b, d)
  <2>1. f.go = FALSE /\ f.ec = ec
    BY <1>14 DEF FollowEdge
  <2>2. PICK p \in Before(Graph, Loops, d) : ec[p] > ec[b]
    BY <1>11, <1>14
  <2>3. ec[p] # 0
    BY <2>2, <1>9, <1>10
  <2>4. ~go
    BY <2>2, <2>3, <1>6, <1>9, <1>10
  <2>5. CountsFit(Graph, Loops, r, e2, q3, f.ec)
    BY <2>1, <2>4, <1>2, <1>5
  <2> QED
    BY <2>1, <2>4, <2>5 DEF EdgeOK, e2, go, q3
<1>15. CASE ~HasUnvisitedPred(ec, b, d) /\ ec[b] = 0
  <2>1. f = [go |-> TRUE, ec |-> [ec EXCEPT ![d] = 1]]
    BY <1>7, <1>12, <1>15 DEF FollowEdge
  <2>2. f.go = TRUE /\ f.ec = [ec EXCEPT ![d] = 1]
    BY <2>1
  <2>3. go
    <3>1. \A p \in Before(Graph, Loops, d) : ec[p] = 0
      BY <1>9, <1>10, <1>11, <1>15
    <3> QED
      BY <3>1, <1>6, <1>9, <1>10
  <2>4. CountsFit(Graph, Loops, r, e2, qq \cup {d}, [ec EXCEPT ![d] = 1])
    BY <1>1, <1>2, <1>4, <1>5, <1>13, FitOnce
  <2>5. CountsFit(Graph, Loops, r, e2, q3, f.ec)
    BY <2>2, <2>3, <2>4, <1>2
  <2> QED
    BY <2>2, <2>3, <2>5 DEF EdgeOK, e2, go, q3
<1>16. CASE ~HasUnvisitedPred(ec, b, d) /\ ec[b] # 0
  <2>0. d \notin Loops[k]
    OBVIOUS
  <2>1. f = [go |-> Remaining(Touch(ec, d), d) /\ d \in Loops[k], ec |-> Touch(ec, d)]
    BY <1>12, <1>16 DEF FollowEdge
  <2>2. f = [go |-> FALSE, ec |-> Touch(ec, d)]
    <3>1. (Remaining(Touch(ec, d), d) /\ d \in Loops[k]) = FALSE
      BY <2>0
    <3> QED
      BY <2>1, <3>1, Zenon
  <2>6. f.go = FALSE /\ f.ec = Touch(ec, d)
    BY <2>2
  <2>3. ~go
    BY <1>4, <1>6, <1>10, <1>16
  <2>4. CountsFit(Graph, Loops, r, e2, qq, f.ec)
    BY <2>6, <1>1, <1>2, <1>4, <1>5, <1>13, FitTouched
  <2>5. CountsFit(Graph, Loops, r, e2, q3, f.ec)
    BY <2>3, <2>4, <1>2
  <2> QED
    BY <2>6, <2>3, <2>5 DEF EdgeOK, e2, go, q3
<1> QED
  BY <1>14, <1>15, <1>16

\* Inside of a loop that has been entered the counts stay as they are.
LEMMA FitInside ==
    ASSUME NEW g, NEW L, NEW r, NEW ev, NEW q, NEW ec, CountsFit(g, L, r, ev, q, ec),
           NEW h \in DOMAIN L, ev[h] > 0, NEW d \in L[h], Shape(g, L, r)
    PROVE  CountsFit(g, L, r, ev, q \cup {d}, ec)
<1>1. /\ ec \in Counts
      /\ \A b \in Block : Outside(L, b) =>
            /\ b \in q => ec[b] = 1
            /\ ev[b] > 0 => ec[b] = 0
            /\ ev[b] = 0 /\ b \notin q =>
                  \/ ec[b] = Unseen
                  \/ ec[b] = 0 /\ \E k \in DOMAIN L : ev[k] > 0
                                     /\ \E p \in L[k] : b \in Succs(g, p)
      /\ \A k \in DOMAIN L : \A b \in L[k] :
            /\ k \in q \/ ev[k] > 0 => ec[b] = r[b] - ev[b]
            /\ ~(k \in q \/ ev[k] > 0) => ec[b] = Unseen
  BY FitFacts
<1>2. \A b \in Block : Outside(L, b) => b # d
  BY DEF Outside
<1>3. \A k \in DOMAIN L : k = d => k = h
  BY EdgeFacts DEF Shape
<1>4. \A b \in Block : Outside(L, b) =>
            /\ b \in q \cup {d} => ec[b] = 1
            /\ ev[b] > 0 => ec[b] = 0
            /\ ev[b] = 0 /\ b \notin q \cup {d} =>
                  \/ ec[b] = Unseen
                  \/ ec[b] = 0 /\ \E k \in DOMAIN L : ev[k] > 0
                                     /\ \E p \in L[k] : b \in Succs(g, p)
  BY <1>1, <1>2
<1>5. \A k \in DOMAIN L : k \in q \cup {d} \/ ev[k] > 0 <=> k \in q \/ ev[k] > 0
  BY <1>3
<1>6. \A k \in DOMAIN L : \A b \in L[k] :
            /\ k \in q \cup {d} \/ ev[k] > 0 => ec[b] = r[b] - ev[b]
            /\ ~(k \in q \cup {d} \/ ev[k] > 0) => ec[b] = Unseen
  BY <1>1, <1>5
<1> QED
  BY <1>1, <1>4, <1>6, FitFacts

\* The counts of a loop whose blocks are being evaluated.
LEMMA InsideFacts ==
    ASSUME NEW r, NEW ev, NEW q, NEW b, NEW Z, NEW ec, Midway(r, ev, q, b, Z, ec),
           NEW e2, e2 = After(ev, b),
           NEW h \in DOMAIN Loops, b \in Loops[h]
    PROVE  \A x \in Loops[h] : /\ x \in Block /\ ec[x] = r[x] - e2[x]
                               /\ r[x] \in Nat /\ e2[x] \in Nat /\ e2[x] <= r[x]
                               /\ ec[x] \in Nat /\ ec[x] # Unseen
<1>1. /\ Shape(Graph, Loops, r)
      /\ \A x \in Block : e2[x] \in Nat /\ e2[x] <= r[x]
      /\ e2[h] > 0
  BY MidwayFacts
<1>2. CountsFit(Graph, Loops, r, e2, Taken(Graph, Loops, r, ev, q, b, Z), ec)
  BY DEF Midway
<1>3. /\ Unseen \notin Nat /\ \A x \in Loops[h] : x \in Block /\ r[x] \in Nat
      /\ \A x \in Loops[h] : ec[x] = r[x] - e2[x]
  BY <1>1, <1>2, FitFacts, TripCountAssumption DEF Shape
<1>4. ASSUME NEW x \in Loops[h] PROVE ec[x] \in Nat
  <2>1. ec[x] = r[x] - e2[x] /\ r[x] \in Nat /\ e2[x] \in Nat /\ e2[x] <= r[x]
    BY <1>1, <1>3
  <2> QED
    BY <2>1
<1> QED
  BY <1>1, <1>3, <1>4

\* Inside of a loop an edge is followed to a block with evaluations left, unless
\* a block before it is still to be visited.
LEMMA EdgeInside ==
    ASSUME NEW r, NEW ev, NEW q, NEW b, NEW Z, NEW ec, Midway(r, ev, q, b, Z, ec),
           NEW d \in Succs(Graph, b), d \notin Z,
           NEW h \in DOMAIN Loops, b \in Loops[h], d \in Loops[h],
           NEW f, f = FollowEdge(ec, b, d),
           Ready(Graph, Loops, r, After(ev, b), b, d) <=>
               ec[d] > 0 /\ \A p \in Before(Graph, Loops, d) : ~(ec[p] = Unseen \/ ec[p] > ec[b])
    PROVE  EdgeOK(r, ev, q, b, Z, d, f)
<1> DEFINE e2 == After(ev, b)
           qq == Taken(Graph, Loops, r, ev, q, b, Z)
           go == Ready(Graph, Loops, r, e2, b, d)
           q3 == Taken(Graph, Loops, r, ev, q, b, Z \cup {d})
<1>1. Shape(Graph, Loops, r) /\ b \in Block /\ e2[h] > 0
  BY MidwayFacts
<1>2. /\ d \in Block
      /\ go => q3 = qq \cup {d}
      /\ ~go => q3 = qq
  BY TakenMore
<1>3. CountsFit(Graph, Loops, r, e2, qq, ec)
  BY DEF Midway
<1>4. go <=> ec[d] > 0 /\ \A p \in Before(Graph, Loops, d) : ~(ec[p] = Unseen \/ ec[p] > ec[b])
  OBVIOUS
<1> HIDE DEF e2, qq, go, q3
<1>5. go <=> ec[d] > 0 /\ ~HasUnvisitedPred(ec, b, d)
  <2>1. HasUnvisitedPred(ec, b, d) <=>
             \E p \in Before(Graph, Loops, d) : ec[p] = Unseen \/ ec[p] > ec[b]
    BY <1>1, <1>2, AroundFacts
  <2> QED
    BY <2>1, <1>4
<1>6. LoopAround(Loops, {b}) = h /\ LoopAround(Loops, {d}) = h /\ h # NoBlock
  BY <1>1, AroundFacts
<1>7. b \in Loops[h] /\ d \in Loops[h] /\ ec[d] # Unseen
  BY InsideFacts
<1>8. Touch(ec, d) = ec
  BY <1>7 DEF Touch
<1>9. CountsFit(Graph, Loops, r, e2, q3, ec)
  <2>1. CountsFit(Graph, Loops, r, e2, qq \cup {d}, ec)
    BY <1>1, <1>3, <1>7, FitInside
  <2> QED
    BY <2>1, <1>2, <1>3
<1>10. CASE HasUnvisitedPred(ec, b, d)
  <2>1. f.go = FALSE /\ f.ec = ec
    BY <1>10 DEF FollowEdge
  <2>2. ~go
    BY <1>5, <1>10
  <2> QED
    BY <2>1, <2>2, <1>9 DEF EdgeOK, e2, go, q3
<1>11. CASE ~HasUnvisitedPred(ec, b, d)
  <2> DEFINE v == Remaining(ec, d) /\ d \in Loops[h]
  <2>1. f = [go |-> v, ec |-> ec]
    BY <1>6, <1>7, <1>8, <1>11 DEF FollowEdge
  <2>2. v <=> go
    BY <1>5, <1>7, <1>11 DEF Remaining
  <2>3. f.ec = ec /\ (f.go <=> go)
    <3>1. v = TRUE \/ v = FALSE
      OBVIOUS
    <3> HIDE DEF v
    <3>2. CASE v = TRUE
      <4>1. f = [go |-> TRUE, ec |-> ec]
        BY <2>1, <3>2
      <4> QED
        BY <4>1, <2>2, <3>2
    <3>3. CASE v = FALSE
      <4>1. f = [go |-> FALSE, ec |-> ec]
        BY <2>1, <3>3
      <4> QED
        BY <4>1, <2>2, <3>3
    <3> QED
      BY <3>1, <3>2, <3>3
  <2> QED
    BY <2>3, <1>9 DEF EdgeOK, e2, go, q3
<1> QED
  BY <1>10, <1>11

\* The edge back to the header of the loop.
LEMMA EdgeBack ==
    ASSUME NEW r, NEW ev, NEW q, NEW b, NEW Z, NEW ec, Midway(r, ev, q, b, Z, ec),
           NEW h \in DOMAIN Loops, h \in Succs(Graph, b), h \notin Z, b \in Loops[h],
           NEW f, f = FollowEdge(ec, b, h)
    PROVE  EdgeOK(r, ev, q, b, Z, h, f)
<1> DEFINE e2 == After(ev, b)
           qq == Taken(Graph, Loops, r, ev, q, b, Z)
           go == Ready(Graph, Loops, r, e2, b, h)
<1>1. /\ Shape(Graph, Loops, r)
      /\ \A x \in Block : e2[x] \in Nat
      /\ \A x \in Block : \A p \in Before(Graph, Loops, x) :
                 ~SameLoop(Loops, p, x) /\ e2[x] > 0 => e2[p] = r[p]
      /\ e2[h] > 0
  BY MidwayFacts
<1>2. CountsFit(Graph, Loops, r, e2, qq, ec)
  BY DEF Midway
<1>3. /\ h \in Block /\ h \in Loops[h]
      /\ \A p \in Before(Graph, Loops, h) : p \in Block /\ Outside(Loops, p)
      /\ \A k \in DOMAIN Loops : h \in Loops[k] => h = k
      /\ \A p \in Block : Outside(Loops, p) => r[p] = 1
  BY <1>1, EdgeFacts DEF Shape, Before
<1>4. /\ \A x \in Loops[h] : ec[x] = r[x] - e2[x] /\ ec[x] \in Nat /\ r[x] \in Nat /\ e2[x] \in Nat
      /\ b \in Loops[h]
  BY InsideFacts
<1>5. Unseen \notin Nat
  BY TripCountAssumption
<1>6. go <=> e2[h] < r[h]
  <2>1. SameLoop(Loops, b, h)
    BY <1>3 DEF SameLoop
  <2>2. ~OnceReady(Graph, Loops, r, e2, b, h)
    BY <2>1 DEF OnceReady
  <2>3. ~BodyReady(Graph, Loops, r, e2, b, h)
    BY <1>3 DEF BodyReady
  <2>4. BackReady(Loops, r, e2, b, h) <=> e2[h] < r[h]
    BY <1>4 DEF BackReady
  <2> QED
    BY <2>2, <2>3, <2>4 DEF Ready
<1> HIDE DEF e2, qq, go
<1>7. ASSUME NEW p \in Before(Graph, Loops, h)
      PROVE  ~(ec[p] = Unseen \/ ec[p] > ec[b])
  <2>1. p \in Block /\ Outside(Loops, p) /\ r[p] = 1
    BY <1>3
  <2>2. ~SameLoop(Loops, p, h)
    BY <2>1 DEF SameLoop, Outside
  <2>3. e2[p] = 1
    BY <2>1, <2>2, <1>1, <1>3
  <2>4. ec[p] = 0
    BY <2>1, <2>3, <1>2, FitFacts
  <2>5. ec[b] \in Nat
    BY <1>4
  <2> QED
    BY <2>4, <2>5, <1>5
<1>8. ec[h] > 0 <=> e2[h] < r[h]
  BY <1>3, <1>4
<1>9. go <=> ec[h] > 0 /\ \A p \in Before(Graph, Loops, h) : ~(ec[p] = Unseen \/ ec[p] > ec[b])
  BY <1>6, <1>7, <1>8
<1> QED
  BY <1>3, <1>9, EdgeInside DEF go, e2

\* From the header, a block is ready when the header is the only one before it.
LEMMA BodyFromHeader ==
    ASSUME NEW r, NEW ev, NEW q, NEW b, NEW Z, NEW ec, Midway(r, ev, q, b, Z, ec),
           NEW e2, e2 = After(ev, b),
           NEW h \in DOMAIN Loops, b = h, NEW d \in Succs(Graph, b), d \in Loops[h] \ {h},
           NEW p \in Before(Graph, Loops, d)
    PROVE  ec[p] > ec[b] <=> ~(e2[d] < e2[p])
<1>1. /\ Shape(Graph, Loops, r) /\ Schedule(Graph, Loops, r, ev, q) /\ b \in q
      /\ b \in Block /\ e2[b] = ev[b] + 1
      /\ \A x \in Block : e2[x] \in Nat /\ ev[x] \in Nat /\ (x # b => e2[x] = ev[x])
  BY MidwayFacts
<1>2. \A x \in Loops[h] : /\ x \in Block /\ ec[x] = r[x] - e2[x]
                          /\ r[x] \in Nat /\ e2[x] \in Nat
  BY <1>1, InsideFacts DEF Shape
<1>3. \A x \in Loops[h] \ {h} : ev[x] = ev[h]
  BY <1>1 DEF Schedule, InRounds, RoundOf
<1>4. /\ h \in Loops[h] /\ p \in Loops[h] /\ d \in Loops[h] /\ d # h
  BY <1>1, EdgeFacts DEF Shape
<1>5. PICK n \in Nat : /\ \A x \in Loops[h] \ {h} : r[x] = n
                       /\ r[h] = IF Exiting(Graph, Loops, h, h) THEN n + 1 ELSE n
  BY <1>1 DEF Shape
<1>6. CASE p = h
  <2>1. e2[d] < e2[p]
    BY <1>1, <1>2, <1>3, <1>4, <1>6
  <2>2. ~(ec[p] > ec[b])
    BY <1>2, <1>4, <1>6
  <2> QED
    BY <2>1, <2>2
<1>7. CASE p # h
  <2>1. ~Exiting(Graph, Loops, h, h)
    <3>1. SUFFICES ASSUME Exiting(Graph, Loops, h, h) PROVE FALSE
      OBVIOUS
    <3>2. PICK a \in Loops[h] : \A c \in Loops[h] : /\ c \in Succs(Graph, h) <=> c = a
                                                    /\ a \in Succs(Graph, c) <=> c = h
      BY <1>1, <3>1, LoopFacts
    <3>3. d = a
      BY <3>2, <1>4
    <3>4. d \in Succs(Graph, p)
      BY DEF Before, Ahead
    <3> QED
      BY <3>2, <3>3, <3>4, <1>4, <1>7
  <2>2. r[h] = n /\ r[p] = n /\ e2[p] = ev[h] /\ e2[d] = ev[h] /\ e2[h] = ev[h] + 1
        /\ ev[h] \in Nat
    BY <2>1, <1>1, <1>2, <1>3, <1>4, <1>5, <1>7
  <2>3. ec[p] = n - ev[h] /\ ec[b] = n - (ev[h] + 1)
    BY <2>2, <1>2, <1>4
  <2> QED
    BY <2>2, <2>3
<1> QED
  BY <1>6, <1>7

\* From another block, when all before it are in the round that block has ended.
LEMMA BodyFromBody ==
    ASSUME NEW r, NEW ev, NEW q, NEW b, NEW Z, NEW ec, Midway(r, ev, q, b, Z, ec),
           NEW e2, e2 = After(ev, b),
           NEW h \in DOMAIN Loops, b \in Loops[h] \ {h}, NEW d \in Succs(Graph, b), d \in Loops[h] \ {h},
           NEW p \in Before(Graph, Loops, d)
    PROVE  ec[p] > ec[b] <=> ~(e2[d] < e2[p])
<1>1. /\ Shape(Graph, Loops, r) /\ Schedule(Graph, Loops, r, ev, q) /\ b \in q
      /\ b \in Block /\ e2[b] = ev[b] + 1
      /\ \A x \in Block : e2[x] \in Nat /\ ev[x] \in Nat /\ (x # b => e2[x] = ev[x])
      /\ \A x \in Loops[h] : e2[x] <= e2[h]
  BY MidwayFacts
<1>2. \A x \in Loops[h] : /\ x \in Block /\ ec[x] = r[x] - e2[x]
                          /\ r[x] \in Nat /\ e2[x] \in Nat
  BY <1>1, InsideFacts DEF Shape
<1>3. /\ h \in Loops[h] /\ p \in Loops[h] /\ d \in Loops[h] /\ d # h /\ b \in Loops[h] /\ b # h
      /\ b \in Before(Graph, Loops, d) /\ d # b
  BY <1>1, EdgeFacts DEF Shape
<1>4. ev[h] = ev[b] + 1
  BY <1>1, BodyFacts
<1>5. ev[d] <= ev[b] /\ ev[h] <= ev[d] + 1
  BY <1>1, <1>3 DEF Schedule, InRounds, RoundOf
<1>6. ev[h] \in Nat /\ e2[b] = ev[h] /\ e2[h] = ev[h] /\ e2[d] + 1 = ev[h] /\ e2[p] <= ev[h]
  <2>1. ev[h] \in Nat /\ ev[b] \in Nat /\ ev[d] \in Nat
        /\ e2[h] = ev[h] /\ e2[d] = ev[d] /\ e2[p] <= e2[h]
    BY <1>1, <1>2, <1>3
  <2> QED
    BY <2>1, <1>1, <1>4, <1>5
<1>7. PICK n \in Nat : /\ \A x \in Loops[h] \ {h} : r[x] = n
                       /\ r[h] = IF Exiting(Graph, Loops, h, h) THEN n + 1 ELSE n
  BY <1>1 DEF Shape
<1>8. CASE p = h
  <2>1. ~Exiting(Graph, Loops, h, h)
    <3>1. SUFFICES ASSUME Exiting(Graph, Loops, h, h) PROVE FALSE
      OBVIOUS
    <3>2. PICK a \in Loops[h] : \A c \in Loops[h] : /\ c \in Succs(Graph, h) <=> c = a
                                                    /\ a \in Succs(Graph, c) <=> c = h
      BY <1>1, <3>1, LoopFacts
    <3>3. d \in Succs(Graph, p)
      BY DEF Before, Ahead
    <3>4. d = a
      BY <3>2, <3>3, <1>3, <1>8
    <3> QED
      BY <3>2, <3>4, <1>3
  <2>2. r[h] = n /\ r[b] = n
    BY <2>1, <1>3, <1>7
  <2>3. ec[p] = ec[b]
    BY <2>2, <1>2, <1>3, <1>6, <1>8
  <2>4. ec[b] = n - ev[h]
    BY <2>2, <1>2, <1>3, <1>6
  <2>5. ~(ec[p] > ec[b])
    BY <2>3, <2>4, <1>6
  <2>6. e2[d] \in Nat /\ e2[p] = ev[h]
    BY <1>2, <1>3, <1>6, <1>8
  <2> QED
    BY <2>5, <2>6, <1>6
<1>9. CASE p # h
  <2>1. r[p] = n /\ r[b] = n
    BY <1>3, <1>7, <1>9
  <2>2. ec[p] = n - e2[p] /\ ec[b] = n - ev[h] /\ e2[p] \in Nat /\ e2[d] \in Nat
    BY <2>1, <1>2, <1>3, <1>6
  <2> QED
    BY <2>2, <1>6
<1> QED
  BY <1>8, <1>9

\* An edge within a loop, to another block than its header.
LEMMA EdgeBody ==
    ASSUME NEW r, NEW ev, NEW q, NEW b, NEW Z, NEW ec, Midway(r, ev, q, b, Z, ec),
           NEW d \in Succs(Graph, b), d \notin Z,
           NEW h \in DOMAIN Loops, b \in Loops[h], d \in Loops[h] \ {h},
           NEW f, f = FollowEdge(ec, b, d)
    PROVE  EdgeOK(r, ev, q, b, Z, d, f)
<1> DEFINE e2 == After(ev, b)
           go == Ready(Graph, Loops, r, e2, b, d)
<1>1. Shape(Graph, Loops, r)
  BY MidwayFacts
<1>2. d \in Loops[h] /\ d # h /\ b \in Loops[h]
  OBVIOUS
<1>3. \A x \in Loops[h] : ec[x] = r[x] - e2[x] /\ ec[x] # Unseen /\ r[x] \in Nat /\ e2[x] \in Nat
  BY InsideFacts
<1>4. Before(Graph, Loops, d) \subseteq Loops[h] /\ d \notin DOMAIN Loops
  BY <1>1, <1>2, EdgeFacts
<1>5. go <=> e2[d] < r[d] /\ \A p \in Before(Graph, Loops, d) : e2[d] < e2[p]
  <2>1. SameLoop(Loops, b, d)
    BY <1>2 DEF SameLoop
  <2>2. ~OnceReady(Graph, Loops, r, e2, b, d) /\ ~BackReady(Loops, r, e2, b, d)
    BY <2>1, <1>4 DEF OnceReady, BackReady
  <2>3. BodyReady(Graph, Loops, r, e2, b, d)
            <=> e2[d] < r[d] /\ \A p \in Before(Graph, Loops, d) : e2[d] < e2[p]
    BY <1>2 DEF BodyReady
  <2> QED
    BY <2>2, <2>3 DEF Ready
<1> HIDE DEF go
<1>6. ASSUME NEW p \in Before(Graph, Loops, d)
      PROVE  (ec[p] = Unseen \/ ec[p] > ec[b]) <=> ~(e2[d] < e2[p])
  <2>1. ec[p] # Unseen
    BY <1>3, <1>4
  <2>2. ec[p] > ec[b] <=> ~(e2[d] < e2[p])
    <3>1. CASE b = h
      BY <3>1, <1>2, BodyFromHeader
    <3>2. CASE b # h
      BY <3>2, <1>2, BodyFromBody
    <3> QED
      BY <3>1, <3>2
  <2> QED
    BY <2>1, <2>2
<1>7. ec[d] > 0 <=> e2[d] < r[d]
  BY <1>2, <1>3
<1> HIDE DEF e2
<1>8. go <=> ec[d] > 0 /\ \A p \in Before(Graph, Loops, d) : ~(ec[p] = Unseen \/ ec[p] > ec[b])
  BY <1>5, <1>6, <1>7
<1> QED
  BY <1>2, <1>8, EdgeInside DEF go, e2

\* followEdge follows the edges that the schedule says, and keeps the counts right.
LEMMA EdgeFits ==
    ASSUME NEW r, NEW ev, NEW q, NEW b, NEW Z, NEW ec, Midway(r, ev, q, b, Z, ec),
           NEW d \in Succs(Graph, b), d \notin Z,
           NEW f, f = FollowEdge(ec, b, d)
    PROVE  EdgeOK(r, ev, q, b, Z, d, f)
<1>1. CASE Outside(Loops, b)
  BY <1>1, EdgeFromOutside
<1>2. ASSUME NEW h \in DOMAIN Loops, b \in Loops[h], d \notin Loops[h]
      PROVE  EdgeOK(r, ev, q, b, Z, d, f)
  BY <1>2, EdgeOut
<1>3. ASSUME NEW h \in DOMAIN Loops, b \in Loops[h], d \in Loops[h]
      PROVE  EdgeOK(r, ev, q, b, Z, d, f)
  <2>1. CASE d = h
    BY <2>1, <1>3, EdgeBack
  <2>2. CASE d # h
    BY <2>2, <1>3, EdgeBody
  <2> QED
    BY <2>1, <2>2
<1> QED
  BY <1>1, <1>2, <1>3 DEF Outside

(***************************************************************************)
(* The order of the Worklist.  A loop that has been entered is open until  *)
(* the block its exits lead to is ready; until then its blocks come before *)
(* all others.                                                             *)
(***************************************************************************)
Open(g, L, r, ev, h) ==
    /\ ev[h] > 0
    /\ \E p \in L[h] : \E c \in Succs(g, p) :
          Outside(L, c) /\ \E x \in Before(g, L, c) : ev[x] # r[x]

ComeFirst(w, X) == \A i, j \in 1..Len(w) : i < j /\ w[j] \in X => w[i] \in X

Listed(g, L, r, ev, w, q) ==
    /\ w \in Seq(Block) /\ ToSet(w) = q
    /\ \A i, j \in 1..Len(w) : w[i] = w[j] => i = j
    /\ \A h \in DOMAIN L : Open(g, L, r, ev, h) => ComeFirst(w, L[h])

\* The elements of a sequence, and of one with another element in front.
Prepended(v, d, w) ==
    /\ v \in Seq(Block) /\ Len(w) \in Nat /\ Len(v) = Len(w) + 1 /\ v[1] = d /\ v # <<>>
    /\ \A i \in 1..Len(w) : i + 1 \in 1..Len(v) /\ v[i+1] = w[i]
    /\ \A i \in 1..Len(v) : i = 1 \/ (i - 1 \in 1..Len(w) /\ v[i] = w[i-1])
    /\ ToSet(w) = {w[i] : i \in 1..Len(w)} /\ ToSet(v) = {v[i] : i \in 1..Len(v)}
    /\ ToSet(v) = ToSet(w) \cup {d}

\* It is <<d>> \o w.
LEMMA PrependFacts ==
    ASSUME NEW w \in Seq(Block), NEW d \in Block
    PROVE  Prepended(<<d>> \o w, d, w)
<1> DEFINE v == <<d>> \o w
<1>1. /\ v \in Seq(Block) /\ Len(w) \in Nat /\ Len(v) = Len(w) + 1 /\ v[1] = d
      /\ \A i \in 2..Len(v) : v[i] = w[i-1]
      /\ v # <<>> /\ DOMAIN w = 1..Len(w) /\ DOMAIN v = 1..Len(v)
  OBVIOUS
<1>2. \A i \in 1..Len(w) : i + 1 \in 1..Len(v) /\ v[i+1] = w[i]
  <2>1. \A i \in 1..Len(w) : i + 1 \in 2..Len(v) /\ i + 1 \in 1..Len(v) /\ (i + 1) - 1 = i
    BY <1>1
  <2> QED
    BY <2>1, <1>1
<1>3. \A i \in 1..Len(v) : i = 1 \/ (i - 1 \in 1..Len(w) /\ v[i] = w[i-1])
  <2>1. \A i \in 1..Len(v) : i = 1 \/ (i \in 2..Len(v) /\ i - 1 \in 1..Len(w))
    BY <1>1
  <2> QED
    BY <2>1, <1>1
<1>4. ToSet(w) = {w[i] : i \in 1..Len(w)} /\ ToSet(v) = {v[i] : i \in 1..Len(v)}
  BY <1>1 DEF ToSet
<1>5. 1 \in 1..Len(v)
  BY <1>1
<1>6. ToSet(v) = ToSet(w) \cup {d}
  <2>1. ASSUME NEW x \in ToSet(v) PROVE x \in ToSet(w) \cup {d}
    <3>1. PICK i \in 1..Len(v) : x = v[i]
      BY <2>1, <1>4
    <3> QED
      BY <3>1, <1>1, <1>3, <1>4
  <2>2. ASSUME NEW x \in ToSet(w) PROVE x \in ToSet(v)
    <3>1. PICK i \in 1..Len(w) : x = w[i]
      BY <2>2, <1>4
    <3> QED
      BY <3>1, <1>2, <1>4
  <2>3. d \in ToSet(v)
    BY <1>1, <1>4, <1>5
  <2> QED
    BY <2>1, <2>2, <2>3
<1>7. Prepended(v, d, w)
  <2> HIDE DEF v
  <2> QED
    BY <1>1, <1>2, <1>3, <1>4, <1>6 DEF Prepended
<1> QED
  BY <1>7

\* A block that is in all the open loops goes to the front.
LEMMA ListedFront ==
    ASSUME NEW g, NEW L, NEW r, NEW ev, NEW w, NEW q, Listed(g, L, r, ev, w, q),
           NEW d \in Block, d \notin q,
           \A h \in DOMAIN L : Open(g, L, r, ev, h) => d \in L[h]
    PROVE  Listed(g, L, r, ev, <<d>> \o w, q \cup {d})
<1> DEFINE v == <<d>> \o w
<1>0. v = <<d>> \o w /\ Prepended(v, d, w)
  <2>1. w \in Seq(Block)
    BY DEF Listed
  <2> QED
    BY <2>1, PrependFacts
<1> HIDE DEF v
<1>1. /\ w \in Seq(Block) /\ ToSet(w) = q
      /\ \A i, j \in 1..Len(w) : w[i] = w[j] => i = j
      /\ \A h \in DOMAIN L : Open(g, L, r, ev, h) => ComeFirst(w, L[h])
  BY DEF Listed
<1>2. /\ v \in Seq(Block) /\ Len(w) \in Nat /\ Len(v) = Len(w) + 1 /\ v[1] = d
      /\ \A i \in 1..Len(v) : i = 1 \/ (i - 1 \in 1..Len(w) /\ v[i] = w[i-1])
      /\ ToSet(w) = {w[i] : i \in 1..Len(w)}
      /\ ToSet(v) = ToSet(w) \cup {d}
  BY <1>0, <1>1 DEF Prepended
<1>3. \A i \in 1..Len(w) : w[i] # d
  BY <1>1, <1>2
<1>4. ASSUME NEW i \in 1..Len(v), NEW j \in 1..Len(v), v[i] = v[j] PROVE i = j
  <2>1. CASE i = 1 \/ j = 1
    BY <2>1, <1>2, <1>3, <1>4
  <2>2. CASE i # 1 /\ j # 1
    <3>1. /\ i - 1 \in 1..Len(w) /\ j - 1 \in 1..Len(w)
          /\ v[i] = w[i-1] /\ v[j] = w[j-1]
      BY <2>2, <1>2
    <3>2. i - 1 = j - 1
      BY <3>1, <1>1, <1>4
    <3> QED
      BY <3>2
  <2> QED
    BY <2>1, <2>2
<1>5. ASSUME NEW h \in DOMAIN L, Open(g, L, r, ev, h) PROVE ComeFirst(v, L[h])
  <2>1. d \in L[h] /\ ComeFirst(w, L[h])
    BY <1>1, <1>5
  <2>2. ASSUME NEW i \in 1..Len(v), NEW j \in 1..Len(v), i < j, v[j] \in L[h] PROVE v[i] \in L[h]
    <3>1. CASE i = 1
      BY <3>1, <2>1, <1>2
    <3>2. CASE i # 1
      <4>1. j # 1
        BY <2>2, <3>2
      <4>2. /\ i - 1 \in 1..Len(w) /\ j - 1 \in 1..Len(w)
            /\ v[i] = w[i-1] /\ v[j] = w[j-1] /\ i - 1 < j - 1
        BY <3>2, <4>1, <2>2, <1>2
      <4> QED
        BY <4>2, <2>1, <2>2 DEF ComeFirst
    <3> QED
      BY <3>1, <3>2
  <2> QED
    BY <2>2 DEF ComeFirst
<1>6. Listed(g, L, r, ev, v, q \cup {d})
  BY <1>1, <1>2, <1>4, <1>5 DEF Listed
<1> QED
  BY <1>6 DEF v

\* When a block is evaluated, no other loop is open than its own, ...
LEMMA OnlyOwnOpen ==
    ASSUME NEW g, NEW L, NEW r, Shape(g, L, r), NEW ev, NEW q, Schedule(g, L, r, ev, q),
           NEW b \in Block, NEW t \in Seq(Block), Listed(g, L, r, ev, <<b>> \o t, q),
           NEW h \in DOMAIN L, Open(g, L, r, ev, h)
    PROVE  b \in L[h]
<1> DEFINE v == <<b>> \o t
<1>0. v = <<b>> \o t /\ Prepended(v, b, t)
  BY PrependFacts
<1> HIDE DEF v
<1>1. /\ v \in Seq(Block) /\ Len(t) \in Nat /\ Len(v) = Len(t) + 1 /\ v[1] = b
      /\ \A i \in 1..Len(v) : i = 1 \/ (i - 1 \in 1..Len(t) /\ v[i] = t[i-1])
      /\ ToSet(v) = ToSet(t) \cup {b} /\ ToSet(v) = {v[i] : i \in 1..Len(v)}
  BY <1>0 DEF Prepended
<1>2. ToSet(v) = q /\ ComeFirst(v, L[h])
  BY <1>0 DEF Listed
<1>3. ev[h] > 0
  BY DEF Open
<1>4. PICK p \in L[h] : \E c \in Succs(g, p) : Outside(L, c) /\ \E x \in Before(g, L, c) : ev[x] # r[x]
  BY DEF Open
<1>12. PICK c \in Succs(g, p) : Outside(L, c) /\ \E x \in Before(g, L, c) : ev[x] # r[x]
  BY <1>4
<1>5. PICK x \in Before(g, L, c) : ev[x] # r[x]
  BY <1>12
<1>6. x \in L[h]
  <2>2. p \in Block
    BY DEF Shape
  <2>1. p \in Block /\ c \in Block
    BY <2>2, EdgeFacts
  <2> QED
    BY <2>1, <1>5, <1>12, EdgeFacts
<1>7. ~(\A y \in L[h] : y \notin q)
  BY <1>3, <1>5, <1>6, LoopDone
<1>8. PICK y \in L[h] : y \in q
  BY <1>7
<1>9. PICK j \in 1..Len(v) : v[j] = y
  BY <1>1, <1>2, <1>8
<1>10. CASE j = 1
  BY <1>1, <1>8, <1>9, <1>10
<1>11. CASE j # 1
  <2>1. 1 \in 1..Len(v) /\ 1 < j
    BY <1>1, <1>9, <1>11
  <2> QED
    BY <2>1, <1>1, <1>2, <1>8, <1>9 DEF ComeFirst
<1> QED
  BY <1>10, <1>11

\* ... and afterwards its loop is, if it is open, the only one to which it leads.
LEMMA OpenAfter ==
    ASSUME NEW g, NEW L, NEW r, Shape(g, L, r), NEW ev, NEW q, Schedule(g, L, r, ev, q),
           NEW b \in Block, NEW t \in Seq(Block), Listed(g, L, r, ev, <<b>> \o t, q), b \in q,
           NEW e2, e2 = After(ev, b),
           NEW h \in DOMAIN L, Open(g, L, r, e2, h)
    PROVE  /\ b \in L[h]
           /\ ev[h] > 0 => Open(g, L, r, ev, h)
           /\ \A d \in Succs(g, b) : Ready(g, L, r, e2, b, d) => d \in L[h]
<1>1. /\ b \in Block /\ ev[b] < r[b] /\ e2[b] = ev[b] + 1
      /\ \A x \in Block : e2[x] \in Nat /\ ev[x] \in Nat /\ (x # b => e2[x] = ev[x])
  BY AfterFacts
<1>9. PICK p \in L[h] : \E c \in Succs(g, p) : Outside(L, c) /\ \E x \in Before(g, L, c) : e2[x] # r[x]
  BY DEF Open
<1>2. PICK c \in Succs(g, p) : Outside(L, c) /\ \E x \in Before(g, L, c) : e2[x] # r[x]
  BY <1>9
<1>3. PICK x \in Before(g, L, c) : e2[x] # r[x]
  BY <1>2
<1>4. h \in Block /\ h \in L[h] /\ x \in Block /\ p \in Block /\ r[b] \in Nat
  BY <1>1, EdgeFacts DEF Shape, Before
<1>5. ev[x] # r[x]
  BY <1>1, <1>3, <1>4
<1>6. ev[h] > 0 => Open(g, L, r, ev, h)
  BY <1>2, <1>5 DEF Open
<1>7. b \in L[h]
  <2>1. CASE h = b
    BY <2>1, <1>4
  <2>2. CASE h # b
    <3>1. ev[h] > 0
      BY <2>2, <1>1, <1>4 DEF Open
    <3> QED
      BY <3>1, <1>6, OnlyOwnOpen
  <2> QED
    BY <2>1, <2>2
<1>8. ASSUME NEW d \in Succs(g, b), Ready(g, L, r, e2, b, d), d \notin L[h] PROVE FALSE
  <2>1. PICK e \in Block : ExitBlocks(g, L, h) = {e}
    BY DEF Shape, Plain, PlainLoop
  <2>2. d \in ExitBlocks(g, L, h) /\ c \in ExitBlocks(g, L, h)
    BY <1>2, <1>7, <1>8 DEF ExitBlocks, Outside
  <2>3. d = c
    BY <2>1, <2>2
  <2>4. ~BackReady(L, r, e2, b, d) /\ ~BodyReady(g, L, r, e2, b, d)
    <3>1. d \notin DOMAIN L
      BY <2>3, <1>2 DEF Outside, Shape
    <3> QED
      BY <3>1, <2>3, <1>2 DEF BackReady, BodyReady, Outside
  <2>5. OnceReady(g, L, r, e2, b, d)
    BY <2>4, <1>8 DEF Ready
  <2> QED
    BY <2>3, <2>5, <1>3 DEF OnceReady
<1> QED
  BY <1>6, <1>7, <1>8

\* The rest of the list without the block that is evaluated.
LEMMA RestListed ==
    ASSUME NEW g, NEW L, NEW r, Shape(g, L, r), NEW ev, NEW q, Schedule(g, L, r, ev, q),
           NEW b \in Block, NEW t \in Seq(Block), Listed(g, L, r, ev, <<b>> \o t, q)
    PROVE  /\ b \in q /\ Listed(g, L, r, After(ev, b), t, q \ {b})
           /\ Outside(L, b) => NoneOpen(g, L, r, ev)
<1> DEFINE v == <<b>> \o t
           e2 == After(ev, b)
<1>0. v = <<b>> \o t /\ Prepended(v, b, t)
  BY PrependFacts
<1> HIDE DEF v, e2
<1>1. /\ v \in Seq(Block) /\ Len(t) \in Nat /\ Len(v) = Len(t) + 1 /\ v[1] = b
      /\ \A i \in 1..Len(t) : i + 1 \in 1..Len(v) /\ v[i+1] = t[i]
      /\ ToSet(t) = {t[i] : i \in 1..Len(t)}
      /\ ToSet(v) = ToSet(t) \cup {b}
  BY <1>0 DEF Prepended
<1>2. /\ ToSet(v) = q
      /\ \A i, j \in 1..Len(v) : v[i] = v[j] => i = j
      /\ \A h \in DOMAIN L : Open(g, L, r, ev, h) => ComeFirst(v, L[h])
  BY <1>0 DEF Listed
<1>3. b \in q
  BY <1>1, <1>2
<1>4. 1 \in 1..Len(v) /\ \A i \in 1..Len(t) : i + 1 # 1
  BY <1>1
<1>5. \A i \in 1..Len(t) : t[i] # b
  BY <1>1, <1>2, <1>4
<1>6. ToSet(t) = q \ {b}
  <2>1. b \notin ToSet(t)
    BY <1>1, <1>5
  <2> QED
    BY <2>1, <1>1, <1>2
<1>7. ASSUME NEW i \in 1..Len(t), NEW j \in 1..Len(t), t[i] = t[j] PROVE i = j
  <2>1. i + 1 = j + 1
    BY <1>1, <1>2, <1>7
  <2> QED
    BY <2>1
<1>8. ASSUME NEW h \in DOMAIN L, Open(g, L, r, e2, h) PROVE ComeFirst(t, L[h])
  <2>1. b \in L[h] /\ (ev[h] > 0 => Open(g, L, r, ev, h))
    BY <1>3, <1>8, OpenAfter DEF e2, v
  <2>2. CASE ev[h] > 0
    <3>1. ComeFirst(v, L[h])
      BY <2>1, <2>2, <1>2
    <3>2. ASSUME NEW i \in 1..Len(t), NEW j \in 1..Len(t), i < j, t[j] \in L[h] PROVE t[i] \in L[h]
      <4>1. i + 1 \in 1..Len(v) /\ j + 1 \in 1..Len(v) /\ i + 1 < j + 1
            /\ v[i+1] = t[i] /\ v[j+1] = t[j]
        BY <3>2, <1>1
      <4> QED
        BY <4>1, <3>1, <3>2 DEF ComeFirst
    <3> QED
      BY <3>2 DEF ComeFirst
  <2>3. CASE ~(ev[h] > 0)
    <3>1. \A y \in L[h] : y \in q => y = h
      BY <2>3, BodyFacts
    <3>2. b = h
      BY <2>1, <3>1, <1>3
    <3>3. ASSUME NEW j \in 1..Len(t) PROVE t[j] \notin L[h]
      <4>1. t[j] \in q /\ t[j] # b
        BY <1>1, <1>5, <1>6
      <4> QED
        BY <4>1, <3>1, <3>2
    <3> QED
      BY <3>3 DEF ComeFirst
  <2> QED
    BY <2>2, <2>3
<1>9. Listed(g, L, r, e2, t, q \ {b})
  BY <1>6, <1>7, <1>8 DEF Listed
<1>10. ASSUME Outside(L, b) PROVE NoneOpen(g, L, r, ev)
  <2>1. \A h \in DOMAIN L : ~Open(g, L, r, ev, h)
    BY <1>10, OnlyOwnOpen DEF Outside
  <2> QED
    BY <2>1 DEF NoneOpen, Open
<1> QED
  BY <1>3, <1>9, <1>10 DEF e2

\* Between the edges of b: the counts and the list are right.
Followed(r, ev, q, b, Z, acc) ==
    /\ Midway(r, ev, q, b, Z, acc.ec)
    /\ Listed(Graph, Loops, r, After(ev, b), acc.wl, Taken(Graph, Loops, r, ev, q, b, Z))

\* One more edge.
LEMMA TakeEdgeFits ==
    ASSUME NEW r, NEW ev, NEW q, NEW b, NEW Z, NEW acc, Followed(r, ev, q, b, Z, acc),
           NEW t \in Seq(Block), Listed(Graph, Loops, r, ev, <<b>> \o t, q),
           NEW d \in Succs(Graph, b), d \notin Z
    PROVE  Followed(r, ev, q, b, Z \cup {d}, TakeEdge(acc, b, d))
<1> DEFINE f == FollowEdge(acc.ec, b, d)
           a2 == TakeEdge(acc, b, d)
           e2 == After(ev, b)
           qq == Taken(Graph, Loops, r, ev, q, b, Z)
           q3 == Taken(Graph, Loops, r, ev, q, b, Z \cup {d})
           go == Ready(Graph, Loops, r, e2, b, d)
<1>1. /\ Midway(r, ev, q, b, Z, acc.ec) /\ Listed(Graph, Loops, r, e2, acc.wl, qq)
  BY DEF Followed
<1>2. /\ Shape(Graph, Loops, r) /\ Schedule(Graph, Loops, r, ev, q) /\ b \in q /\ b \in Block
  BY <1>1, MidwayFacts
<1>3. /\ d \in Block /\ d \notin qq
      /\ go => q3 = qq \cup {d}
      /\ ~go => q3 = qq
  BY <1>1, TakenMore
<1>4. EdgeOK(r, ev, q, b, Z, d, f)
  BY <1>1, EdgeFits
<1>5. (f.go <=> go) /\ CountsFit(Graph, Loops, r, e2, q3, f.ec)
  BY <1>4 DEF EdgeOK
<1>6. a2.ec = f.ec /\ a2.wl = IF f.go THEN <<d>> \o acc.wl ELSE acc.wl
  BY DEF TakeEdge
<1>7. Midway(r, ev, q, b, Z \cup {d}, a2.ec)
  <2>1. CountsFit(Graph, Loops, r, e2, q3, a2.ec)
    BY <1>5, <1>6
  <2>2. /\ CountsOf(r) /\ (Outside(Loops, b) => NoneOpen(Graph, Loops, r, ev))
        /\ Z \cup {d} \subseteq Succs(Graph, b)
    BY <1>1 DEF Midway
  <2> HIDE DEF a2
  <2> QED
    BY <2>1, <2>2, <1>2 DEF Midway
<1> HIDE DEF a2, f, e2, qq, q3, go
<1>8. Listed(Graph, Loops, r, e2, a2.wl, q3)
  <2>1. CASE go
    <3>1. \A h \in DOMAIN Loops : Open(Graph, Loops, r, e2, h) => d \in Loops[h]
      BY <1>2, <2>1, OpenAfter DEF e2, go
    <3>2. Listed(Graph, Loops, r, e2, <<d>> \o acc.wl, qq \cup {d})
      BY <3>1, <1>1, <1>3, ListedFront
    <3>3. a2.wl = <<d>> \o acc.wl /\ q3 = qq \cup {d}
      BY <2>1, <1>3, <1>5, <1>6
    <3> QED
      BY <3>2, <3>3
  <2>2. CASE ~go
    <3>1. a2.wl = acc.wl /\ q3 = qq
      BY <2>2, <1>3, <1>5, <1>6
    <3> QED
      BY <3>1, <1>1
  <2> QED
    BY <2>1, <2>2
<1> QED
  BY <1>7, <1>8 DEF Followed, a2, e2, q3

\* All the edges of b: the counts and the Worklist are those of the schedule.
LEMMA FollowEdgesFits ==
    ASSUME Running, NEW r, NEW ev, NEW q, NEW b \in Block,
           NEW t \in Seq(Block), Listed(Graph, Loops, r, ev, <<b>> \o t, q),
           Shape(Graph, Loops, r), CountsOf(r), Schedule(Graph, Loops, r, ev, q),
           NEW ec, CountsFit(Graph, Loops, r, ev, q, ec),
           NEW r0 \in CountedLists, r0.ec = CountDown(ec, b), r0.wl = t,
           NEW res, res = FollowEdges(r0.ec, r0.wl, b)
    PROVE  /\ CountsFit(Graph, Loops, r, After(ev, b), Onward(Graph, Loops, r, ev, q, b), res.ec)
           /\ Listed(Graph, Loops, r, After(ev, b), res.wl, Onward(Graph, Loops, r, ev, q, b))
<1> DEFINE s == Graph[b]
           Z(n) == {s[i] : i \in 1..n}
<1>1. s \in Seq(Block) /\ Len(s) \in Nat /\ \A n \in 1..Len(s) : s[n] \in Block
  BY RunningFacts
<1>2. PICK acc : /\ acc[0] = r0 /\ acc[Len(s)] = res
                 /\ \A n \in 1..Len(s) :
                       acc[n] = IF \E i \in 1..(n-1) : s[i] = s[n] THEN acc[n-1]
                                ELSE TakeEdge(acc[n-1], b, s[n])
  BY FollowEdgesSteps
<1>3. Succs(Graph, b) = {s[i] : i \in 1..Len(s)}
  <2>1. DOMAIN s = 1..Len(s)
    BY <1>1
  <2> QED
    BY <2>1 DEF Succs, ToSet
<1> HIDE DEF s
<1>4. /\ b \in q /\ Listed(Graph, Loops, r, After(ev, b), t, q \ {b})
      /\ Outside(Loops, b) => NoneOpen(Graph, Loops, r, ev)
  BY RestListed
<1>5. CountsFit(Graph, Loops, r, After(ev, b), q \ {b}, r0.ec)
  BY <1>4, CountDownFits
<1>6. Followed(r, ev, q, b, {}, r0)
  <2>1. Taken(Graph, Loops, r, ev, q, b, {}) = q \ {b}
    BY DEF Taken
  <2>2. Midway(r, ev, q, b, {}, r0.ec)
    BY <2>1, <1>4, <1>5 DEF Midway
  <2> QED
    BY <2>1, <2>2, <1>4 DEF Followed
<1> DEFINE S == {n \in 0..Len(s) : Followed(r, ev, q, b, Z(n), acc[n])}
<1>7. 0 \in S
  <2>1. Z(0) = {}
    OBVIOUS
  <2>2. 0 \in 0..Len(s)
    BY <1>1
  <2> HIDE DEF Z
  <2> QED
    BY <2>1, <2>2, <1>2, <1>6
<1>8. ASSUME NEW n \in 0..Len(s), n < Len(s), n \in S PROVE n + 1 \in S
  <2>1. n + 1 \in 1..Len(s) /\ (n + 1) - 1 = n /\ n + 1 \in 0..Len(s)
    BY <1>1, <1>8
  <2>2. Followed(r, ev, q, b, Z(n), acc[n])
    BY <1>8
  <2>3. Z(n+1) = Z(n) \cup {s[n+1]}
    <3>1. \A i : i \in 1..(n+1) <=> i \in 1..n \/ i = n + 1
      OBVIOUS
    <3> QED
      BY <3>1
  <2>4. (\E i \in 1..n : s[i] = s[n+1]) <=> s[n+1] \in Z(n)
    OBVIOUS
  <2>5. s[n+1] \in Succs(Graph, b)
    BY <2>1, <1>3
  <2>6. acc[n+1] = IF \E i \in 1..n : s[i] = s[n+1] THEN acc[n]
                   ELSE TakeEdge(acc[n], b, s[n+1])
    BY <2>1, <1>2
  <2> HIDE DEF Z
  <2>7. CASE s[n+1] \in Z(n)
    <3>1. Z(n+1) = Z(n) /\ acc[n+1] = acc[n]
      BY <2>3, <2>4, <2>6, <2>7
    <3> QED
      BY <3>1, <2>1, <2>2
  <2>8. CASE s[n+1] \notin Z(n)
    <3>1. acc[n+1] = TakeEdge(acc[n], b, s[n+1])
      BY <2>4, <2>6, <2>8
    <3>2. Followed(r, ev, q, b, Z(n) \cup {s[n+1]}, TakeEdge(acc[n], b, s[n+1]))
      BY <2>2, <2>5, <2>8, TakeEdgeFits
    <3>3. Followed(r, ev, q, b, Z(n+1), acc[n+1])
      BY <3>1, <3>2, <2>3
    <3> QED
      BY <3>3, <2>1
  <2> QED
    BY <2>7, <2>8
<1>9. Followed(r, ev, q, b, Z(Len(s)), res)
  <2>1. \A n \in 0..Len(s) : n < Len(s) /\ n \in S => n + 1 \in S
    BY <1>8
  <2> HIDE DEF S
  <2>2. 0..Len(s) \subseteq S
    BY <1>1, <1>7, <2>1, InductionUpTo
  <2>3. Len(s) \in 0..Len(s)
    BY <1>1
  <2>4. Len(s) \in S
    BY <2>2, <2>3
  <2> HIDE DEF Z
  <2> QED
    BY <2>4, <1>2 DEF S
<1>10. Taken(Graph, Loops, r, ev, q, b, Z(Len(s))) = Onward(Graph, Loops, r, ev, q, b)
  BY <1>3 DEF Taken, Onward
<1>11. Followed(r, ev, q, b, Z(Len(s)), res) =>
          /\ CountsFit(Graph, Loops, r, After(ev, b), Taken(Graph, Loops, r, ev, q, b, Z(Len(s))), res.ec)
          /\ Listed(Graph, Loops, r, After(ev, b), res.wl, Taken(Graph, Loops, r, ev, q, b, Z(Len(s))))
  <2> HIDE DEF Z
  <2> QED
    BY DEF Followed, Midway
<1> QED
  BY <1>9, <1>10, <1>11

(***************************************************************************)
(* The analyzers.  A block that was evaluated has handed on what it was    *)
(* given and its own results.                                              *)
(***************************************************************************)
Ancestors(g, L, b) == {p \in Block : b \in ReachFrom(Forward(g, L), {p}, Block)}

Gathered(g, L, ev, an) ==
    \A p \in Block : ev[p] > 0 =>
        \A s \in Succs(g, p) : Ancestors(g, L, p) \subseteq an[s]

\* The blocks before one that is to be evaluated have been evaluated.
LEMMA BeforeSeen ==
    ASSUME NEW g, NEW L, NEW r, Shape(g, L, r), NEW ev, NEW q, Schedule(g, L, r, ev, q),
           NEW b \in q, NEW p \in Before(g, L, b)
    PROVE  ev[p] > 0
<1>1. /\ b \in Block /\ p \in Block /\ ev[b] \in Nat /\ ev[p] \in Nat /\ r[p] \in Nat /\ r[p] > 0
  BY EdgeFacts DEF Schedule, Before
<1>2. CASE ~SameLoop(L, p, b)
  <2>1. ev[p] = r[p]
    BY <1>1, <1>2 DEF Schedule, AfterAll
  <2> QED
    BY <2>1, <1>1
<1>3. CASE SameLoop(L, p, b)
  <2>1. PICK h \in DOMAIN L : p \in L[h] /\ b \in L[h]
    BY <1>3 DEF SameLoop
  <2>2. b # h
    <3>1. SUFFICES ASSUME b = h PROVE FALSE
      OBVIOUS
    <3>2. Outside(L, p)
      BY <3>1, EdgeFacts
    <3> QED
      BY <3>2, <2>1 DEF Outside
  <2>3. b \in L[h] \ {h}
    BY <2>1, <2>2
  <2>4. ev[b] < ev[p]
    BY <2>3 DEF Schedule, InRounds, RoundOf
  <2> QED
    BY <2>4, <1>1
<1> QED
  BY <1>2, <1>3

\* Its analyzer holds the results of all blocks that lead to it.
LEMMA AllGathered ==
    ASSUME NEW g, NEW L, NEW r, Shape(g, L, r), NEW ev, NEW q, Schedule(g, L, r, ev, q),
           NEW an, Gathered(g, L, ev, an), NEW b \in q,
           NEW p \in Block \ {b}, b \in ReachFrom(Forward(g, L), {p}, Block)
    PROVE  p \in an[b]
<1> DEFINE F == Forward(g, L)
<1>1. IsGraph(g) /\ b \in Block /\ p \in Block /\ b # p
  BY DEF Schedule, Shape
<1>2. IsGraph(F) /\ \A x \in Block : Succs(F, x) = Ahead(g, L, x)
  BY <1>1, ForwardFacts
<1>3. b \in ReachFrom(F, {p}, Block)
  OBVIOUS
<1> HIDE DEF F
<1>4. PICK x \in Block : b \in Succs(F, x) /\ x \in ReachFrom(F, {p}, Block)
  BY <1>1, <1>2, <1>3, LastEdge
<1>5. x \in Before(g, L, b) /\ b \in Succs(g, x)
  BY <1>2, <1>4 DEF Before, Ahead
<1>6. ev[x] > 0
  BY <1>5, BeforeSeen
<1>7. p \in Ancestors(g, L, x)
  BY <1>1, <1>4 DEF Ancestors, F
<1> QED
  BY <1>5, <1>6, <1>7 DEF Gathered

\* The end of a block hands its results on.
LEMMA GatheredAfter ==
    ASSUME NEW r, Shape(Graph, Loops, r), NEW ev, NEW q, Schedule(Graph, Loops, r, ev, q),
           NEW an \in [Block -> SUBSET Block], Gathered(Graph, Loops, ev, an), NEW b \in q,
           NEW a1, a1 = [an EXCEPT ![b] = @ \cup {b}]
    PROVE  Gathered(Graph, Loops, After(ev, b), UpdateSuccessorAnalyzers(a1, b))
<1> DEFINE a2 == UpdateSuccessorAnalyzers(a1, b)
           e2 == After(ev, b)
<1>1. /\ b \in Block
      /\ \A x \in Block : e2[x] \in Nat /\ ev[x] \in Nat /\ (x # b => e2[x] = ev[x])
  BY AfterFacts
<1>2. a1 \in [Block -> SUBSET Block] /\ a1[b] = an[b] \cup {b}
      /\ \A x \in Block : an[x] \subseteq a1[x]
  BY <1>1
<1>3. \A x \in Block : an[x] \subseteq a2[x] /\ (x \in Succs(Graph, b) => a1[b] \subseteq a2[x])
  BY <1>2 DEF UpdateSuccessorAnalyzers
<1>4. \A x \in Block : Succs(Graph, x) \subseteq Block
  BY EdgeFacts
<1> HIDE DEF a2, e2
<1>5. Ancestors(Graph, Loops, b) \subseteq a1[b]
  <2>1. ASSUME NEW p \in Ancestors(Graph, Loops, b), p # b PROVE p \in an[b]
    <3>1. p \in Block \ {b} /\ b \in ReachFrom(Forward(Graph, Loops), {p}, Block)
      BY <2>1 DEF Ancestors
    <3> QED
      BY <3>1, AllGathered
  <2> QED
    BY <2>1, <1>2
<1>6. ASSUME NEW p \in Block, e2[p] > 0, NEW s \in Succs(Graph, p)
      PROVE  Ancestors(Graph, Loops, p) \subseteq a2[s]
  <2>1. s \in Block
    BY <1>4
  <2>2. CASE p = b
    BY <2>1, <2>2, <1>3, <1>5, <1>6
  <2>3. CASE p # b
    <3>1. Ancestors(Graph, Loops, p) \subseteq an[s]
      BY <2>3, <1>1, <1>6 DEF Gathered
    <3> QED
      BY <3>1, <2>1, <1>3
  <2> QED
    BY <2>2, <2>3
<1>7. Gathered(Graph, Loops, e2, a2)
  BY <1>6 DEF Gathered
<1> QED
  BY <1>7 DEF e2, a2

(***************************************************************************)
(* The plan of a scope: its blocks are on schedule.                        *)
(***************************************************************************)
OnPlan(g, L, r, ev, w, ec, an) ==
    /\ Schedule(g, L, r, ev, ToSet(w)) /\ Listed(g, L, r, ev, w, ToSet(w))
    /\ CountsFit(g, L, r, ev, ToSet(w), ec)
    /\ Gathered(g, L, ev, an)

\* A function begins with its entry block.
LEMMA PlanBegins ==
    ASSUME NEW g, NEW L, NEW r, Shape(g, L, r),
           NEW ev, ev = [b \in Block |-> 0],
           NEW ec, ec = [b \in Block |-> IF b = Entry THEN 1 ELSE Unseen], NEW an
    PROVE  OnPlan(g, L, r, ev, <<Entry>>, ec, an)
<1> DEFINE F == Forward(g, L)
           q == {Entry}
<1>1. /\ IsGraph(g) /\ DOMAIN L \subseteq Block
      /\ \A h \in DOMAIN L : h \in L[h] /\ L[h] \subseteq Block
      /\ Preds(g, Entry) = {} /\ Nest(L, Entry) = {}
      /\ \A b \in Block \ {Entry} : Preds(F, b) # {}
  BY DEF Shape, Plain
<1>2. IsGraph(F) /\ \A b \in Block : Succs(F, b) = Ahead(g, L, b)
  BY <1>1, ForwardFacts
<1>3. Entry \in Block /\ Before(g, L, Entry) = {} /\ Outside(L, Entry)
  BY <1>1, BlockFacts DEF Preds, Nest, Outside, Before, Ahead
<1>4. \A b \in Block : b # Entry => Before(g, L, b) # {}
  BY <1>1, <1>2 DEF Preds, Before
<1> HIDE DEF F
<1>5. /\ ev \in [Block -> Nat] /\ \A b \in Block : ev[b] = 0
      /\ \A b \in Block : r[b] \in Nat /\ r[b] > 0
      /\ \A h \in DOMAIN L : h \in Block /\ Entry \notin L[h] /\ h # Entry
      /\ \A h \in DOMAIN L : \A b \in L[h] : b \in Block /\ b # Entry
  BY <1>1, <1>3, EdgeFacts DEF Outside
<1>6. \A b \in Block : \A p \in Before(g, L, b) : p \in Block
  BY DEF Before
<1>7. Schedule(g, L, r, ev, q)
  <2>1. Bounded(r, ev, q) /\ AfterAll(g, L, r, ev, q)
    BY <1>3, <1>5 DEF Bounded, AfterAll
  <2>2. InRounds(g, L, ev, q)
    BY <1>5, <1>6 DEF InRounds, RoundOf
  <2>3. DueOnce(g, L, r, ev, q) /\ DueInRound(g, L, r, ev, q)
    BY <1>4, <1>5, <1>6 DEF DueOnce, DueInRound
  <2>4. DueAgain(g, L, r, ev, q)
    BY <1>5 DEF DueAgain
  <2> QED
    BY <2>1, <2>2, <2>3, <2>4, <1>3, <1>5 DEF Schedule
<1>8. /\ <<Entry>> \in Seq(Block) /\ ToSet(<<Entry>>) = q /\ Len(<<Entry>>) = 1
  BY <1>3 DEF ToSet
<1>9. Listed(g, L, r, ev, <<Entry>>, q)
  <2>1. \A h \in DOMAIN L : ~Open(g, L, r, ev, h)
    BY <1>5 DEF Open
  <2> QED
    BY <2>1, <1>8 DEF Listed
<1>10. CountsFit(g, L, r, ev, q, ec)
  <2>1. /\ ec \in Counts /\ ec[Entry] = 1
        /\ \A b \in Block : b # Entry => ec[b] = Unseen
    BY <1>3 DEF Counts
  <2>2. \A h \in DOMAIN L : ~(h \in q \/ ev[h] > 0)
    BY <1>5
  <2> QED
    BY <2>1, <2>2, <1>3, <1>5, FitFacts
<1>11. Gathered(g, L, ev, an)
  BY <1>5 DEF Gathered
<1> QED
  BY <1>7, <1>8, <1>9, <1>10, <1>11 DEF OnPlan

\* The end of a block leads on to the next blocks of the schedule.
LEMMA PlanContinues ==
    ASSUME Running, NEW r, Shape(Graph, Loops, r), CountsOf(r),
           NEW ev, NEW b \in Block, NEW t \in Seq(Block), NEW ec, NEW an \in [Block -> SUBSET Block],
           OnPlan(Graph, Loops, r, ev, <<b>> \o t, ec, an),
           NEW r0 \in CountedLists, r0.ec = CountDown(ec, b), r0.wl = t,
           NEW res, res = FollowEdges(r0.ec, r0.wl, b),
           NEW a1, a1 = [an EXCEPT ![b] = @ \cup {b}]
    PROVE  OnPlan(Graph, Loops, r, After(ev, b), res.wl, res.ec, UpdateSuccessorAnalyzers(a1, b))
<1> DEFINE q == ToSet(<<b>> \o t)
           q2 == Onward(Graph, Loops, r, ev, q, b)
<1>1. /\ Schedule(Graph, Loops, r, ev, q) /\ Listed(Graph, Loops, r, ev, <<b>> \o t, q)
      /\ CountsFit(Graph, Loops, r, ev, q, ec)
      /\ Gathered(Graph, Loops, ev, an)
  BY DEF OnPlan
<1>2. b \in q
  <2>1. Prepended(<<b>> \o t, b, t)
    BY PrependFacts
  <2> QED
    BY <2>1 DEF Prepended
<1> HIDE DEF q
<1>3. Schedule(Graph, Loops, r, After(ev, b), q2)
  BY <1>1, <1>2, ScheduleAfter
<1>4. /\ CountsFit(Graph, Loops, r, After(ev, b), q2, res.ec)
      /\ Listed(Graph, Loops, r, After(ev, b), res.wl, q2)
  BY <1>1, FollowEdgesFits
<1>5. Gathered(Graph, Loops, After(ev, b), UpdateSuccessorAnalyzers(a1, b))
  BY <1>1, <1>2, GatheredAfter
<1> HIDE DEF q2
<1>6. ToSet(res.wl) = q2
  BY <1>4 DEF Listed
<1> QED
  BY <1>3, <1>4, <1>5, <1>6 DEF OnPlan

\* How often each block of a function is evaluated.
Rounds(g, L, trips) ==
    [b \in Block |->
        IF Outside(L, b) THEN 1
        ELSE LET h == CHOOSE h \in DOMAIN L : b \in L[h]
             IN  IF b = h /\ Exiting(g, L, h, h) THEN trips[h] + 1 ELSE trips[h]]

Times(f) == Rounds(module[f].succ, module[f].loops,
                   [h \in DOMAIN module[f].loops |-> TripCount(f, h)])

\* It is once outside of loops, and as the trip counts say inside of them.
LEMMA RoundsFacts ==
    ASSUME NEW g, NEW L, IsGraph(g), Plain(g, L), DOMAIN L \subseteq Block,
           \A h \in DOMAIN L : h \in L[h] /\ L[h] \subseteq Block,
           NEW trips \in [DOMAIN L -> Nat \ {0}],
           NEW r, r = Rounds(g, L, trips)
    PROVE  /\ Shape(g, L, r)
           /\ \A h \in DOMAIN L : \A b \in L[h] :
                 r[b] = IF b = h /\ Exiting(g, L, h, h) THEN trips[h] + 1 ELSE trips[h]
<1>1. \A h \in DOMAIN L : \A b \in L[h] : \A k \in DOMAIN L : b \in L[k] <=> k = h
  BY DEF Plain, PlainLoop, Nest
<1>2. ASSUME NEW h \in DOMAIN L, NEW b \in L[h]
      PROVE  r[b] = IF b = h /\ Exiting(g, L, h, h) THEN trips[h] + 1 ELSE trips[h]
  <2>1. b \in Block /\ ~Outside(L, b)
    BY DEF Outside
  <2> DEFINE k == CHOOSE k \in DOMAIN L : b \in L[k]
  <2>2. k = h
    BY <1>1
  <2>3. r[b] = IF b = k /\ Exiting(g, L, k, k) THEN trips[k] + 1 ELSE trips[k]
    BY <2>1 DEF Rounds
  <2> HIDE DEF k
  <2> QED
    BY <2>2, <2>3
<1>3. \A b \in Block : Outside(L, b) => r[b] = 1
  BY DEF Rounds
<1>4. ASSUME NEW b \in Block PROVE r[b] \in Nat
  <2>1. CASE Outside(L, b)
    BY <2>1, <1>3
  <2>2. ASSUME NEW h \in DOMAIN L, b \in L[h] PROVE r[b] \in Nat
    BY <2>2, <1>2
  <2> QED
    BY <2>1, <2>2 DEF Outside
<1>5. r \in [Block -> Nat]
  <2>1. r = [b \in Block |-> r[b]]
    BY DEF Rounds
  <2> QED
    BY <2>1, <1>4
<1>6. ASSUME NEW h \in DOMAIN L
      PROVE  \E n \in Nat :
                /\ n > 0
                /\ \A b \in L[h] \ {h} : r[b] = n
                /\ r[h] = IF Exiting(g, L, h, h) THEN n + 1 ELSE n
  <2>1. trips[h] \in Nat /\ trips[h] > 0 /\ h \in L[h]
    OBVIOUS
  <2> WITNESS trips[h] \in Nat
  <2> QED
    BY <2>1, <1>2
<1>7. Shape(g, L, r)
  BY <1>3, <1>5, <1>6 DEF Shape
<1> QED
  BY <1>2, <1>7

\* The trip counts of a module's functions.
LEMMA TripFacts ==
    ASSUME module \in Modules, NEW f \in Func, NEW h \in DOMAIN module[f].loops
    PROVE  /\ TripCount(f, h) \in Nat \ {0}
           /\ TripCount(f, h) <= MaxTripCount \/ TripCount(f, h) = 1
<1>1. module[f].hint[h] \in Nat
  BY ModuleAssumption
<1> QED
  BY <1>1, TripCountAssumption DEF TripCount

\* For a function with plain loops they are the counts of followEdge.
LEMMA TimesFacts ==
    ASSUME module \in Modules, PlainModule(module), NEW f \in Func
    PROVE  /\ Shape(module[f].succ, module[f].loops, Times(f))
           /\ \A h \in DOMAIN module[f].loops : \A b \in module[f].loops[h] :
                 Times(f)[b] = IF b = h /\ Exiting(module[f].succ, module[f].loops, h, h)
                               THEN TripCount(f, h) + 1 ELSE TripCount(f, h)
<1> DEFINE g == module[f].succ
           L == module[f].loops
           trips == [h \in DOMAIN L |-> TripCount(f, h)]
           r == Times(f)
<1>1. /\ IsGraph(g) /\ DOMAIN L \subseteq Block
      /\ \A h \in DOMAIN L : h \in L[h] /\ L[h] \subseteq Block
  BY ModuleAssumption DEF IsGraph
<1>2. Plain(g, L)
  BY DEF PlainModule
<1>3. trips \in [DOMAIN L -> Nat \ {0}]
  BY TripFacts
<1>4. r = Rounds(g, L, trips)
  BY DEF Times
<1>5. \A h \in DOMAIN L : trips[h] = TripCount(f, h)
  OBVIOUS
<1> HIDE DEF g, L, trips, r
<1>6. /\ Shape(g, L, r)
      /\ \A h \in DOMAIN L : \A b \in L[h] :
            r[b] = IF b = h /\ Exiting(g, L, h, h) THEN trips[h] + 1 ELSE trips[h]
  BY <1>1, <1>2, <1>3, <1>4, RoundsFacts
<1>7. \A h \in DOMAIN L : \A b \in L[h] :
            r[b] = IF b = h /\ Exiting(g, L, h, h) THEN TripCount(f, h) + 1 ELSE TripCount(f, h)
  BY <1>5, <1>6
<1> QED
  BY <1>6, <1>7 DEF g, L, r

\* No block is evaluated more often than MaxEvals.
LEMMA TimesBounded ==
    ASSUME EnoughEvals, module \in Modules, PlainModule(module), NEW f \in Func, NEW b \in Block
    PROVE  Times(f)[b] <= MaxEvals
<1>1. /\ Shape(module[f].succ, module[f].loops, Times(f))
      /\ \A h \in DOMAIN module[f].loops : \A x \in module[f].loops[h] :
            Times(f)[x] = IF x = h /\ Exiting(module[f].succ, module[f].loops, h, h)
                          THEN TripCount(f, h) + 1 ELSE TripCount(f, h)
  BY TimesFacts
<1>2. MaxEvals \in Nat /\ MaxTripCount \in Nat /\ MaxEvals > 1 /\ MaxEvals > MaxTripCount
  BY TripCountAssumption DEF EnoughEvals
<1>3. CASE Outside(module[f].loops, b)
  BY <1>1, <1>2, <1>3 DEF Shape
<1>4. ASSUME NEW h \in DOMAIN module[f].loops, b \in module[f].loops[h]
      PROVE  Times(f)[b] <= MaxEvals
  <2>1. /\ TripCount(f, h) \in Nat \ {0}
        /\ TripCount(f, h) <= MaxTripCount \/ TripCount(f, h) = 1
    BY TripFacts
  <2>2. Times(f)[b] = TripCount(f, h) \/ Times(f)[b] = TripCount(f, h) + 1
    BY <1>1, <1>4
  <2> QED
    BY <2>1, <2>2, <1>2
<1> QED
  BY <1>3, <1>4 DEF Outside

\* In the running function followEdge enters each loop with its trip count.
LEMMA RunningTimes ==
    ASSUME Running, PlainModule(module)
    PROVE  /\ Shape(Graph, Loops, Times(Top.func)) /\ CountsOf(Times(Top.func))
           /\ \A h \in DOMAIN Loops : EnteringCount(Top.func, h) = TripCount(Top.func, h)
<1> DEFINE f == Top.func
           r == Times(f)
<1>1. /\ module \in Modules /\ f \in Func /\ Graph = module[f].succ /\ Loops = module[f].loops
  BY DEF Running, Graph, Loops
<1> HIDE DEF f
<1>2. /\ Shape(Graph, Loops, r)
      /\ \A h \in DOMAIN Loops : \A b \in Loops[h] :
            r[b] = IF b = h /\ Exiting(Graph, Loops, h, h) THEN TripCount(f, h) + 1 ELSE TripCount(f, h)
  BY <1>1, TimesFacts
<1>3. ASSUME NEW h \in DOMAIN Loops PROVE EnteringCount(f, h) = TripCount(f, h)
  <2>1. PICK l \in Loops[h] : Preds(Graph, h) \cap Loops[h] = {l}
    BY <1>2 DEF Shape, Plain, PlainLoop
  <2>2. Cardinality({l}) = 1
    BY FS_Singleton
  <2> QED
    BY <2>1, <2>2, <1>1 DEF EnteringCount
<1>4. CountsOf(r)
  BY <1>2, <1>3 DEF CountsOf, f
<1> QED
  BY <1>2, <1>3, <1>4 DEF f

(***************************************************************************)
(* All scopes are on schedule, those that wait for a call included.        *)
(***************************************************************************)
Pending(s) == IF s.block = NoBlock THEN s.Worklist ELSE <<s.block>> \o s.Worklist

ScopeOnPlan(s) ==
    OnPlan(module[s.func].succ, module[s.func].loops, Times(s.func),
           s.evals, Pending(s), s.EvalCount, s.Analyzer)

PlanInv == PlainModule(module) => \A i \in 1..Len(Scopes) : ScopeOnPlan(Scopes[i])

\* The plan of a scope does not depend on the other variables than module.
LEMMA PlanKept ==
    ASSUME UNCHANGED module,
           PlainModule(module) => \A i \in 1..Len(Scopes') : ScopeOnPlan(Scopes'[i])
    PROVE  PlanInv'
BY DEF PlanInv, ScopeOnPlan, Times, TripCount, Pending

\* A step that changes only the innermost scope.
LEMMA TopStaysOnPlan ==
    ASSUME IInv, PlanInv, Scopes # <<>>, NEW s \in ScopeT, SetTop(s), UNCHANGED module,
           PlainModule(module) => ScopeOnPlan(s)
    PROVE  PlanInv'
<1>1. /\ Len(Scopes) \in Nat \ {0} /\ Scopes \in Seq(ScopeT)
  BY TopFacts
<1>2. /\ Len(Scopes') = Len(Scopes) /\ Scopes'[Len(Scopes)] = s
      /\ \A i \in 1..(Len(Scopes) - 1) : Scopes'[i] = Scopes[i]
  BY <1>1 DEF SetTop
<1>3. \A i \in 1..Len(Scopes') : i = Len(Scopes) \/ (i \in 1..(Len(Scopes) - 1) /\ i \in 1..Len(Scopes))
  BY <1>1, <1>2
<1>4. ASSUME PlainModule(module), NEW i \in 1..Len(Scopes') PROVE ScopeOnPlan(Scopes'[i])
  <2>1. CASE i = Len(Scopes)
    BY <2>1, <1>2, <1>4
  <2>2. CASE i # Len(Scopes)
    BY <2>2, <1>2, <1>3, <1>4 DEF PlanInv
  <2> QED
    BY <2>1, <2>2
<1> QED
  BY <1>4, PlanKept

\* A new scope is on schedule.
LEMMA NewScopeOnPlan ==
    ASSUME module \in Modules, PlainModule(module), NEW f \in Func
    PROVE  ScopeOnPlan(NewScope(f))
<1> DEFINE s == NewScope(f)
<1>1. /\ s.func = f /\ s.block = NoBlock /\ s.Worklist = <<Entry>>
      /\ s.evals = [b \in Block |-> 0]
      /\ s.EvalCount = [b \in Block |-> IF b = Entry THEN 1 ELSE Unseen]
  BY DEF NewScope
<1>2. Shape(module[f].succ, module[f].loops, Times(f))
  BY TimesFacts
<1> HIDE DEF s
<1>3. Pending(s) = <<Entry>>
  BY <1>1 DEF Pending
<1>4. OnPlan(module[f].succ, module[f].loops, Times(f), s.evals, <<Entry>>, s.EvalCount, s.Analyzer)
  BY <1>1, <1>2, PlanBegins
<1>5. ScopeOnPlan(s)
  BY <1>1, <1>3, <1>4 DEF ScopeOnPlan
<1> QED
  BY <1>5 DEF s

\* processModule starts a function on schedule.
LEMMA ProcessFunctionPlan == IInv /\ PlanInv /\ ProcessFunction => PlanInv'
<1> SUFFICES ASSUME IInv, PlanInv, ProcessFunction PROVE PlanInv'
  OBVIOUS
<1>1. /\ todo \in Seq(Func) /\ todo # <<>> /\ UNCHANGED module /\ module \in Modules
      /\ IF module[Head(todo)].start
         THEN Scopes' = <<NewScope(Head(todo))>> ELSE UNCHANGED Scopes
  BY DEF IInv, TypeOK, ProcessFunction
<1>2. Head(todo) \in Func
  BY <1>1
<1>3. CASE module[Head(todo)].start
  <2> DEFINE s == NewScope(Head(todo))
  <2>1. PlainModule(module) => ScopeOnPlan(s)
    BY <1>1, <1>2, NewScopeOnPlan
  <2>2. Scopes' = <<s>>
    BY <1>1, <1>3
  <2> HIDE DEF s
  <2>3. \A i \in 1..Len(Scopes') : Scopes'[i] = s
    BY <2>2
  <2> QED
    BY <2>1, <2>3, <1>1, PlanKept
<1>4. CASE ~module[Head(todo)].start
  BY <1>1, <1>4, PlanKept DEF PlanInv
<1> QED
  BY <1>3, <1>4

\* The block taken from the Worklist is the first of those to be evaluated.
LEMMA BeginBlockPlan == IInv /\ PlanInv /\ BeginBlock => PlanInv'
<1> SUFFICES ASSUME IInv, PlanInv, BeginBlock PROVE PlanInv'
  OBVIOUS
<1> DEFINE b == Head(Top.Worklist)
           s == [Top EXCEPT !.block = b, !.Worklist = Tail(@),
                            !.calls = module[Top.func].calls[b]]
<1>1. /\ Scopes # <<>> /\ Top.block = NoBlock /\ Top.Worklist # <<>> /\ SetTop(s) /\ UNCHANGED module
  BY DEF BeginBlock
<1>2. /\ Top \in ScopeT /\ Top.func \in Func /\ module \in Modules
      /\ Top.Worklist \in Seq(Block) /\ Len(Scopes) \in 1..Len(Scopes)
  BY <1>1, TopFacts DEF Running
<1>3. /\ b \in Block /\ Tail(Top.Worklist) \in Seq(Block)
      /\ Top.Worklist = <<b>> \o Tail(Top.Worklist)
  BY <1>1, <1>2
<1>4. module[Top.func].calls[b] \in Seq(Func)
  BY <1>2, <1>3, ModuleAssumption
<1>5. /\ s \in ScopeT /\ s.block = b /\ s.Worklist = Tail(Top.Worklist) /\ s.func = Top.func
      /\ s.evals = Top.evals /\ s.EvalCount = Top.EvalCount /\ s.Analyzer = Top.Analyzer
  <2> HIDE DEF b
  <2> QED
    BY <1>2, <1>3, <1>4 DEF ScopeT
<1> HIDE DEF s, b
<1>6. Pending(s) = Pending(Top)
  <2>1. b # NoBlock
    BY <1>3, BlockFacts
  <2> QED
    BY <2>1, <1>1, <1>3, <1>5 DEF Pending
<1>7. PlainModule(module) => ScopeOnPlan(s)
  <2>1. PlainModule(module) => ScopeOnPlan(Top)
    BY <1>2 DEF PlanInv, Top
  <2> QED
    BY <2>1, <1>5, <1>6 DEF ScopeOnPlan
<1> QED
  BY <1>1, <1>5, <1>7, TopStaysOnPlan

\* A call that is skipped.
LEMMA SkipCallPlan == IInv /\ PlanInv /\ SkipCall => PlanInv'
<1> SUFFICES ASSUME IInv, PlanInv, SkipCall PROVE PlanInv'
  OBVIOUS
<1> DEFINE s == [Top EXCEPT !.calls = Tail(@)]
<1>1. Scopes # <<>> /\ Top.calls # <<>> /\ SetTop(s) /\ UNCHANGED module
  BY DEF SkipCall
<1>2. Top \in ScopeT /\ Top.calls \in Seq(Func) /\ Len(Scopes) \in 1..Len(Scopes)
  BY <1>1, TopFacts
<1>3. Tail(Top.calls) \in Seq(Func)
  BY <1>1, <1>2
<1>4. /\ s \in ScopeT /\ s.block = Top.block /\ s.Worklist = Top.Worklist /\ s.func = Top.func
      /\ s.evals = Top.evals /\ s.EvalCount = Top.EvalCount /\ s.Analyzer = Top.Analyzer
  BY <1>2, <1>3 DEF ScopeT
<1> HIDE DEF s
<1>5. PlainModule(module) => ScopeOnPlan(s)
  <2>1. PlainModule(module) => ScopeOnPlan(Top)
    BY <1>2 DEF PlanInv, Top
  <2> QED
    BY <2>1, <1>4 DEF ScopeOnPlan, Pending
<1> QED
  BY <1>1, <1>4, <1>5, TopStaysOnPlan

\* A call that is interpreted.
LEMMA InterpretCallPlan == IInv /\ PlanInv /\ InterpretCall => PlanInv'
<1> SUFFICES ASSUME IInv, PlanInv, InterpretCall PROVE PlanInv'
  OBVIOUS
<1> DEFINE N == Len(Scopes)
           S1 == [Scopes EXCEPT ![N].calls = Tail(@)]
           t == [Top EXCEPT !.calls = Tail(@)]
           s == NewScope(Callee)
<1>1. /\ Scopes # <<>> /\ Top.calls # <<>> /\ Scopes' = Append(S1, s) /\ UNCHANGED module
  BY DEF InterpretCall
<1>2. /\ N \in Nat \ {0} /\ Scopes \in Seq(ScopeT) /\ Top \in ScopeT
      /\ Top.calls \in Seq(Func) /\ module \in Modules
  BY <1>1, TopFacts DEF Running
<1>3. Callee \in Func /\ Tail(Top.calls) \in Seq(Func)
  BY <1>1, <1>2 DEF Callee
<1>4. s \in ScopeT /\ (PlainModule(module) => ScopeOnPlan(s))
  BY <1>2, <1>3, NewScopeOK, NewScopeOnPlan DEF ScopeOK
<1>5. /\ t \in ScopeT /\ t.block = Top.block /\ t.Worklist = Top.Worklist /\ t.func = Top.func
      /\ t.evals = Top.evals /\ t.EvalCount = Top.EvalCount /\ t.Analyzer = Top.Analyzer
  BY <1>2, <1>3 DEF ScopeT
<1>6. S1 = [Scopes EXCEPT ![N] = t]
  BY DEF Top
<1> HIDE DEF s, t, S1
<1>7. /\ Len(Scopes') = N + 1 /\ Scopes'[N+1] = s /\ Scopes'[N] = t
      /\ \A i \in 1..(N-1) : Scopes'[i] = Scopes[i]
  <2>1. /\ S1 \in Seq(ScopeT) /\ Len(S1) = N /\ S1[N] = t
        /\ \A i \in 1..(N-1) : S1[i] = Scopes[i]
    BY <1>2, <1>5, <1>6
  <2> QED
    BY <2>1, <1>1, <1>2, <1>4
<1>8. \A i \in 1..(N+1) : i = N + 1 \/ i = N \/ (i \in 1..(N-1) /\ i \in 1..N)
  BY <1>2
<1>9. ASSUME PlainModule(module), NEW i \in 1..Len(Scopes') PROVE ScopeOnPlan(Scopes'[i])
  <2>1. \A j \in 1..N : ScopeOnPlan(Scopes[j])
    BY <1>9 DEF PlanInv
  <2>2. ScopeOnPlan(t)
    <3>1. ScopeOnPlan(Top)
      BY <2>1, <1>2 DEF Top
    <3> QED
      BY <3>1, <1>5 DEF ScopeOnPlan, Pending
  <2> QED
    BY <2>1, <2>2, <1>4, <1>7, <1>8, <1>9
<1> QED
  BY <1>1, <1>9, PlanKept

\* The elements of a sequence without its last one.
LEMMA FrontKeeps ==
    ASSUME NEW A, NEW w \in Seq(A), w # <<>>
    PROVE  /\ Front(w) \in Seq(A) /\ Len(Front(w)) = Len(w) - 1
           /\ \A i \in 1..Len(Front(w)) : i \in 1..Len(w) /\ Front(w)[i] = w[i]
<1> DEFINE N == Len(w)
           M == N - 1
<1>1. /\ M \in Nat /\ M \in Int /\ 1 \in Int
      /\ M - 1 + 1 = M /\ (~(1 <= M) => M = 0)
      /\ \A i \in 1..M : i \in 1..N /\ 1 + i - 1 = i
  <2>1. N \in Nat /\ N # 0
    OBVIOUS
  <2> HIDE DEF N
  <2>2. M \in Nat /\ M = N - 1
    BY <2>1
  <2>3. \A i \in 1..M : i \in 1..N /\ 1 + i - 1 = i
    BY <2>1
  <2>4. M \in Nat
    BY <2>2
  <2> HIDE DEF M
  <2>5. M \in Int /\ 1 \in Int /\ M - 1 + 1 = M
    BY <2>4
  <2>6. ~(1 <= M) => M = 0
    BY <2>4
  <2> QED
    BY <2>3, <2>4, <2>5, <2>6
<1>2. \A i \in 1..M : w[i] \in A
  BY <1>1
<1>3. Front(w) = SubSeq(w, 1, M)
  BY DEF Front
<1>4. M = Len(w) - 1
  OBVIOUS
<1> HIDE DEF M
<1>5. /\ SubSeq(w, 1, M) \in Seq(A)
      /\ Len(SubSeq(w, 1, M)) = IF 1 <= M THEN M - 1 + 1 ELSE 0
      /\ \A i \in 1 .. M - 1 + 1 : SubSeq(w, 1, M)[i] = w[1 + i - 1]
  BY <1>1, <1>2, SubSeqProperties
<1>6. /\ Front(w) \in Seq(A) /\ Len(Front(w)) = M
      /\ \A i \in 1..M : Front(w)[i] = w[i]
  BY <1>1, <1>3, <1>5
<1> QED
  BY <1>1, <1>4, <1>6

\* The end of a function.
LEMMA ReturnPlan == IInv /\ PlanInv /\ Return => PlanInv'
<1> SUFFICES ASSUME IInv, PlanInv, Return PROVE PlanInv'
  OBVIOUS
<1>1. Scopes # <<>> /\ Scopes' = Front(Scopes) /\ UNCHANGED module
  BY DEF Return
<1>2. Scopes \in Seq(ScopeT) /\ Len(Scopes) \in Nat \ {0}
  BY <1>1, TopFacts
<1>3. /\ \A i \in 1..Len(Scopes') : i \in 1..Len(Scopes) /\ Scopes'[i] = Scopes[i]
  BY <1>1, <1>2, FrontKeeps
<1> QED
  BY <1>1, <1>3, PlanKept DEF PlanInv

\* The end of a block keeps its scope on schedule.
LEMMA EndBlockPlan == EnoughEvals /\ IInv /\ PlanInv /\ EndBlock => PlanInv'
<1> SUFFICES ASSUME EnoughEvals, IInv, PlanInv, EndBlock PROVE PlanInv'
  OBVIOUS
<1>1. /\ Scopes # <<>> /\ Top.block # NoBlock /\ UNCHANGED module
      /\ \E s, r0, b, an : EndsBlock(s, r0, b, an)
  BY EndBlockFacts
<1>2. PICK s, r0, b, an : EndsBlock(s, r0, b, an)
  BY <1>1
<1>3. /\ b = Top.block /\ b \in Block
      /\ an = [Top.Analyzer EXCEPT ![b] = @ \cup {b}]
      /\ SetTop(s) /\ ScopeOK(s) /\ s.func = Top.func /\ s.block = NoBlock
      /\ r0 \in CountedLists /\ r0.ec = CountDown(Top.EvalCount, b) /\ r0.wl = Top.Worklist
      /\ s.Worklist = FollowEdges(r0.ec, r0.wl, b).wl
      /\ s.EvalCount = FollowEdges(r0.ec, r0.wl, b).ec
      /\ s.Analyzer = UpdateSuccessorAnalyzers(an, b)
      /\ s.evals = [Top.evals EXCEPT ![b] = IF @ < MaxEvals THEN @ + 1 ELSE @]
  BY <1>2 DEF EndsBlock
<1>4. /\ Top \in ScopeT /\ Running /\ Top.func \in Func /\ module \in Modules
      /\ Top.Worklist \in Seq(Block) /\ Len(Scopes) \in 1..Len(Scopes)
      /\ Top.Analyzer \in [Block -> SUBSET Block]
  BY <1>1, TopFacts DEF Running, ScopeT
<1>5. ASSUME PlainModule(module) PROVE ScopeOnPlan(s)
  <2> DEFINE r == Times(Top.func)
             ev == Top.evals
             ec == Top.EvalCount
             t == Top.Worklist
             A == Top.Analyzer
             res == FollowEdges(r0.ec, r0.wl, b)
  <2>1. Shape(Graph, Loops, r) /\ CountsOf(r)
    BY <1>4, <1>5, RunningTimes
  <2>2. Graph = module[Top.func].succ /\ Loops = module[Top.func].loops
    BY <1>4 DEF Graph, Loops, Running
  <2>3. OnPlan(Graph, Loops, r, ev, <<b>> \o t, ec, A)
    <3>1. ScopeOnPlan(Top)
      BY <1>4, <1>5 DEF PlanInv, Top
    <3>2. Pending(Top) = <<b>> \o t
      BY <1>1, <1>3 DEF Pending
    <3> QED
      BY <3>1, <3>2, <2>2 DEF ScopeOnPlan
  <2>4. r[b] <= MaxEvals
    BY <1>3, <1>4, <1>5, TimesBounded
  <2>5. r0.wl = t /\ r0.ec = CountDown(ec, b) /\ t \in Seq(Block) /\ A \in [Block -> SUBSET Block]
        /\ an = [A EXCEPT ![b] = @ \cup {b}] /\ r0 \in CountedLists /\ b \in Block /\ Running
        /\ res = FollowEdges(r0.ec, r0.wl, b)
    BY <1>3, <1>4
  <2>6. s.Worklist = res.wl /\ s.EvalCount = res.ec
    BY <1>3
  <2>9. s.evals = [ev EXCEPT ![b] = IF @ < MaxEvals THEN @ + 1 ELSE @]
    BY <1>3
  <2> HIDE DEF r, ev, ec, t, A, res
  <2>7. s.evals = After(ev, b)
    <3>1. b \in ToSet(<<b>> \o t)
      <4>1. Prepended(<<b>> \o t, b, t)
        BY <1>3, <2>5, PrependFacts
      <4> QED
        BY <4>1 DEF Prepended
    <3>2. ev \in [Block -> Nat] /\ ev[b] < r[b] /\ r[b] \in Nat
      BY <3>1, <2>1, <2>3, <1>3, EdgeFacts DEF OnPlan, Schedule, Bounded
    <3>3. ev[b] < MaxEvals
      BY <3>2, <2>4, <1>3, TripCountAssumption
    <3> QED
      BY <2>9, <3>3 DEF After
  <2>8. OnPlan(Graph, Loops, r, After(ev, b), res.wl, res.ec, UpdateSuccessorAnalyzers(an, b))
    BY <2>1, <2>3, <2>5, PlanContinues
  <2>10. Pending(s) = s.Worklist
    BY <1>3 DEF Pending
  <2> QED
    BY <2>2, <2>6, <2>7, <2>8, <2>10, <1>3 DEF ScopeOnPlan, r
<1>6. s \in ScopeT
  BY <1>3 DEF ScopeOK
<1> QED
  BY <1>1, <1>3, <1>5, <1>6, TopStaysOnPlan

\* Every step keeps the scopes on schedule.
LEMMA NextPlan == EnoughEvals /\ IInv /\ PlanInv /\ [Next]_vars => PlanInv'
<1> SUFFICES ASSUME EnoughEvals, IInv, PlanInv, [Next]_vars PROVE PlanInv'
  OBVIOUS
<1>1. CASE Step
  BY <1>1, ProcessFunctionPlan, BeginBlockPlan, InterpretCallPlan, SkipCallPlan,
     EndBlockPlan, ReturnPlan DEF Step
<1>2. CASE UNCHANGED vars
  BY <1>2, PlanKept DEF vars, PlanInv
<1> QED
  BY <1>1, <1>2 DEF Next

\* At first there are no scopes.
LEMMA InitPlan == Init => PlanInv
BY DEF Init, PlanInv

\* On schedule a block has evaluations left and all that leads to it is there.
LEMMA PlanReady ==
    ASSUME IInv, PlanInv, PlainModule(module)
    PROVE  ReadyToEvaluate
<1> SUFFICES ASSUME Scopes # <<>>, Top.block # NoBlock
             PROVE  Top.EvalCount[Top.block] # 0 /\ AnalyzerComplete
  BY DEF ReadyToEvaluate, Evaluating
<1> DEFINE b == Top.block
           t == Top.Worklist
           r == Times(Top.func)
           q == ToSet(<<b>> \o t)
           A == Top.Analyzer
<1>1. /\ Running /\ b \in Block /\ t \in Seq(Block) /\ Len(Scopes) \in 1..Len(Scopes)
  BY TopFacts
<1>2. Shape(Graph, Loops, r)
  BY <1>1, RunningTimes
<1>3. Graph = module[Top.func].succ /\ Loops = module[Top.func].loops
  BY <1>1 DEF Graph, Loops, Running
<1>4. OnPlan(Graph, Loops, r, Top.evals, <<b>> \o t, Top.EvalCount, A)
  <2>1. ScopeOnPlan(Top)
    BY <1>1 DEF PlanInv, Top
  <2>2. Pending(Top) = <<b>> \o t
    BY DEF Pending
  <2> QED
    BY <2>1, <2>2, <1>3 DEF ScopeOnPlan
<1> HIDE DEF b, t, r, A
<1>5. b \in q
  <2>1. Prepended(<<b>> \o t, b, t)
    BY <1>1, PrependFacts
  <2> QED
    BY <2>1 DEF Prepended
<1>6. /\ Schedule(Graph, Loops, r, Top.evals, q) /\ CountsFit(Graph, Loops, r, Top.evals, q, Top.EvalCount)
      /\ Gathered(Graph, Loops, Top.evals, A)
  BY <1>4 DEF OnPlan
<1> HIDE DEF q
<1>7. Top.EvalCount[b] # 0
  BY <1>2, <1>5, <1>6, CountDownFits
<1>8. AnalyzerComplete
  <2>1. \A p \in Block \ {b} : b \in ReachFrom(Forward(Graph, Loops), {p}, Block) => p \in A[b]
    BY <1>2, <1>5, <1>6, AllGathered
  <2> QED
    BY <2>1, <1>3 DEF AnalyzerComplete, b, A
<1> QED
  BY <1>7, <1>8 DEF b

(***************************************************************************)
(* In a module whose functions have plain loops, whatever its branches,    *)
(* calls and trip counts, the interpreter begins no block that has no      *)
(* evaluations left: the assertion of CodeInterpreter.cpp:52 never fails.  *)
(* And it begins none before the results of all blocks on the paths to it  *)
(* are in its analyzer: followEdge waits for all predecessors.             *)
(***************************************************************************)
THEOREM PlainLoopsReady ==
    ASSUME EnoughEvals
    PROVE  Spec => [](PlainModule(module) => ReadyToEvaluate)
<1>1. IInv /\ PlanInv /\ [Next]_vars => (IInv /\ PlanInv)'
  BY NextIInv, NextPlan
<1>2. Init => IInv /\ PlanInv
  BY InitIInv, InitPlan
<1>3. IInv /\ PlanInv => (PlainModule(module) => ReadyToEvaluate)
  BY PlanReady
<1> QED
  BY <1>1, <1>2, <1>3, PTL DEF Spec

\* What a block counts of a loop around it, in UnrolledExactly.
RoundsIn(b, h) ==
    EnteringCount(Top.func, h) + IF b = h /\ Exiting(Graph, Loops, h, h) THEN 1 ELSE 0

\* The product of no count is one, that of one count is the count.
LEMMA ProductOfOne ==
    ASSUME NEW b, NEW S, \A h \in S : RoundsIn(b, h) \in Nat
    PROVE  /\ S = {} => FoldSet(LAMBDA h, n : n * RoundsIn(b, h), 1, S) = 1
           /\ \A k : S = {k} => FoldSet(LAMBDA h, n : n * RoundsIn(b, h), 1, S) = RoundsIn(b, k)
<1> DEFINE Eq(f) == f = [s \in SUBSET S |->
                            IF s = {} THEN 1
                            ELSE LET x == CHOOSE x \in s : TRUE IN f[s \ {x}] * RoundsIn(b, x)]
           it == CHOOSE f : Eq(f)
           p == FoldSet(LAMBDA h, n : n * RoundsIn(b, h), 1, S)
<1>1. p = it[S]
  BY DEF FoldSet, MapThenFoldSet
<1>2. CASE S = {}
  <2> DEFINE f == [s \in SUBSET S |-> 1]
  <2>1. Eq(f)
    BY <1>2
  <2> HIDE DEF f
  <2>2. Eq(it)
    BY <2>1
  <2> HIDE DEF it
  <2>3. it[S] = 1
    BY <2>2, <1>2
  <2> QED
    BY <1>1, <1>2, <2>3
<1>3. ASSUME NEW k, S = {k} PROVE p = RoundsIn(b, k)
  <2> DEFINE f == [s \in SUBSET S |-> IF s = {} THEN 1 ELSE 1 * RoundsIn(b, k)]
  <2>1. \A s \in SUBSET S : s = {} \/ s = {k}
    BY <1>3
  <2>2. \A s \in SUBSET S : s # {} => (CHOOSE x \in s : TRUE) = k /\ s \ {k} = {}
    BY <2>1
  <2>3. \A s \in SUBSET S : f[s] = IF s = {} THEN 1
            ELSE LET x == CHOOSE x \in s : TRUE IN f[s \ {x}] * RoundsIn(b, x)
    <3> SUFFICES ASSUME NEW s \in SUBSET S
                 PROVE  f[s] = IF s = {} THEN 1
            ELSE LET x == CHOOSE x \in s : TRUE IN f[s \ {x}] * RoundsIn(b, x)
      OBVIOUS
    <3>1. f[{}] = 1
      OBVIOUS
    <3>2. f[s] = IF s = {} THEN 1 ELSE 1 * RoundsIn(b, k)
      OBVIOUS
    <3> HIDE DEF f
    <3> QED
      BY <3>1, <3>2, <2>2
  <2>4. f = [s \in SUBSET S |-> f[s]]
    OBVIOUS
  <2> HIDE DEF f
  <2>5. Eq(f)
    BY <2>3, <2>4
  <2>6. Eq(it)
    BY <2>5
  <2> HIDE DEF it
  <2>7. it[{}] = 1 /\ it[S] = it[S \ {k}] * RoundsIn(b, k)
    <3>1. S \in SUBSET S /\ {} \in SUBSET S /\ S # {}
      BY <1>3
    <3> QED
      BY <2>6, <2>2, <3>1
  <2>8. S \ {k} = {} /\ RoundsIn(b, k) \in Nat
    BY <1>3
  <2>9. it[S \ {k}] = 1
    BY <2>7, <2>8
  <2>10. \A n \in Nat : 1 * n = n
    OBVIOUS
  <2>11. it[S] = RoundsIn(b, k)
    BY <2>7, <2>8, <2>9, <2>10
  <2> QED
    BY <2>11, <1>1
<1> QED
  BY <1>2, <1>3

\* When nothing is left to be evaluated, every count has been reached.
LEMMA PlanUnrolled ==
    ASSUME IInv, PlanInv, PlainModule(module)
    PROVE  UnrolledExactly
<1> SUFFICES ASSUME Scopes # <<>>, Ended(Top), NEW b \in Block
             PROVE  Top.evals[b] = FoldSet(LAMBDA h, n : n * RoundsIn(b, h), 1, Nest(Loops, b))
  BY DEF UnrolledExactly, RoundsIn
<1> DEFINE r == Times(Top.func)
           S == Nest(Loops, b)
<1>1. /\ Running /\ Len(Scopes) \in 1..Len(Scopes) /\ Top.func \in Func /\ module \in Modules
  BY TopFacts DEF Running
<1>2. /\ Shape(Graph, Loops, r)
      /\ \A h \in DOMAIN Loops : EnteringCount(Top.func, h) = TripCount(Top.func, h)
  BY <1>1, RunningTimes
<1>3. Graph = module[Top.func].succ /\ Loops = module[Top.func].loops
  BY <1>1 DEF Graph, Loops, Running
<1>4. Top.evals[b] = r[b]
  <2>1. ScopeOnPlan(Top)
    BY <1>1 DEF PlanInv, Top
  <2>2. Pending(Top) = <<>> /\ ToSet(<<>>) = {}
    BY DEF Pending, Ended, ToSet
  <2>3. OnPlan(Graph, Loops, r, Top.evals, <<>>, Top.EvalCount, Top.Analyzer)
    BY <2>1, <2>2, <1>3 DEF ScopeOnPlan
  <2> HIDE DEF r
  <2>4. Schedule(Graph, Loops, r, Top.evals, {})
    BY <2>2, <2>3 DEF OnPlan
  <2> QED
    BY <2>4, <1>2, AllDone
<1>5. \A h \in DOMAIN Loops : \A x \in Loops[h] :
         r[x] = IF x = h /\ Exiting(Graph, Loops, h, h)
                THEN TripCount(Top.func, h) + 1 ELSE TripCount(Top.func, h)
  BY <1>1, <1>3, TimesFacts
<1>6. \A h \in DOMAIN Loops : TripCount(Top.func, h) \in Nat
  BY <1>1, <1>3, TripFacts
<1>7. \A h \in S : h \in DOMAIN Loops /\ b \in Loops[h]
  BY DEF Nest
<1> HIDE DEF r, S
<1>8. \A h \in S : r[b] = RoundsIn(b, h) /\ RoundsIn(b, h) \in Nat
  BY <1>2, <1>5, <1>6, <1>7 DEF RoundsIn
<1>9. CASE S = {}
  <2>1. r[b] = 1
    BY <1>2, <1>9 DEF S, Nest, Outside, Shape
  <2>2. FoldSet(LAMBDA h, n : n * RoundsIn(b, h), 1, S) = 1
    BY <1>8, <1>9, ProductOfOne
  <2> QED
    BY <2>1, <2>2, <1>4 DEF S
<1>10. ASSUME NEW k \in S PROVE Top.evals[b] = FoldSet(LAMBDA h, n : n * RoundsIn(b, h), 1, S)
  <2>1. S = {k}
    BY <1>2, <1>7, <1>10 DEF Shape, Plain, PlainLoop, S
  <2>2. FoldSet(LAMBDA h, n : n * RoundsIn(b, h), 1, S) = RoundsIn(b, k)
    BY <2>1, <1>8, ProductOfOne
  <2> QED
    BY <2>2, <1>4, <1>8
<1> QED
  BY <1>9, <1>10 DEF S

(***************************************************************************)
(* In such a module, when interpretFunction ends, it has evaluated each    *)
(* block as often as the trip count of its loop says, once more a header   *)
(* that can leave the loop, and once each block outside of loops: what     *)
(* followEdge counts is what unrolling the loop would execute.             *)
(***************************************************************************)
THEOREM PlainLoopsUnrolled ==
    ASSUME EnoughEvals
    PROVE  Spec => [](PlainModule(module) => UnrolledExactly)
<1>1. IInv /\ PlanInv /\ [Next]_vars => (IInv /\ PlanInv)'
  BY NextIInv, NextPlan
<1>2. Init => IInv /\ PlanInv
  BY InitIInv, InitPlan
<1>3. IInv /\ PlanInv => (PlainModule(module) => UnrolledExactly)
  BY PlanUnrolled
<1> QED
  BY <1>1, <1>2, <1>3, PTL DEF Spec

(***************************************************************************)
(* What the stores hold.  A block that was evaluated in a scope, or whose  *)
(* results an analyzer holds, is in the global store; the functions that   *)
(* it calls have been called, and so have those that the block being       *)
(* evaluated calls, but for the calls it has still to make.                *)
(***************************************************************************)
Callees(f, b) == ToSet(module[f].calls[b])

ScopeStored(s, rc, gs) ==
    /\ \A b \in Block : s.evals[b] > 0 => <<s.func, b>> \in gs
    /\ \A b \in Block : \A x \in s.Analyzer[b] : <<s.func, x>> \in gs
    /\ s.block # NoBlock =>
          \A c \in Callees(s.func, s.block) : c \in ToSet(s.calls) \/ rc[c] # Unseen

CallsSeen(rc, gs) ==
    \A f \in Func, b \in Block :
        <<f, b>> \in gs => \A c \in Callees(f, b) : rc[c] # Unseen

StoreInv ==
    /\ \A i \in 1..Len(Scopes) : ScopeStored(Scopes[i], RecursionCount, GlobalStore)
    /\ CallsSeen(RecursionCount, GlobalStore)

\* What a step forgets of neither.
Remembers(rc, gs, rc2, gs2) ==
    gs \subseteq gs2 /\ \A c \in Func : rc[c] # Unseen => rc2[c] # Unseen

\* The functions called are functions.
LEMMA CalleesFacts ==
    ASSUME module \in Modules, NEW f \in Func, NEW b \in Block
    PROVE  module[f].calls[b] \in Seq(Func) /\ Callees(f, b) \subseteq Func
<1>1. module[f].calls[b] \in Seq(Func)
  BY ModuleAssumption
<1> QED
  BY <1>1 DEF Callees, ToSet

\* A scope that does not change.
LEMMA StoredStays ==
    ASSUME module \in Modules, NEW s \in ScopeT, NEW rc, NEW gs, NEW rc2, NEW gs2,
           ScopeStored(s, rc, gs), Remembers(rc, gs, rc2, gs2)
    PROVE  ScopeStored(s, rc2, gs2)
<1>1. s.func \in Func /\ s.block \in Block \cup {NoBlock}
  BY DEF ScopeT
<1>2. s.block # NoBlock => Callees(s.func, s.block) \subseteq Func
  BY <1>1, CalleesFacts
<1> QED
  BY <1>2 DEF ScopeStored, Remembers

\* The invariant refers to no other variables.
LEMMA StoreKept ==
    ASSUME UNCHANGED module, CallsSeen(RecursionCount', GlobalStore'),
           \A i \in 1..Len(Scopes') : ScopeStored(Scopes'[i], RecursionCount', GlobalStore')
    PROVE  StoreInv'
BY DEF StoreInv, CallsSeen, ScopeStored, Callees

\* A step that changes only the innermost scope.
LEMMA TopStored ==
    ASSUME IInv, StoreInv, Scopes # <<>>, NEW s \in ScopeT, SetTop(s), UNCHANGED module,
           ScopeStored(s, RecursionCount', GlobalStore'),
           Remembers(RecursionCount, GlobalStore, RecursionCount', GlobalStore'),
           CallsSeen(RecursionCount', GlobalStore')
    PROVE  StoreInv'
<1>1. /\ Len(Scopes) \in Nat \ {0} /\ Scopes \in Seq(ScopeT) /\ module \in Modules
  BY TopFacts DEF Running
<1>2. /\ Len(Scopes') = Len(Scopes) /\ Scopes'[Len(Scopes)] = s
      /\ \A i \in 1..(Len(Scopes) - 1) : Scopes'[i] = Scopes[i]
  BY <1>1 DEF SetTop
<1>3. \A i \in 1..Len(Scopes') : i = Len(Scopes) \/ (i \in 1..(Len(Scopes) - 1) /\ i \in 1..Len(Scopes))
  BY <1>1, <1>2
<1>4. ASSUME NEW i \in 1..Len(Scopes)
      PROVE  ScopeStored(Scopes[i], RecursionCount', GlobalStore')
  <2>1. Scopes[i] \in ScopeT /\ ScopeStored(Scopes[i], RecursionCount, GlobalStore)
    BY <1>1 DEF StoreInv
  <2> QED
    BY <2>1, <1>1, StoredStays
<1>5. ASSUME NEW i \in 1..Len(Scopes')
      PROVE  ScopeStored(Scopes'[i], RecursionCount', GlobalStore')
  <2>1. CASE i = Len(Scopes)
    BY <2>1, <1>2
  <2>2. CASE i # Len(Scopes)
    <3>1. i \in 1..(Len(Scopes) - 1) /\ i \in 1..Len(Scopes)
      BY <2>2, <1>3
    <3> QED
      BY <3>1, <1>2, <1>4
  <2> QED
    BY <2>1, <2>2
<1> QED
  BY <1>5, StoreKept

\* A new scope has evaluated nothing.
LEMMA NewScopeStored ==
    ASSUME NEW f \in Func, NEW rc, NEW gs
    PROVE  ScopeStored(NewScope(f), rc, gs)
BY DEF NewScope, ScopeStored

\* At first nothing has been stored.
LEMMA InitStored == Init => StoreInv
BY DEF Init, StoreInv, CallsSeen

\* processModule begins with a scope that has evaluated nothing.
LEMMA ProcessFunctionStored == IInv /\ StoreInv /\ ProcessFunction => StoreInv'
<1> SUFFICES ASSUME IInv, StoreInv, ProcessFunction PROVE StoreInv'
  OBVIOUS
<1>1. /\ todo \in Seq(Func) /\ todo # <<>>
      /\ UNCHANGED <<module, RecursionCount, GlobalStore>> /\ Scopes = <<>>
      /\ IF module[Head(todo)].start
         THEN Scopes' = <<NewScope(Head(todo))>> ELSE UNCHANGED Scopes
  BY DEF IInv, TypeOK, ProcessFunction
<1>2. Head(todo) \in Func
  BY <1>1
<1> DEFINE s == NewScope(Head(todo))
<1>3. ScopeStored(s, RecursionCount', GlobalStore')
  BY <1>2, NewScopeStored
<1>4. Scopes' = <<s>> \/ Scopes' = <<>>
  BY <1>1
<1> HIDE DEF s
<1>5. \A i \in 1..Len(Scopes') : Scopes'[i] = s
  BY <1>4
<1>6. CallsSeen(RecursionCount', GlobalStore')
  BY <1>1 DEF StoreInv
<1> QED
  BY <1>1, <1>3, <1>5, <1>6, StoreKept

\* All calls of the block are still to be made.
LEMMA BeginBlockStored == IInv /\ StoreInv /\ BeginBlock => StoreInv'
<1> SUFFICES ASSUME IInv, StoreInv, BeginBlock PROVE StoreInv'
  OBVIOUS
<1> DEFINE b == Head(Top.Worklist)
           s == [Top EXCEPT !.block = b, !.Worklist = Tail(@),
                            !.calls = module[Top.func].calls[b]]
<1>1. /\ Scopes # <<>> /\ Top.Worklist # <<>> /\ SetTop(s)
      /\ UNCHANGED <<module, RecursionCount, GlobalStore>>
  BY DEF BeginBlock
<1>2. /\ Top \in ScopeT /\ Top.func \in Func /\ module \in Modules
      /\ Top.Worklist \in Seq(Block) /\ Len(Scopes) \in 1..Len(Scopes)
  BY <1>1, TopFacts DEF Running
<1>3. b \in Block /\ Tail(Top.Worklist) \in Seq(Block)
  BY <1>1, <1>2
<1>4. module[Top.func].calls[b] \in Seq(Func)
  BY <1>2, <1>3, CalleesFacts
<1>5. /\ s \in ScopeT /\ s.block = b /\ s.calls = module[Top.func].calls[b] /\ s.func = Top.func
      /\ s.evals = Top.evals /\ s.Analyzer = Top.Analyzer
  <2> HIDE DEF b
  <2> QED
    BY <1>2, <1>3, <1>4 DEF ScopeT
<1> HIDE DEF s, b
<1>6. ScopeStored(Top, RecursionCount, GlobalStore) /\ CallsSeen(RecursionCount, GlobalStore)
  BY <1>2 DEF StoreInv, Top
<1>7. ScopeStored(s, RecursionCount', GlobalStore')
  BY <1>1, <1>5, <1>6 DEF ScopeStored, Callees
<1>8. /\ Remembers(RecursionCount, GlobalStore, RecursionCount', GlobalStore')
      /\ CallsSeen(RecursionCount', GlobalStore')
  BY <1>1, <1>6 DEF Remembers
<1> QED
  BY <1>1, <1>5, <1>7, <1>8, TopStored

\* Dropping the first call, of a function that has been called.
LEMMA CallDropped ==
    ASSUME IInv, Scopes # <<>>, Top.calls # <<>>, NEW rc, NEW gs, rc[Callee] # Unseen,
           ScopeStored(Top, rc, gs)
    PROVE  /\ [Top EXCEPT !.calls = Tail(@)] \in ScopeT
           /\ ScopeStored([Top EXCEPT !.calls = Tail(@)], rc, gs)
<1> DEFINE s == [Top EXCEPT !.calls = Tail(@)]
<1>1. Top \in ScopeT /\ Top.calls \in Seq(Func)
  BY TopFacts
<1>2. /\ Tail(Top.calls) \in Seq(Func)
      /\ \A c \in ToSet(Top.calls) : c = Callee \/ c \in ToSet(Tail(Top.calls))
  <2>1. Tail(Top.calls) \in Seq(Func)
    BY <1>1
  <2>2. ASSUME NEW c \in ToSet(Top.calls), c # Callee PROVE c \in ToSet(Tail(Top.calls))
    <3>1. PICK i \in 1..Len(Top.calls) : c = Top.calls[i]
      BY <1>1 DEF ToSet
    <3>2. i # 1
      BY <3>1, <2>2 DEF Callee
    <3>3. i - 1 \in 1..Len(Tail(Top.calls)) /\ Tail(Top.calls)[i - 1] = Top.calls[i]
      BY <3>1, <3>2, <1>1
    <3> QED
      BY <3>1, <3>3, <2>1 DEF ToSet
  <2> QED
    BY <2>1, <2>2
<1>3. /\ s \in ScopeT /\ s.block = Top.block /\ s.calls = Tail(Top.calls) /\ s.func = Top.func
      /\ s.evals = Top.evals /\ s.Analyzer = Top.Analyzer
  BY <1>1, <1>2 DEF ScopeT
<1> HIDE DEF s
<1>4. ScopeStored(s, rc, gs)
  BY <1>2, <1>3 DEF ScopeStored
<1> QED
  BY <1>3, <1>4 DEF s

\* A call that is skipped is one of a function that has been called.
LEMMA SkipCallStored == IInv /\ StoreInv /\ SkipCall => StoreInv'
<1> SUFFICES ASSUME IInv, StoreInv, SkipCall PROVE StoreInv'
  OBVIOUS
<1> DEFINE s == [Top EXCEPT !.calls = Tail(@)]
<1>1. /\ Scopes # <<>> /\ Top.calls # <<>> /\ SetTop(s) /\ RecursionCount[Callee] = 0
      /\ UNCHANGED <<module, RecursionCount, GlobalStore>>
  BY DEF SkipCall, MayCall
<1>2. Len(Scopes) \in 1..Len(Scopes)
  BY <1>1, TopFacts
<1>3. RecursionCount[Callee] # Unseen
  BY <1>1, TripCountAssumption
<1>4. ScopeStored(Top, RecursionCount, GlobalStore) /\ CallsSeen(RecursionCount, GlobalStore)
  BY <1>2 DEF StoreInv, Top
<1>5. s \in ScopeT /\ ScopeStored(s, RecursionCount', GlobalStore')
  BY <1>1, <1>3, <1>4, CallDropped
<1>6. /\ Remembers(RecursionCount, GlobalStore, RecursionCount', GlobalStore')
      /\ CallsSeen(RecursionCount', GlobalStore')
  BY <1>1, <1>4 DEF Remembers
<1> HIDE DEF s
<1> QED
  BY <1>1, <1>5, <1>6, TopStored

\* A call counts its callee as called.
LEMMA CallCounted ==
    ASSUME IInv, InterpretCall
    PROVE  /\ RecursionCount'[Callee] # Unseen /\ Callee \in Func
           /\ \A c \in Func : RecursionCount[c] # Unseen => RecursionCount'[c] # Unseen
           /\ \A c \in Func : c # Callee => RecursionCount'[c] = RecursionCount[c]
<1>1. /\ Scopes # <<>> /\ Top.calls # <<>> /\ MayCall(Callee)
      /\ RecursionCount' = [RecursionCount EXCEPT ![Callee] = CallsLeft(Callee)]
  BY DEF InterpretCall
<1>2. Top.calls \in Seq(Func) /\ module \in Modules
  BY <1>1, TopFacts DEF Running
<1>3. Callee \in Func
  BY <1>1, <1>2 DEF Callee
<1>4. RecursionCount \in [Func -> Nat \cup {Unseen}] /\ module[Callee].maxrec \in Nat
  BY <1>2, <1>3, ModuleAssumption DEF IInv, TypeOK
<1>5. CallsLeft(Callee) \in Nat /\ Unseen \notin Nat
  BY <1>1, <1>3, <1>4, TripCountAssumption DEF CallsLeft, MayCall
<1> QED
  BY <1>1, <1>3, <1>4, <1>5

\* The calling scope drops the call, the new one has evaluated nothing.
LEMMA InterpretCallStored == IInv /\ StoreInv /\ InterpretCall => StoreInv'
<1> SUFFICES ASSUME IInv, StoreInv, InterpretCall PROVE StoreInv'
  OBVIOUS
<1> DEFINE N == Len(Scopes)
           S1 == [Scopes EXCEPT ![N].calls = Tail(@)]
           t == [Top EXCEPT !.calls = Tail(@)]
           s == NewScope(Callee)
<1>1. /\ Scopes # <<>> /\ Top.calls # <<>> /\ Scopes' = Append(S1, s)
      /\ UNCHANGED <<module, GlobalStore>>
  BY DEF InterpretCall
<1>2. /\ N \in Nat \ {0} /\ N \in 1..N /\ Scopes \in Seq(ScopeT) /\ Top \in ScopeT /\ module \in Modules
  BY <1>1, TopFacts DEF Running
<1>3. /\ Callee \in Func /\ RecursionCount'[Callee] # Unseen
      /\ Remembers(RecursionCount, GlobalStore, RecursionCount', GlobalStore')
  BY <1>1, CallCounted DEF Remembers
<1>4. s \in ScopeT /\ ScopeStored(s, RecursionCount', GlobalStore')
  BY <1>3, NewScopeOK, NewScopeStored DEF ScopeOK
<1>5. ASSUME NEW i \in 1..N PROVE ScopeStored(Scopes[i], RecursionCount', GlobalStore')
  <2>1. Scopes[i] \in ScopeT /\ ScopeStored(Scopes[i], RecursionCount, GlobalStore)
    BY <1>2 DEF StoreInv
  <2> QED
    BY <2>1, <1>2, <1>3, StoredStays
<1>6. t \in ScopeT /\ ScopeStored(t, RecursionCount', GlobalStore')
  <2>1. ScopeStored(Top, RecursionCount', GlobalStore')
    BY <1>2, <1>5 DEF Top
  <2> QED
    BY <2>1, <1>1, <1>3, CallDropped
<1>7. S1 = [Scopes EXCEPT ![N] = t]
  BY DEF Top
<1> HIDE DEF s, t, S1
<1>8. /\ Len(Scopes') = N + 1 /\ Scopes'[N+1] = s /\ Scopes'[N] = t
      /\ \A i \in 1..(N-1) : Scopes'[i] = Scopes[i]
  <2>1. /\ S1 \in Seq(ScopeT) /\ Len(S1) = N /\ S1[N] = t
        /\ \A i \in 1..(N-1) : S1[i] = Scopes[i]
    BY <1>2, <1>6, <1>7
  <2> QED
    BY <2>1, <1>1, <1>2, <1>4
<1>9. \A i \in 1..(N+1) : i = N + 1 \/ i = N \/ (i \in 1..(N-1) /\ i \in 1..N)
  BY <1>2
<1>10. \A i \in 1..Len(Scopes') : ScopeStored(Scopes'[i], RecursionCount', GlobalStore')
  <2> SUFFICES ASSUME NEW i \in 1..Len(Scopes')
               PROVE  ScopeStored(Scopes'[i], RecursionCount', GlobalStore')
    OBVIOUS
  <2>1. i = N + 1 \/ i = N \/ (i \in 1..(N-1) /\ i \in 1..N)
    BY <1>8, <1>9
  <2> QED
    BY <2>1, <1>4, <1>5, <1>6, <1>8
<1>11. CallsSeen(RecursionCount', GlobalStore')
  <2>1. CallsSeen(RecursionCount, GlobalStore)
    BY DEF StoreInv
  <2>2. \A f \in Func, b \in Block : Callees(f, b) \subseteq Func
    BY <1>2, CalleesFacts
  <2> QED
    BY <2>1, <2>2, <1>1, <1>3 DEF CallsSeen, Remembers
<1> QED
  BY <1>1, <1>10, <1>11, StoreKept

\* The end of a block stores the block, whose calls have all been made.
LEMMA EndBlockStored == IInv /\ StoreInv /\ EndBlock => StoreInv'
<1> SUFFICES ASSUME IInv, StoreInv, EndBlock PROVE StoreInv'
  OBVIOUS
<1>1. /\ Scopes # <<>> /\ Top.block # NoBlock /\ Top.calls = <<>>
      /\ UNCHANGED <<module, RecursionCount>>
      /\ \E s, r0, b, an : EndsBlock(s, r0, b, an)
  BY EndBlockFacts
<1>2. PICK s, r0, b, an : EndsBlock(s, r0, b, an)
  BY <1>1
<1>3. /\ b = Top.block /\ b \in Block
      /\ an = [Top.Analyzer EXCEPT ![b] = @ \cup {b}]
      /\ GlobalStore' = GlobalStore \cup {<<Top.func, x>> : x \in an[b]}
      /\ SetTop(s) /\ s \in ScopeT /\ s.func = Top.func /\ s.block = NoBlock
      /\ s.Analyzer = UpdateSuccessorAnalyzers(an, b)
      /\ s.evals = [Top.evals EXCEPT ![b] = IF @ < MaxEvals THEN @ + 1 ELSE @]
  BY <1>2 DEF EndsBlock, ScopeOK
<1>4. /\ Len(Scopes) \in 1..Len(Scopes) /\ Top.func \in Func
      /\ Top.Analyzer \in [Block -> SUBSET Block] /\ Top.evals \in [Block -> Nat]
  BY SMTT(30), <1>1, TopFacts DEF ScopeT
<1>5. ScopeStored(Top, RecursionCount, GlobalStore) /\ CallsSeen(RecursionCount, GlobalStore)
  BY <1>4 DEF StoreInv, Top
<1>6. /\ an[b] = Top.Analyzer[b] \cup {b}
      /\ \A x \in Block : x # b => an[x] = Top.Analyzer[x]
      /\ \A x \in Block : x # b => s.evals[x] = Top.evals[x]
  BY <1>3, <1>4
<1>7. /\ <<Top.func, b>> \in GlobalStore' /\ GlobalStore \subseteq GlobalStore'
      /\ GlobalStore' \subseteq GlobalStore \cup {<<Top.func, b>>}
  <2>1. \A x \in an[b] : x = b \/ <<Top.func, x>> \in GlobalStore
    BY <1>3, <1>5, <1>6 DEF ScopeStored
  <2> QED
    BY <2>1, <1>3, <1>6
<1>8. CallsSeen(RecursionCount', GlobalStore')
  <2>1. \A c \in Callees(Top.func, b) : RecursionCount[c] # Unseen
    <3>1. ToSet(<<>>) = {}
      BY DEF ToSet
    <3> QED
      BY <3>1, <1>1, <1>3, <1>5 DEF ScopeStored
  <2>2. ASSUME NEW f \in Func, NEW x \in Block, <<f, x>> \in GlobalStore'
        PROVE  \A c \in Callees(f, x) : RecursionCount[c] # Unseen
    <3>1. CASE <<f, x>> \in GlobalStore
      BY <3>1, <1>5 DEF CallsSeen
    <3>2. CASE <<f, x>> \notin GlobalStore
      <4>1. f = Top.func /\ x = b
        BY <3>2, <2>2, <1>7
      <4> QED
        BY <4>1, <2>1
    <3> QED
      BY <3>1, <3>2
  <2> QED
    BY <2>2, <1>1 DEF CallsSeen
<1>9. ScopeStored(s, RecursionCount', GlobalStore')
  <2>1. \A x \in Block : s.evals[x] > 0 => <<s.func, x>> \in GlobalStore'
    <3> SUFFICES ASSUME NEW x \in Block, s.evals[x] > 0 PROVE <<Top.func, x>> \in GlobalStore'
      BY <1>3
    <3>1. CASE x = b
      BY <3>1, <1>7
    <3>2. CASE x # b
      <4>1. Top.evals[x] > 0
        BY <3>2, <1>6
      <4> QED
        BY <4>1, <1>5, <1>7 DEF ScopeStored
    <3> QED
      BY <3>1, <3>2
  <2>2. \A y \in Block : \A x \in an[y] : <<Top.func, x>> \in GlobalStore'
    BY <1>3, <1>5, <1>6, <1>7 DEF ScopeStored
  <2>3. \A y \in Block : \A x \in s.Analyzer[y] : <<s.func, x>> \in GlobalStore'
    <3>1. \A y \in Block : s.Analyzer[y] \subseteq an[y] \cup an[b]
      BY <1>3 DEF UpdateSuccessorAnalyzers
    <3> QED
      BY <3>1, <2>2, <1>3
  <2> QED
    BY <2>1, <2>3, <1>3 DEF ScopeStored
<1>10. Remembers(RecursionCount, GlobalStore, RecursionCount', GlobalStore')
  BY <1>1, <1>7 DEF Remembers
<1> QED
  BY <1>1, <1>3, <1>8, <1>9, <1>10, TopStored

\* The scopes below stay.
LEMMA ReturnStored == IInv /\ StoreInv /\ Return => StoreInv'
<1> SUFFICES ASSUME IInv, StoreInv, Return PROVE StoreInv'
  OBVIOUS
<1>1. Scopes # <<>> /\ Scopes' = Front(Scopes) /\ UNCHANGED <<module, RecursionCount, GlobalStore>>
  BY DEF Return
<1>2. Scopes \in Seq(ScopeT)
  BY <1>1, TopFacts
<1>3. \A i \in 1..Len(Scopes') : i \in 1..Len(Scopes) /\ Scopes'[i] = Scopes[i]
  BY <1>1, <1>2, FrontKeeps
<1> QED
  BY <1>1, <1>3, StoreKept DEF StoreInv

\* Every step keeps what the stores hold.
LEMMA NextStored == IInv /\ StoreInv /\ [Next]_vars => StoreInv'
<1> SUFFICES ASSUME IInv, StoreInv, [Next]_vars PROVE StoreInv'
  OBVIOUS
<1>1. CASE Step
  BY <1>1, ProcessFunctionStored, BeginBlockStored, InterpretCallStored, SkipCallStored,
     EndBlockStored, ReturnStored DEF Step
<1>2. CASE UNCHANGED vars
  BY <1>2, StoreKept DEF vars, StoreInv
<1> QED
  BY <1>1, <1>2 DEF Next

(***************************************************************************)
(* A function that has been met is being interpreted, or all its blocks    *)
(* are in the global store.  The starting points that are no more to be    *)
(* considered have been met, and so have the functions called.             *)
(***************************************************************************)
OnStack(f) == \E i \in 1..Len(Scopes) : Scopes[i].func = f

Merged(f) == {f} \X Block \subseteq GlobalStore

MetInv ==
    PlainModule(module) =>
        /\ \A f \in Func : module[f].start => f \in ToSet(todo) \/ OnStack(f) \/ Merged(f)
        /\ \A f \in Func : RecursionCount[f] # Unseen => OnStack(f) \/ Merged(f)

\* The functions of the scopes, when the innermost one changes.
LEMMA StackStays ==
    ASSUME IInv, Scopes # <<>>, NEW s, s.func = Top.func, SetTop(s), NEW f, OnStack(f)
    PROVE  OnStack(f)'
<1>1. Len(Scopes) \in Nat \ {0} /\ Scopes \in Seq(ScopeT)
  BY TopFacts
<1>2. /\ Len(Scopes') = Len(Scopes) /\ Scopes'[Len(Scopes)] = s
      /\ \A i \in 1..(Len(Scopes) - 1) : Scopes'[i] = Scopes[i]
  BY <1>1 DEF SetTop
<1>3. PICK i \in 1..Len(Scopes) : Scopes[i].func = f
  BY DEF OnStack
<1>4. CASE i = Len(Scopes)
  BY <1>2, <1>3, <1>4 DEF OnStack, Top
<1>5. CASE i # Len(Scopes)
  <2>1. i \in 1..(Len(Scopes) - 1)
    BY <1>1, <1>5
  <2> QED
    BY <2>1, <1>2, <1>3 DEF OnStack
<1> QED
  BY <1>4, <1>5

\* A call leaves the functions of the scopes there, and adds the callee.
LEMMA PushedOnStack ==
    ASSUME IInv, InterpretCall, NEW c, c = Callee
    PROVE  OnStack(c)' /\ \A f : OnStack(f) => OnStack(f)'
<1> DEFINE N == Len(Scopes)
           S1 == [Scopes EXCEPT ![N].calls = Tail(@)]
           s == NewScope(Callee)
<1>1. Scopes # <<>> /\ Top.calls # <<>> /\ Scopes' = Append(S1, s)
  BY DEF InterpretCall
<1>2. N \in Nat \ {0} /\ Scopes \in Seq(ScopeT) /\ Top.calls \in Seq(Func)
  BY SMTT(30), <1>1, TopFacts
<1>3. /\ S1 \in Seq(ScopeT) /\ Len(S1) = N
      /\ \A i \in 1..N : S1[i].func = Scopes[i].func
  <2> DEFINE t == [Top EXCEPT !.calls = Tail(@)]
  <2>1. Top \in ScopeT /\ Tail(Top.calls) \in Seq(Func)
    BY <1>1, TopFacts
  <2>2. t \in ScopeT /\ t.func = Top.func /\ S1 = [Scopes EXCEPT ![N] = t]
    BY <2>1 DEF ScopeT, Top
  <2> HIDE DEF t, S1
  <2>3. S1 \in Seq(ScopeT) /\ Len(S1) = N /\ S1[N] = t /\ \A i \in 1..N : i # N => S1[i] = Scopes[i]
    BY <1>2, <2>2
  <2> QED
    BY <2>2, <2>3 DEF Top
<1>4. s \in ScopeT /\ s.func = Callee
  <2>1. Callee \in Func
    BY <1>1, <1>2 DEF Callee
  <2> QED
    BY <2>1, NewScopeOK DEF ScopeOK
<1> HIDE DEF s, S1
<1>5. /\ Len(Scopes') = N + 1 /\ Scopes'[N+1] = s
      /\ \A i \in 1..N : i \in 1..(N+1) /\ Scopes'[i] = S1[i]
  BY <1>1, <1>2, <1>3, <1>4
<1>6. N + 1 \in 1..(N+1)
  BY <1>2
<1>7. OnStack(c)'
  <2>1. \E i \in 1..Len(Scopes') : Scopes'[i].func = c
    BY <1>4, <1>5, <1>6
  <2> QED
    BY <2>1 DEF OnStack
<1>8. ASSUME NEW f, OnStack(f) PROVE OnStack(f)'
  BY <1>3, <1>5, <1>8 DEF OnStack
<1> QED
  BY <1>7, <1>8

\* A function that ends has all its blocks in the store.
LEMMA EndedMerged ==
    ASSUME IInv, PlanInv, StoreInv, PlainModule(module), Scopes # <<>>, Ended(Top)
    PROVE  Merged(Top.func)
<1> DEFINE r == Times(Top.func)
<1>1. /\ Running /\ Len(Scopes) \in 1..Len(Scopes)
  BY TopFacts
<1>2. Shape(Graph, Loops, r) /\ Graph = module[Top.func].succ /\ Loops = module[Top.func].loops
  BY <1>1, RunningTimes DEF Graph, Loops, Running
<1>3. Schedule(Graph, Loops, r, Top.evals, {})
  <2>1. ScopeOnPlan(Top)
    BY <1>1 DEF PlanInv, Top
  <2>2. Pending(Top) = <<>> /\ ToSet(<<>>) = {}
    BY DEF Pending, Ended, ToSet
  <2>3. OnPlan(Graph, Loops, r, Top.evals, <<>>, Top.EvalCount, Top.Analyzer)
    BY <2>1, <2>2, <1>2 DEF ScopeOnPlan
  <2> QED
    BY <2>2, <2>3 DEF OnPlan
<1>4. ScopeStored(Top, RecursionCount, GlobalStore)
  BY <1>1 DEF StoreInv, Top
<1> HIDE DEF r
<1>5. ASSUME NEW b \in Block PROVE <<Top.func, b>> \in GlobalStore
  <2>1. Top.evals[b] = r[b] /\ r[b] \in Nat /\ r[b] > 0
    BY <1>2, <1>3, AllDone, EdgeFacts
  <2> QED
    BY <2>1, <1>4 DEF ScopeStored
<1> QED
  BY <1>5 DEF Merged

\* What has been met stays so.
LEMMA MetStays ==
    ASSUME IInv, PlanInv, StoreInv, PlainModule(module), Step, NEW f \in Func,
           OnStack(f) \/ Merged(f)
    PROVE  OnStack(f)' \/ Merged(f)'
<1>1. CASE ProcessFunction
  <2>1. Scopes = <<>> /\ UNCHANGED GlobalStore
    BY <1>1 DEF ProcessFunction
  <2>2. ~OnStack(f)
    BY <2>1 DEF OnStack
  <2> QED
    BY <2>1, <2>2 DEF Merged
<1>2. CASE BeginBlock
  <2> DEFINE b == Head(Top.Worklist)
             s == [Top EXCEPT !.block = b, !.Worklist = Tail(@),
                              !.calls = module[Top.func].calls[b]]
  <2>1. Scopes # <<>> /\ SetTop(s) /\ UNCHANGED GlobalStore
    BY <1>2 DEF BeginBlock
  <2>2. s.func = Top.func
    BY <2>1, TopFacts DEF ScopeT
  <2> HIDE DEF s
  <2>3. OnStack(f) => OnStack(f)'
    BY <2>1, <2>2, StackStays
  <2> QED
    BY <2>1, <2>3 DEF Merged
<1>3. CASE SkipCall
  <2> DEFINE s == [Top EXCEPT !.calls = Tail(@)]
  <2>1. Scopes # <<>> /\ SetTop(s) /\ UNCHANGED GlobalStore
    BY <1>3 DEF SkipCall
  <2>2. s.func = Top.func
    BY <2>1, TopFacts DEF ScopeT
  <2> HIDE DEF s
  <2>3. OnStack(f) => OnStack(f)'
    BY <2>1, <2>2, StackStays
  <2> QED
    BY <2>1, <2>3 DEF Merged
<1>4. CASE InterpretCall
  <2>1. UNCHANGED GlobalStore
    BY <1>4 DEF InterpretCall
  <2>2. OnStack(f) => OnStack(f)'
    BY <1>4, PushedOnStack DEF Callee
  <2> QED
    BY <2>1, <2>2 DEF Merged
<1>5. CASE EndBlock
  <2>1. Scopes # <<>> /\ \E s, r0, b, an : EndsBlock(s, r0, b, an)
    BY <1>5, EndBlockFacts
  <2>2. PICK s, r0, b, an : EndsBlock(s, r0, b, an)
    BY <2>1
  <2>3. SetTop(s) /\ s.func = Top.func /\ GlobalStore \subseteq GlobalStore'
    BY <2>2 DEF EndsBlock
  <2>4. OnStack(f) => OnStack(f)'
    BY <2>1, <2>3, StackStays
  <2> QED
    BY <2>3, <2>4 DEF Merged
<1>6. CASE Return
  <2>1. Scopes # <<>> /\ Ended(Top) /\ Scopes' = Front(Scopes) /\ UNCHANGED GlobalStore
    BY <1>6 DEF Return, Ended
  <2>2. Merged(Top.func)
    BY <2>1, EndedMerged
  <2>3. ASSUME OnStack(f), f # Top.func PROVE OnStack(f)'
    <3>1. PICK i \in 1..Len(Scopes) : Scopes[i].func = f
      BY <2>3 DEF OnStack
    <3>2. Len(Scopes) \in Nat \ {0} /\ Scopes \in Seq(ScopeT) /\ i # Len(Scopes)
      BY <2>1, <2>3, <3>1, TopFacts DEF Top
    <3>3. /\ Len(Scopes') = Len(Scopes) - 1
          /\ \A j \in 1..Len(Scopes') : Scopes'[j] = Scopes[j]
      BY <2>1, <3>2, FrontKeeps
    <3>4. i \in 1..Len(Scopes')
      BY <3>2, <3>3
    <3> QED
      BY <3>1, <3>3, <3>4 DEF OnStack
  <2> QED
    BY <2>1, <2>2, <2>3 DEF Merged
<1> QED
  BY <1>1, <1>2, <1>3, <1>4, <1>5, <1>6 DEF Step

\* A sequence of all the elements of a finite set has these elements.
LEMMA SetToSeqsFacts ==
    ASSUME NEW S, IsFiniteSet(S), NEW s \in SetToSeqs(S)
    PROVE  ToSet(s) = S
<1> PICK n \in Nat : n = Cardinality(S)
  BY FS_CardinalityType
<1>1. s \in [1..n -> S] /\ \A i, j \in 1..n : i # j => s[i] # s[j]
  BY DEF SetToSeqs
<1> DEFINE T == {s[i] : i \in 1..n}
<1>2. s \in Bijection(1..n, T)
  <2>1. s \in [1..n -> T] /\ \A t \in T : \E i \in 1..n : s[i] = t
    BY <1>1
  <2> HIDE DEF T
  <2> QED
    BY <2>1, <1>1, Fun_IsBij
<1>3. T \subseteq S
  BY <1>1
<1>4. ExistsBijection(1..n, T)
  BY <1>2, Zenon DEF ExistsBijection
<1> HIDE DEF T
<1>5. Cardinality(T) = n
  BY <1>4, FS_CountingElements
<1>6. T = S
  BY <1>3, <1>5, FS_Subset
<1> QED
  BY <1>1, <1>6 DEF T, ToSet

\* At first all functions are to be considered, and none has been called.
LEMMA InitMet == Init => MetInv
<1> SUFFICES ASSUME Init PROVE MetInv
  OBVIOUS
<1>1. RecursionCount = [f \in Func |-> Unseen] /\ todo \in SetToSeqs(Func)
  BY DEF Init
<1>2. \A f \in Func : f \in ToSet(todo)
  <2>1. ToSet(todo) = Func
    BY <1>1, ModuleAssumption, SetToSeqsFacts
  <2> QED
    BY <2>1
<1> QED
  BY <1>1, <1>2 DEF MetInv

\* Every step keeps it.
LEMMA NextMet == IInv /\ PlanInv /\ StoreInv /\ MetInv /\ [Next]_vars => MetInv'
<1> SUFFICES ASSUME IInv, PlanInv, StoreInv, MetInv, [Next]_vars PROVE MetInv'
  OBVIOUS
<1>0. UNCHANGED module
  BY DEF Next, Step, vars, ProcessFunction, BeginBlock, InterpretCall, SkipCall, EndBlock, Return
<1> SUFFICES ASSUME PlainModule(module)
             PROVE  /\ \A f \in Func : module[f].start => (f \in ToSet(todo) \/ OnStack(f) \/ Merged(f))'
                    /\ \A f \in Func : (RecursionCount[f] # Unseen)' => (OnStack(f) \/ Merged(f))'
  BY <1>0 DEF MetInv
<1>1. /\ \A f \in Func : module[f].start => f \in ToSet(todo) \/ OnStack(f) \/ Merged(f)
      /\ \A f \in Func : RecursionCount[f] # Unseen => OnStack(f) \/ Merged(f)
  BY DEF MetInv
<1>2. \A f \in Func : OnStack(f) \/ Merged(f) => OnStack(f)' \/ Merged(f)'
  <2>1. CASE Step
    BY <2>1, MetStays
  <2>2. CASE UNCHANGED vars
    BY <2>2 DEF vars, OnStack, Merged
  <2> QED
    BY <2>1, <2>2 DEF Next
<1>3. \A f \in Func : module[f].start => (f \in ToSet(todo) \/ OnStack(f) \/ Merged(f))'
  <2>1. CASE ProcessFunction
    <3>1. /\ todo # <<>> /\ todo \in Seq(Func) /\ todo' = Tail(todo)
          /\ IF module[Head(todo)].start
             THEN Scopes' = <<NewScope(Head(todo))>> ELSE UNCHANGED Scopes
      BY <2>1 DEF ProcessFunction, IInv, TypeOK
    <3>2. \A f \in ToSet(todo) : f = Head(todo) \/ f \in ToSet(todo')
      <4> SUFFICES ASSUME NEW f \in ToSet(todo), f # Head(todo) PROVE f \in ToSet(Tail(todo))
        BY <3>1
      <4>1. PICK i \in 1..Len(todo) : f = todo[i]
        BY <3>1 DEF ToSet
      <4>2. i # 1
        BY <3>1, <4>1
      <4>3. /\ i - 1 \in 1..Len(Tail(todo)) /\ Tail(todo)[i - 1] = todo[i]
            /\ Tail(todo) \in Seq(Func)
        BY <3>1, <4>1, <4>2
      <4> QED
        BY <4>1, <4>3 DEF ToSet
    <3>3. ASSUME NEW f \in Func, module[f].start, f = Head(todo) PROVE OnStack(f)'
      <4>1. Scopes' = <<NewScope(f)>> /\ NewScope(f).func = f
        BY <3>1, <3>3, NewScopeOK
      <4> DEFINE s == NewScope(f)
      <4> HIDE DEF s
      <4>2. Scopes' = <<s>> /\ s.func = f
        BY <4>1 DEF s
      <4>3. Len(Scopes') = 1 /\ Scopes'[1] = s
        BY <4>2
      <4> QED
        BY <4>2, <4>3 DEF OnStack
    <3> QED
      BY <1>1, <1>2, <3>2, <3>3
  <2>2. CASE UNCHANGED todo
    BY <2>2, <1>1, <1>2
  <2> QED
    BY <2>1, <2>2 DEF Next, Step, vars, BeginBlock, InterpretCall, SkipCall, EndBlock, Return
<1>4. \A f \in Func : (RecursionCount[f] # Unseen)' => (OnStack(f) \/ Merged(f))'
  <2>1. CASE InterpretCall
    <3>1. \A f \in Func : f # Callee => RecursionCount'[f] = RecursionCount[f]
      BY <2>1, CallCounted
    <3>2. \A f \in Func : f = Callee => OnStack(f)'
      BY <2>1, PushedOnStack
    <3> QED
      BY <3>1, <3>2, <1>1, <1>2
  <2>2. CASE UNCHANGED RecursionCount
    BY <2>2, <1>1, <1>2
  <2> QED
    BY <2>1, <2>2 DEF Next, Step, vars, BeginBlock, ProcessFunction, SkipCall, EndBlock, Return
<1> QED
  BY <1>3, <1>4

(***************************************************************************)
(* A set with the starting points that calls do not leave has all          *)
(* functions called.                                                       *)
(***************************************************************************)
LEMMA CalledFacts ==
    ASSUME NEW D, D \subseteq Func, \A f \in Func : module[f].start => f \in D,
           \A f \in D : CallGraph[f] \subseteq D
    PROVE  Called \subseteq D
<1> DEFINE m == Cardinality(Func)
           S == {f \in Func : module[f].start}
<1>0. m \in Nat
  BY ModuleAssumption, FS_CardinalityType
<1> DEFINE Out(R) == R \cup UNION {CallGraph[f] : f \in R}
           Eq(f) == f = [k \in 0..m |-> IF k = 0 THEN S
                                        ELSE LET F == f[k-1]
                                             IN  F \cup UNION {CallGraph[x] : x \in F}]
           grow == CHOOSE f : Eq(f)
           G == [R \in SUBSET D |-> Out(R)]
           GG == [i \in 1..m |-> G]
<1>1. Called = grow[m]
  BY Zenon DEF Called
<1> HIDE DEF m
<1>2. S \in SUBSET D /\ \A R \in SUBSET D : Out(R) \in SUBSET D
  OBVIOUS
<1> HIDE DEF S
<1>3. G \in [SUBSET D -> SUBSET D] /\ \A R \in SUBSET D : G[R] = Out(R)
  <2> HIDE DEF Out
  <2> QED
    BY <1>2
<1>5. PICK f \in [0..m -> SUBSET D] : f[0] = S /\ \A i \in 1..m : f[i] = G[f[i-1]]
  <2> DEFINE A == SUBSET D
  <2>1. S \in A /\ G \in [A -> A]
    BY <1>2, <1>3
  <2> HIDE DEF G, A
  <2>2. GG \in [1..m -> [A -> A]] /\ \A i \in 1..m : GG[i] = G
    BY <2>1
  <2> HIDE DEF GG
  <2>3. S \in A /\ GG \in [1..m -> [A -> A]]
    BY <2>1, <2>2
  <2> HIDE DEF Eq, grow, Out
  <2>4. \E f \in [0..m -> A] : f[0] = S /\ \A i \in 1..m : f[i] = GG[i][f[i-1]]
    BY <1>0, <2>3, IterationExists
  <2> QED
    BY <2>2, <2>4 DEF A
<1>6. \A i \in 1..m : i - 1 \in 0..m /\ f[i-1] \in SUBSET D /\ f[i] = Out(f[i-1])
  <2> HIDE DEF Out, G
  <2>1. \A i \in 1..m : i - 1 \in 0..m
    BY <1>0
  <2> QED
    BY <2>1, <1>3, <1>5
<1>7. Eq(f)
  <2>1. \A k \in 0..m : f[k] = IF k = 0 THEN S ELSE Out(f[k-1])
    <3> HIDE DEF Out
    <3>1. \A k \in 0..m : k = 0 \/ k \in 1..m
      BY <1>0
    <3> QED
      BY <3>1, <1>5, <1>6
  <2> QED
    BY <2>1, <1>5
<1>8. Eq(grow)
  <2> HIDE DEF Eq
  <2> QED
    BY <1>7, Zenon
<1> HIDE DEF grow
<1>9. \A k \in 0..m : grow[k] = IF k = 0 THEN S ELSE Out(grow[k-1])
  BY <1>8
<1> HIDE DEF Eq
<1>10. grow[0] = S /\ \A k \in 1..m : grow[k] = Out(grow[k-1])
  <2>1. 0 \in 0..m /\ \A k \in 1..m : k \in 0..m /\ k # 0
    BY <1>0
  <2> HIDE DEF Out
  <2> QED
    BY <1>9, <2>1
<1> DEFINE K == {k \in 0..m : grow[k] \in SUBSET D}
<1>11. 0 \in K
  BY <1>0, <1>2, <1>10
<1>12. ASSUME NEW k \in 0..m, k < m, k \in K PROVE k + 1 \in K
  <2>1. k + 1 \in 1..m /\ (k + 1) - 1 = k /\ k + 1 \in 0..m
    BY <1>0, <1>12
  <2>2. grow[k+1] = Out(grow[k]) /\ grow[k] \in SUBSET D
    <3> HIDE DEF Out
    <3> QED
      BY <2>1, <1>10, <1>12
  <2>3. Out(grow[k]) \in SUBSET D
    <3> HIDE DEF Out
    <3> QED
      BY <2>2, <1>2
  <2> HIDE DEF Out
  <2> QED
    BY <2>1, <2>2, <2>3
<1> HIDE DEF K
<1>13. 0..m \subseteq K
  BY <1>0, <1>11, <1>12, InductionUpTo
<1>14. m \in 0..m
  BY <1>0
<1> QED
  BY <1>1, <1>13, <1>14 DEF K

\* In the end the functions met have been merged.
LEMMA PlanMerged ==
    ASSUME IInv, StoreInv, MetInv, PlainModule(module)
    PROVE  AllResultsMerged
<1> SUFFICES ASSUME Finished, NEW f \in Called
             PROVE  {f} \X ReachFrom(module[f].succ, {Entry}, Block) \subseteq GlobalStore
  BY DEF AllResultsMerged
<1> DEFINE D == {x \in Func : Merged(x)}
<1>1. module \in Modules
  BY DEF IInv
<1>2. /\ \A x \in Func : module[x].start => Merged(x)
      /\ \A x \in Func : RecursionCount[x] # Unseen => Merged(x)
  <2>1. ToSet(todo) = {} /\ \A x : ~OnStack(x)
    BY DEF Finished, ToSet, OnStack
  <2> QED
    BY <2>1 DEF MetInv
<1>3. ASSUME NEW x \in D PROVE CallGraph[x] \subseteq D
  <2>1. x \in Func /\ \A b \in Block : <<x, b>> \in GlobalStore
    BY DEF Merged
  <2>2. CallGraph[x] = {g \in Func : \E b \in Block : g \in Callees(x, b)}
    BY <2>1 DEF CallGraph, Callees
  <2>3. \A g \in CallGraph[x] : g \in Func /\ RecursionCount[g] # Unseen
    BY <2>1, <2>2 DEF StoreInv, CallsSeen
  <2> QED
    BY <2>3, <1>2
<1>4. f \in Func /\ Merged(f)
  <2>1. D \subseteq Func /\ \A x \in Func : module[x].start => x \in D
    BY <1>2
  <2> HIDE DEF D
  <2>2. Called \subseteq D
    BY <2>1, <1>3, CalledFacts
  <2> QED
    BY <2>2 DEF D
<1>5. ReachFrom(module[f].succ, {Entry}, Block) \subseteq Block
  <2>1. IsGraph(module[f].succ) /\ {Entry} \subseteq Block
    BY <1>1, <1>4, ModuleAssumption, BlockFacts DEF IsGraph
  <2> QED
    BY <2>1, ReachFacts
<1> QED
  BY <1>4, <1>5 DEF Merged

(***************************************************************************)
(* In such a module, when processModule has gone through the functions,    *)
(* the global store holds the results of every block of every function     *)
(* that a starting point calls, directly or not, however the calls recur:  *)
(* updateRecursionCount cuts off no function altogether, and followEdge    *)
(* leaves out no block.                                                    *)
(***************************************************************************)
THEOREM PlainLoopsMerged ==
    ASSUME EnoughEvals
    PROVE  Spec => [](PlainModule(module) => AllResultsMerged)
<1> DEFINE Inv == IInv /\ PlanInv /\ StoreInv /\ MetInv
<1>1. Inv /\ [Next]_vars => Inv'
  BY NextIInv, NextPlan, NextStored, NextMet
<1>2. Init => Inv
  BY InitIInv, InitPlan, InitStored, InitMet
<1>3. Inv => (PlainModule(module) => AllResultsMerged)
  BY PlanMerged
<1> QED
  BY <1>1, <1>2, <1>3, PTL DEF Spec

=============================================================================
