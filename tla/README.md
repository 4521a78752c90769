# A verification of TAFFO in TLA+

TAFFO turns the floating point computations of a C program into fixed point
ones.  It is a chain of LLVM passes, run by a shell script, that talk to each
other through metadata in `.ll` files.  This directory holds models of its
decision making (which values, which order, which types, which options), the
TLC runs that check them on small instances, and TLAPS proofs, for every value
of the constants, of most of the invariants those runs check.

To check a run, `tlc -config X.cfg M`; to check the proofs, `tlapm XProofs.tla`.
`PROJECT.json` lists the runs, relates each definition to the lines of code it
models, and lists the hazards, the findings and the theorems.

Contents: 1 the system; 2 the modules; 3 the runs; 4 liveness and fairness;
5 the proofs; 6 findings and observations; 7 what is not modelled; 8 plan.


## 1. The system

    clang, llvm-link           taffo.sh l.340-377
      -> taffoinit             annotations to metadata; the worklist of values
      -> taffoVRA              ranges of values, by abstract interpretation
      -> taffodta              a fixed point type per value, merged along uses
      -> flttofix              the conversion of instructions
      -> errorprop             bounds of the error           ) with -feedback
      -> taffo-pe, taffo-fe    estimates, and other options  ) in a loop
      -> clang                 the output

Everything is sequential: there are no threads, and no messages.  What makes
the system hard is iteration: worklists that are changed while they are walked,
fixed points that must end, loops and recursion in the analysed program,
tables of LLVM values that LLVM replaces or deletes, and programs that fail
between two steps of the script and leave their files behind.

| component (source) | state | operations | what makes it correct |
|---|---|---|---|
| **MultiValueMap** (`lib/TaffoUtils/MultiValueMap.h`): an ordered map from values to groups of associated values; the queues of the initializer and of the tuner | one linked list of tags and items, an index from key to node, order indices, iterators | insert left or right, erase, erase all, find, iterate, compare iterators; RAUW and deletion callbacks of LLVM | list, index and order agree after any sequence of these; iteration sees each group once; comparison is the order of the list |
| **Initializer** (`lib/Initializer/`) | annotated values, a worklist with depth, root distance and metadata of each value, a table of cloned functions | read annotations, queue users, backtrack to operands, clone functions per call, patch OpenMP calls, write metadata | whatever is computed from an annotated value is queued behind it, with the metadata of its nearest root; rounds end |
| **CodeInterpreter** (`lib/RangeAnalysis/TaffoVRA/CodeInterpreter.cpp`) | a stack of scopes (worklist, evaluation counts, a store per block), the loops of the current function, recursion counts | evaluate a block, follow its edges, call, return, merge | blocks are evaluated as often as if loops were unrolled, with the results of all paths to them; calls return to their own loops; recursion is bounded; it ends |
| **Range stores and operations** (same directory) | nodes of scalars, pointers and structures, shared by the stores of blocks, and a global store | a handler per instruction, loads and stores through pointers, `convexMerge` | every range contains what the program can compute or store there |
| **Data type allocation** (`lib/DataTypeAlloc/TaffoDTA/`) | a type per value and its initial type, a queue | choose a type for a range, sort by use, merge neighbours, restore types at calls, collapse equal clones | every type holds its range, whatever it is merged with; calls agree with functions; merging ends |
| **ILP allocation** (`.../ILP/`) | an integer linear program | as above, by an external solver | optional at build time |
| **Conversion** (`lib/Conversion/LLVMFloatToFixed/`) | a queue, the table `operandPool` from value to converted value or ConversionError, phi placeholders | sort, copy functions, convert, close phi loops, clean up | the code left computes from the same operands, with the same stores and calls, once each; integer code is close to what it replaces |
| **Error propagation** (`lib/ErrorAnalysis/ErrorPropagator/`) | ranges and affine errors per value, errors per function, recursion counts | schedule blocks, compute an error per instruction, compute called functions, attach results | operands before users; no run differs more from the real numbers than the errors say |
| **Feedback estimator** (`.../FeedbackEstimator/taffo-fe.py`) | a state file: option, options tried, stop | init, advance | no option twice; ends |
| **Performance estimation** (`.../PerformanceEstimator/`, `lib/InstructionMix`) | none | counts, a classifier | outside the logic modelled |
| **Driver script** (`tool/taffo/taffo.sh`) | the files of a temporary directory, shell variables | run each program, loop, stop on failure | nothing reads the file of an earlier round or run |
| **Metadata** (`lib/TaffoUtils/Metadata.cpp`, `InputInfo.cpp`) | a cache of decoded nodes | encode, decode | decoding inverts encoding |
| **Type utilities** (`lib/TaffoUtils/TypeUtils.cpp`) | none | `fixedPointTypeFromRange` | integer and fractional bits fit |
| **Memory SSA helpers**, **compatibility helpers**, **other tools** | none | walks and wrappers | - |

Interactions.  The driver calls the passes as programs and sees their exit
status and files only.  Initializer, range analysis, type allocation and
conversion hand each other `taffo.info`, `taffo.initweight`, `taffo.funinfo`,
`taffo.targets` and similar metadata.  Within a pass, the initializer calls
MultiValueMap directly, and LLVM calls the map back through value handles
whenever a value is replaced or deleted.  The interpreter calls stores through
an abstract interface (`AnalysisStore`, `CodeAnalyzer`), and stores call back
for the range of a call's result.  The type allocation calls the type
utilities.

The hazards that follow from this, each with its line and the properties that
cover it, are in `PROJECT.json` under "hazards".


## 2. The modules

### MultiValueMap

* `OrderedGroups` - the abstract specification: a sequence of groups, each a
  value at an address that never changes and the sequence of its keys.  What a
  client relies on: what each operation does at a place between or inside of groups,
  or to the group of a key.
* `MultiValueMap` - the code's data structure.  `KeyList` is the list, as the
  sequence of the addresses (`Node`) of its cells; `Item` gives the contents of a
  cell (`Value`, `Key`, `TagIt`, `OrderIdx`, as in the code), and `Index` is the map
  from a key to its item.  A tag is a cell that owns a `Value`.  One action per
  public operation, `Rauw` and `Delete` for the value-handle callbacks; an
  iterator that is an argument is a position of the list.  Where `erase` takes the last
  cell and then asks of the next one whether it is a tag, it reads the end
  sentinel; the model takes what libstdc++ and libc++ store there.
  `Groups` reads the groups off the list, cell by cell; it is the refinement mapping
  to OrderedGroups, and `PlaceOf` that of iterators.  `ImplementsOrderedGroups` says for each
  operation that it does what the operation of that name does there, at the same place
  and with the same key and value.
* `MultiValueMapIterators` - the state functions of the iterators: `Inc`, `Dec`,
  `AssociatedValues`, the comparison.
* `MultiValueMapProofs` - the invariants, PairsStayProp, IteratorsExact and, operation by operation, the
  refinement of OrderedGroups, for every value of the constants.

### For the proofs

* `Induction` - what the proofs of the other modules share: induction over
  numbers by way of a least element, that functions defined by recursion, folds over sequences
  and iterated operators exist and satisfy their equations, that what only grows in a finite set
  stops growing, and powers of two (section 5).

### The initializer's worklist

* `ConversionQueue` - `buildConversionQueueForRootValues`.  The queue is the
  sequence of its keys (the map is modelled above); `info` is the mapped
  `ValueInfo`; a forward pass has one step per visited value (`next`), a backward pass likewise,
  `prevSize` is the size at the beginning of the round.  `CreateInfoOfUser` is
  `createInfoOfUser` with its saturating counters.
* `ConversionQueueProofs` - the order and contents of the queue, and what values
  inherit, for every program.

### The interpreter of the range analysis

* `ControlFlow` - graphs, reachability, natural loops and their exits, reverse
  post order: what the code takes from LLVM's `LoopInfo` and `CFG`; and what
  `-loop-simplify` makes of a loop (`Structured`, `Plain`).
* `StructuredGraphs` - the graphs of structured programs, for the instances of
  this module and of the error propagation.
* `CodeInterpreter` - `interpretFunction`, `followEdge`, `updateSuccessorAnalyzer`,
  `interpretCall`, `updateRecursionCount`, `retrieveLoopTripCount` (its result),
  and `processModule`.  The
  C++ stack is the sequence `Scopes`; a scope's store is the set of blocks whose
  results it holds, so that evaluating a block adds one element and merging two
  stores is a union.  `LoopInfo` is a variable of its own, as it is a member of
  the interpreter in the code.
* `CodeInterpreterProofs` - the types, the loops consulted and the bound of the
  recursion for every module that LLVM can hand over; and the order of evaluation, the
  rounds of loops and the merging of results for every module whose loops are plain.

### The ranges

* `RangeStores` - what the range analysis knows of memory.  Nodes of pointers and
  structures are entries of `heap`, because they are shared and changed; those of
  scalars and of GEPs are values.  `derived` are the tables of the analyzers of
  blocks, `global` the table the results are taken from.  One action per handler
  of `VRAnalyzer`, with `LoadNode`, `StoreNode`, `FetchRange` as in `VRAStore`;
  `EndBlock` is `convexMerge` into the successors and the global store.  Beside
  it, `Execute` says what the instructions do, and the properties compare the two
  over all runs of the function.
* `RangeOperations` - the handlers of `RangeOperations.cpp` as operators on ranges.
  Numbers are multiples of 1/`Unit`, so that quotients are exact.

### The type allocation

* `FixedPointTypes` - types as records of sign, bits and bits behind the point;
  `TypeFor` is `fixedPointTypeFromRange`, `Merge` and `IsMergeable` are
  `TaffoTuner::merge` and `isMergeable`.  Bounds are multiples of
  a unit; `WholeBits` is ceil(log2(max + 1)).  The conversion of log2(0), which is
  negative infinity, to int is undefined in C++: the model takes both of the
  outcomes the usual instructions give.
* `TypeAllocation` - `retrieveAllMetadata` (Associate), `sortQueue` as an explicit
  depth-first search with its stack, `mergeFixFormat` on one pair per step, and
  `restoreTypesAcrossFunctionCall` in the same step as in the code.
* `TypeAllocationProofs` - the invariants for every set of programs.

### The conversion

* `FloatToFixed` - the pass on the code of one function: `sortQueue` with the
  placeholders of phi nodes (`openPhiLoop`), `performConversion` one value per step,
  with an operator for each `convert...` function and for `fallback`,
  `closePhiLoops` and `cleanup`.  The code is a graph of old and new versions of
  instructions; of types it keeps whether a number is a float or a fixed point
  number.  `operandPool` has the same three outcomes as in the code: the new version, the
  old one, or `ConversionError`.
* `FixedPointArithmetic` - the integer code that is made of arithmetic,
  comparisons, casts and literals, on bit patterns of a given width.
* `ArithmeticPath` - one instruction on its way through range analysis
  (`RangeOperations`), choice and merging of types (`FixedPointTypes`) and
  conversion (`FixedPointArithmetic`): the composition of the three.
* `FloatToFixedProofs` - types, the order of the queue, the failures and the behaviour of the
  converted code, for every program.
* `ArithmeticProofs` - the ranges of all instructions, the code made of them and the comparisons of all
  types are right.

### The error propagation

* `AffineForms` - a central value and noise terms; equal symbols cancel.
* `BlockScheduler` - `BBScheduler::enqueueChildren`.
* `ErrorPropagation` - one action per handler of an instruction.  `frames` is the
  stack of FunctionErrorPropagators, each with its table of ranges and errors
  (`rmap`), its order of blocks and its place; `Call` begins a function with a
  copy of the caller's table and `ReturnToCaller` does what follows its last
  instruction.  LLVM's memory SSA is an operator on the code (external).
  Beside it, `Execute` and `Machine` run the program with pairs of a real
  number and the converted one.

### The driver and its feedback loop

* `FeedbackEstimator` - the search, as operators: `Advance(s, pe, ok)` is the set
  of states that `taffo-fe` may write after one call.
* `Driver` - the script: one action per program.  `file[s]` is the option that
  the contents of stage s's file were made with, so that a stale file shows as
  an option of another round, `Old` as one of another run.  Any program may
  fail in any round; the copies that the script does not check may fail too.
* `DriverProofs` - four invariants for every number of options.

The modules whose names begin with MC hold instances for TLC and model no code.
Definitions named `<operator>_<bug>`, and those whose comment begins with
"(Mutant:", are an operator with a plausible bug: they show that the property
they are used against can fail, and no specification refers to them.


## 3. The runs

| run | checks | states | bounds |
|---|---|---|---|
| `mvm` | the map's structure (Grouped, Indexed, Ordered), what the iterators show of it (IteratorsExact: each group once, moves that undo each other, the values of a key, comparison), that pairs stay where clients hold addresses of them (PairsStayProp), and the refinement of OrderedGroups, operation by operation | 10781 | 3 keys, 2 values, 6 cells, spacing 1, order indices in -1..1; symmetric in keys and values |
| `interp_modules` | CallsNest, ReadyToEvaluate, UnrolledExactly, AllResultsMerged, Terminates | 115309 | modules whose main is any program of a grammar with two levels of sequence, branch, while and do-while, loops over those without a loop in a branch, and two irregular graphs, trip counts 1 and 2, 10 blocks; and modules of 3 functions calling each other or themselves from loops |
| `interp_loop_in_branch`, `interp_repeated_call` | findings | - | one family of programs each |
| `range_stores` | ValuesCovered, MemoryCovered | 108822 | 4109 functions: seven ways to declare variables and three more instructions in a branch or a loop of two rounds, called twice |
| `arithmetic_path` | RangesSound, ResultsClose, CompareExact | 128326 | 24 kinds of instruction, operands in all ranges between eight bounds, nine for integers, types of 5 to 10 bits, integers of 3 |
| `type_allocation` | QueueSorted, RangesHeld, OnlyWidened, ArgumentsAgree, Terminates | 566198 | 4 values in 7 graphs, 337 choices of ranges, 2 orders, 3 modes; types of 4 to 8 bits |
| `conversion_small_programs` | QueueOrdered, FailuresExplained, SameBehaviour | 118743 | programs of six instructions, every set of metadata, two orders of the queue, calls that fit and that do not, of functions that use memory and that do not |
| `error_propagation` | ErrorsBound, ComparesRight, BlocksInOrder | 64757 | 5218 programs: three instructions of main in a line or in branches, calls of three functions, a recursive function, and the graphs of structured programs of up to 10 blocks |
| `driver` | FreshOption, EstimatesCurrent, OutputCurrent, Terminates | 128114 | the code's 3 sizes and 5 distances, first option 7 |
| `queue_small_programs` | QueueExact, RootsInherited, Terminates | 302565 | 10556 programs of 5 values, 2 roots, depths up to 2, UINT_MAX is 25 |
| `queue_backtracking` | finding: AllQueued fails | - | one program |

Most passing runs also check their module's TypeOK.  In `interp_modules` and
`queue_small_programs` properties are conjunctions of named parts:
ReadyToEvaluate is that the count of the block is not 0 and that all that may
have run before has (AnalyzerComplete); CallsNest is OwnLoops, that the loops consulted are those of the function at
work, and RecursionBounded; QueueExact is UsersBehind
and NothingElseQueued; RootsInherited is ClosestRoot and EnabledInherited; the
TypeOK of the worklist includes that every queued value has metadata.

Why the bounds are enough.
* *mvm.*  An operation touches a group, its two neighbours and the sentinels:
  three keys are a group with a neighbour on each side; two values and six cells
  give groups of one and two items next to each other.  With spacing 1 and three
  order indices a gap closes at once, so the case that takes about ten
  insertions in the program is met everywhere.  The heap of six cells may be
  full; then the keys there can be erased and assigned to, and no others inserted.
* *interp.*  What `followEdge` decides depends on the block, its predecessors, and
  whether an edge enters, stays in or leaves the loops around it.  Two levels of nests
  have each of these combined with each; a trip count of two has a first and a
  last round, one has both in the same.
* *type_allocation.*  Three values are a chain of two merges, the shortest in
  which a later one undoes an earlier one; the fourth gives diamonds, calls with
  two actual arguments and arguments that are passed on, by functions that are called and by one that is not.  Four to eight bits
  keep the two branches of the size (enough bits behind the point or not) and
  the limit of 64.
* *range_stores.*  A range is lost when two instructions that touch one place meet
  at a join, a round of a loop or a second call.  Two stores and a load, or an
  address, a store and a load, are enough to make one wrong; the entry blocks
  have the places ready: a number, a structure with fields, two structures, a
  pointer to a number and to a structure, a structure in one.
* *arithmetic_path.*  The eight bounds include 0, both signs, halves and quarters of
  one, and a bound beside the least integer of three bits: every combination of signs and of crossing
  zero occurs for both operands.  Those of integers go up to 10, which loses its upper bit in three.
  Types of 5 to 10 bits have any place of the point
  and both signs, and every extension and truncation that 32 and 64 bits
  have.  The unit has all divisors the bounds need for their products and quotients to be exact
  (`ExactBounds`, evaluated as `UnitAssumption`), as those of doubles are taken to be.
* *conversion.*  The six places of a program hold an allocation, what makes an
  address or calls, a load, store or phi node, arithmetic, a store or call of a
  clone, and the return: a phi node may be in a loop with arithmetic,
  an address may lie between a store and its memory, and a failed call may be in front
  of any of them.
* *error_propagation.*  Cancellation needs a value used twice, by way of two
  others: three instructions.  Inputs have both signs or one, an initial error as
  large as half the rounding error; ranges are those of interval arithmetic, which the
  metadata have.  A load may have one source, two through a phi of memory, or the
  pointer; a call may write through its pointer argument.  A comparison is
  tried with operands whose ranges overlap and not.
* *queue.*  Five values hold a diamond, a loop through a phi node behind a root,
  and a root that uses what another root yields.  Two roots are what the
  distance and flag need.
* *driver.*  The numbers of options are the code's own.

Preconditions in the properties.
* ValuesCovered and MemoryCovered exclude programs in which a pointer to one place is stored
  over a pointer to another (PointerChanged: the node only leads to the last), and
  in which a structure is copied into a field (StructReplaced).
  MemoryCovered excludes later calls' variables that are no structures (OnlyFirstCall:
  the global store keeps the nodes of the first call).
* RangesSound, ResultsClose and CompareExact exclude the situations that
  RangeKnownWrong, ResultKnownWrong and CompareKnownWrong list, in which the code gives
  other results (section 6).  Of truncations those are left whose numbers are not negative,
  have the same upper bits and keep a top bit of 0.
* SameBehaviour asks, where a call failed to convert, that the damage is in one
  place (Contained): elsewhere `cleanup` leaves both versions of a call or of a
  store, an instruction that is kept reads a new version of memory whose stores
  failed, or `closePhiLoops` is given the mark of failure; and that cleanup takes the roots of
  all that failed as invalid, which it does not do for a call that uses no memory, unless
  something failed behind it that does (section 6).
* ErrorsBound and ComparesRight exclude loops, which are computed for one iteration
  when they are not unrolled, functions that call themselves, and programs that load behind a
  call that may have stored (RunKnownWrong): such a load takes the error of the pointer,
  the error of one of the values that were stored there and not that of the
  value in memory, and differences with it may cancel.  ComparesRight
  is of numbers that are at least a rounding error apart.  BlocksInOrder excludes functions with loops
  that are left in several places.
* RangesHeld asks that formal and actual arguments have the same range, as they
  have where each call has its own copy of the function (the initializer
  arranges that); OnlyWidened asks that what a call keeps in step began with
  types as wide.  Without that, the code gives an argument the type of the
  formal one and bits may be lost.
* ArgumentsAgree excludes formal arguments that are passed on and values passed
  for two formal arguments: restoring is one level deep.  A formal argument is one whether its
  function is called or not.
* QueueSorted excludes values on a loop, where the search takes a value it meets again for
  finished.
* ClosestRoot and EnabledInherited exclude backtracking and phi nodes.  In programs that compute addresses
  ClosestRoot still gives the distances; their metadata and flags are those of the pointer,
  however far its root is, and are left out.  So what backtracking does to flags is not covered.
* EstimatesCurrent excludes the `cp` of -disable-vra that fails over an earlier run's file, and nothing else;
  OutputCurrent excludes a failed `cp`, and FreshOption a failed
  `taffo-fe --init`: the script does not look at their status (section 6).


## 4. Liveness and fairness

All programs modelled are sequential: the only fairness is that the program
goes on while it has something to do, `WF_vars(Step)` (in `ConversionQueue` and `CodeInterpreter` written out
over its passes), and in the driver that a program it calls returns, with
success or without.  Under that, TLC checks that the interpretation ends
(`interp_modules`), the feedback loop ends whatever is estimated and whatever
fails (`driver`), the merging of types reaches a round without change
(`type_allocation`), and the worklist stops growing and moving
(`queue_small_programs`).  The map has no liveness property; it does nothing of its own.
`RangeStores`, `ArithmeticPath`, `FloatToFixed` and `ErrorPropagation` go through their
program once: that they do not stop before its end is what TLC's check for
deadlock shows.


## 5. The proofs

All proofs are checked by TLAPS; they use the assumptions named in each module
on its constants and nothing else.  TLC evaluates these assumptions in the
runs.

**Induction over data.**  TLAPS's theorems of induction take an operator as a parameter, which no
installed prover can instantiate.  `Induction` goes another way: a set of
numbers that is not empty has a least element (`<` on Nat is well-founded, a fact of the
library), so a property stated as a set of numbers, `{i \in 0..n : P(i)}`, can be proved by
looking at the least number that is missing.  With that it proves, once, that recursive functions
over 0..n (`RecursionExists`, `IterationExists`) and folds over sequences (`FoldExists`) exist and
satisfy their equations, that a chain of sets that only grows inside a finite set stops growing after as many
steps as the set has elements, and the laws of powers of two, where 2^n is counted
as the number of subsets of a set with n elements, since the prover knows nothing of
exponentiation.

**MultiValueMapProofs.**  `MapTypeCorrect`, `MapStaysGrouped`, `MapStaysIndexed`,
`MapStaysOrdered`: TypeOK, Grouped, Indexed and Ordered for every set of keys, values and
addresses and every spacing.  None is inductive alone: that a group's items
follow their tag without gaps needs the links to be those of a list, that the
index leads to the right tag needs groups not to be empty, and the order
indices need both.  The proof is of their conjunction, one lemma per operation,
on lemmas about what inserting into and erasing from a linked list do to its
order.  `PairsAreKept` is an action property from the same invariant: for each operation,
the keys that stay keep group, order index and relative place.  `IteratorsAreExact` is
that the invariant implies each part of IteratorsExact; the traversal and the values of a
key are recursive functions, of which induction shows what they return.
`ImplementsGroups` is the refinement: that each operation is the one of the same name on the groups, at the
same place, for the same key and value (`EachAsPromised`, of which TLC checks that formula), and
`Spec => Abs!Spec`, which follows.  Its invariant is that the
list lays out the groups it is read as (`GroupsLaid`): there are positions, the `bounds`, such
that the g-th group is the tag at the g-th bound and the items between it and the next one (`Lays`).
One induction over the list shows that this determines the groups (`LaysUnique`), after which the
recursion of `Groups` is not needed any more.  What an operation does is then said in two halves: on
the list, where one or two cells appear or a stretch of them disappears and the rest moves as a block
(`Widened`), and on the bounds, which move accordingly (`LaysAddKey`, `LaysDropKey`, `LaysAddGroup`,
`LaysDropGroup`, `LaysRenameKey`, `LaysAssign`).  Where the two meet, the index and the TagIt of a
cell must agree with the place of its key in the groups (`OnePlaceOfKey`, `TagOfGroup`); that an
erasure of the last key takes the tag with it, and of another one does not, and that RAUW puts the new key where the old
one was, even when the new key was in the map, follows there.

**CodeInterpreterProofs.**  `TypeCorrect` and `CallsStayNested` (CallsNest) for every module that
satisfies ModuleAssumption: what LLVM guarantees of a function's graph and of its loops.
TypeOK needs that a block in a Worklist has a count (`StackOK`), which FollowEdges must
preserve over all successors of a block; the bound of the recursion is inductive with what is left: the scopes of a function that are nested and the
calls it has left are together at most those allowed (`CallsUsed`).

`PlainLoopsReady`, `PlainLoopsUnrolled` and `PlainLoopsMerged` are ReadyToEvaluate, UnrolledExactly and
AllResultsMerged for any number of functions and blocks, any trip counts and any calls, recursive
or not, of modules whose loops lie side by side (`PlainModule`).  Branches are
arbitrary as long as the graph is reducible; the loops are those that
`-loop-simplify` leaves: entered through the header only, one latch, and the block they are
left for has no predecessor outside of them (`PlainLoop`).  A header that can leave the loop is followed by
one block that nothing else leads to, as in a `while`.
Nested loops are not included, and could not be without more: the finding of `interp_loop_in_branch`
is one the statements fail for.  `EnoughEvals` says that the model's bound
`MaxEvals` on the count of evaluations is larger than a trip count; the code has no
such bound.  `PlainAssumption` in MCCodeInterpreter has TLC evaluate both hypotheses: the modules of
functions that call each other have plain loops, and have some.

The order in which `interpretFunction` takes the blocks depends on the whole graph, so the proof
first says what any order that keeps to the loops may look like.
`Schedule` states which blocks may be evaluated next and how often each has been: a block that
is in no loop once after all that leads to it; a block of a loop in each round, after what
leads to it in that round; `ScheduleAfter`, that evaluating such a block leads to a schedule again.  That alone shows that
everything is evaluated as often as it should.  `CountsFit` says what EvalCount holds at that point of a schedule, and the lemma
`FollowEdgesFits` that the code gets there: it follows the edges of a block one by one, and
each may enter a loop and reset its counts, go on in it, start the next round or leave it.
`Gathered` is the part of ReadyToEvaluate about stores: the analyzer of a block has
what its predecessors have.  The three together (`OnPlan`) hold for every scope on the stack, as
calls suspend one scope and begin another (`PlanInv`).  For AllResultsMerged, `StoreInv` follows what
has been evaluated into the store of the scope and the global one, with the callees it met; and `MetInv` says that
a function that was called once has been merged or is on the stack, however the recursion count
skips its later calls: at the end the stack is empty.

**ConversionQueueProofs.**  `QueueWellFormed` (the queue has no duplicates and the iterator stays on it while elements are moved),
`QueueInOrder` and `QueueHoldsWanted` (QueueExact), `ClosestRootsWin` (RootsInherited), `TypeCorrect` (TypeOK: what is queued has metadata).
UsersBehind needs that what a forward pass has passed is in order already while moves go on (`PassedInOrder`);
NothingElseQueued that the depths in the queue stay below those of every set that is closed under uses and backtracking (`NothingMoreQueued`);
RootsInherited that the distance of a value is one of a path to it, from the root its metadata are from if there are
no address computations, that passed values have handed theirs on (`Relaxed`), and that
a round that adds nothing leaves no distance to shorten (`Settled`).  `TypeCorrect` has the hypothesis
`ShallowAnnotations`, that depths stay clear of UINT_MAX: `backtracking` without a number is a depth of
UINT_MAX (AnnotationParser.cpp:60, 147), and the operands of a phi node in a loop would then take turns in
the backtracking pass until it is used up and a value with distance UINT_MAX has no metadata to give.

**TypeAllocationProofs.**  `AllocationTypeCorrect`, `TypesOnlyWiden`, `RangesStayHeld`, `ArgumentsStayAlike` and
`QueueStaysSorted` for every set of programs, any size of type and any threshold.  OnlyWidened is inductive only together
with the fact that until merging begins types are initial types (`Unmerged`) and
that types are well formed (`Typing`).  The heart is `MergeKeepsWidth`: a merged
type has at least the integer bits and the sign of both, and `MergePairTypes`: whoever
a call then sets back gets a type at least as wide as its own initial one.  RangesHeld then is one
lemma about `fixedPointTypeFromRange`, that the bits it chooses hold the range.  QueueSorted needs an
invariant of the depth-first search (`Searching`): each user of a finished value is finished, or waits on the stack, or is
still to be pushed; what waits above a value at work is reached from it; and a value is finished behind its users or is
on a loop.

**FloatToFixedProofs.**  `ConversionTypeCorrect`, `QueueStaysOrdered`, `FailuresStayExplained`.  The first is inductive with
`Typed`: until a value has been converted it is as written, but for the placeholders that phi nodes
open.  QueueOrdered needs that all users of what has been visited are queued behind it
although elements in front of and behind the iterator are moved (`UsersAfter`), why a value is queued (`Reasons`, `Held`), and
that a root still has roots only while something that leads to the values traced to it is to come (`Traced`).  Its hypothesis `UsersMarked` is what the data type allocation leaves and
is evaluated by the run.  FailuresExplained needs that what the conversion has passed has an entry in `operandPool`
(`Filled`), and that its operands, phi nodes excepted, were passed before.

`BehaviourStaysSame` is SameBehaviour, for every program, under the same `UsersMarked`.  It goes along the phases.
While the queue is sorted, a value that was visited has handed its roots on to its users, or something that it can be reached from
is still to come (`HandedOn`); and placeholders stand exactly where phi nodes of the queue are
used (`Opened`).  During the conversion, each value has in `operandPool` itself, a new version or the
mark of failure (`Pooled`), and what was converted or kept with its type takes what the pool has for its operands, while
all else is as written (`Converting`).  Closing the loops and the clean-up
turn placeholders and erased instructions into versions and undefined values, and nothing else (`Rewired`).  Of the final code
it follows that the versions that count, new for what was converted and is not damaged and old for all else (`Survivor`), take
such versions only: damage spreads from an operand that is no phi node to its users by `HandedOn`, and Contained says
it of phi nodes and that whatever failed is damaged, so kept.  Addresses of old and new code are followed in step to their memory (`LockStep`), so survivors write the memory that
survivors read.  What a call or return needs are then survivors (`LiveSurvives`), and each has the operands of the program.
Where no call fails Contained holds by itself: nothing is damaged.

**ArithmeticProofs.**  `RangesAreSound` and `ComparesExactly`: the handlers of RangeOperations for all integer bounds, among
them products, quotients, remainders and shifts, where the cases are those of signs (the invariant is that the
range is what the handler gives, `Analyzed`); and
convertCmp for all widths, points and signs, from laws of powers of two and that merging leaves
operands types of at least one bit (`Allocated`).

`ResultsStayClose` is ResultsClose, for all sizes of types and integers, thresholds, bounds and operands, and whatever
types are merged.  Its invariant `Prepared` adds to the range (`Analyzed`) that the types of operands and results have no less
than no bits before the point, and that a divisor that is not 0 has a bit before the point or for its sign: without one the
intermediate type of a quotient would be too narrow.  The rest is one lemma per instruction (`SumClose`, `DifferenceClose`,
`ProductClose`, `RatioClose`, `NegationClose`, `ConversionClose`, `FloatsClose`), in two halves.  The first is that nothing wraps: the range of the
handler holds the exact result (`ProductWithin`, `RatioWithin`); rounding leaves it by less than a place; and a number less than a
place outside of a range that a type holds is still one of that type (`NearFits`), as are the product and the larger dividend in the
intermediate type (`ProductFits`, `RatioFits`).  The second is that what each shift or division loses, and no more, is in the
bound of one or two places.  `ExactBounds`, the hypothesis, is that the unit of the model is small enough for products and
quotients of bounds, where the code has doubles: a bound that is rounded down could exclude the result by itself.

**DriverProofs.**  `DriverTypeCorrect`, `OptionsStayFresh`, `EstimatesStayCurrent`,
`OutputStaysCurrent`, from `DriverInvariant`.  FreshOption is strengthened by `OwnSearch`
(the options used are those the state file lists, and from the allocation on
the current one) and `OneRound`; EstimatesCurrent and OutputCurrent by `FilesCurrent`, which says
for each program counter how far the files of this round have come: one part as long as they do not
come from an earlier run's file, the other as long as no `cp` has failed.  Holds for every number of sizes and
distances and every first option.

**Assumptions.**  Beside the types of constants: `ModuleAssumption` and `BlockAssumption`
(edges lead to blocks, blocks are finitely many, loops are nested or disjoint: LLVM's), `ProgramAssumption` of `ConversionQueue`
(annotated values are read once, a store has no uses, no value is its own operand: the
iterator is undefined behind that, section 6) and of `FloatToFixed` (only a phi node is its own operand, addresses are allocas or computed from one, stores and returns have no result), `ValueAssumption` and `ProgramAssumption` of `TypeAllocation` (finitely many values; ranges come
with metadata and are doubles, so their magnitude has a largest exponent).

**Only model-checked.**
* Liveness (Terminates of four runs): fairness is not in reach of the prover.
* ReadyToEvaluate, UnrolledExactly and AllResultsMerged of the interpreter for nested loops: they hold for the
  nests of structured programs that `interp_modules` goes through and fail for others (`interp_loop_in_branch`,
  section 6), and the class that they hold for is given by enumeration.
* The properties of `RangeStores` and `ErrorPropagation`, whose executions are given by
  RECURSIVE operators, which the prover does not take.


## 6. Findings and observations

Three runs end in a counterexample.  Each checks one statement that a comment, a
document or an assertion of the repository makes.

1. `interp_loop_in_branch` / UnrolledExactly.  A loop in a branch of an outer loop with two rounds:
   the interpretation stops behind the inner loop (CodeInterpreter.cpp:166), and
   the rest of the function has no ranges.
2. `interp_repeated_call` / OnlyRecursionCutOff.  A function that is not recursive is interpreted for its
   first call only (CodeInterpreter.cpp:304); the documentation of the count speaks of
   recursive calls (MetadataFormat.md:383).
3. `queue_backtracking` / AllQueued.  Backtracking stops at a value that another root has queued,
   in front, without depth (TaffoInitializerPass.cpp:294).

Observations in the code that the models reflect or exclude:

* MultiValueMap: each insertion in front of the same key halves the gap of 2^20 between order
  indices; after it is used up two keys have the same index, and operator<
  (MultiValueMap.h:264) takes neither for the smaller; a TODO at l.387 says so.
  IteratorsExact asks of it only that what it says is true.
* CodeInterpreter: a return from the inner of two loops fails the assertion of l.52.
* Range stores: storing a pointer or copying a structure replaces a node where the
  analysis should join two; the
  indices of a GEP with two are followed in the wrong order; a phi node of pointers takes the first; a structure that contains a pointer to itself is
  walked for ever.
* Range operations: `getRemMax` does not mirror a negative divisor although the
  comment at RangeOperations.cpp:349 says so; `fabs` of a range around 0 takes its bounds; two values loaded
  from one array share a range object and their product is taken for a square; `handleTrunc`
  converts the bounds to unsigned integers, so a negative one becomes 0, and then drops their upper bits
  (RangeOperations.cpp:452-463): [-3, 3] becomes [0, 3], and [7, 8] truncated to three bits [7, 0]; FCMP_TRUE and
  FCMP_FALSE are exchanged; `handleBooleanXor`, `And` and `Or` have no caller.
* Conversion: where a call failed to convert, `cleanup` asks of each old instruction only whether all of its
  roots are valid (LLVMFloatToFixedPass.cpp:395): a call or a store that was converted, too, is then
  done twice; an instruction that is kept with its type takes converted operands, whose
  stores may have failed; and `closePhiLoops` takes ConversionError for a value.
  A failed value that uses no memory does not make its roots invalid (l.363-365): a call of a
  `readnone` function whose result is only returned is erased though it failed, and `undef` is returned.
  FCMP_ORD and FCMP_UNO leave the predicate `ty` of `convertCmp` unset; the
  intermediate type of products and quotients takes its sign from the result.
  Both operands of a sum are rounded down to the places of the result first
  (InstructionConversion.cpp:493-502): when neither lower bound has such places, their sum may be a place below
  the range.  With [-1/4, 1] and [1/4, 1] the result is not negative, its type unsigned, and
  with one place after the point -1/4 + 1/4 becomes -1/2 + 0, which wraps; the TODO at l.510, of subtractions, asks for shifting later.
  A cast to an integer shifts right, which rounds down, and its range is rounded towards zero: a type of three
  bits that is chosen for -4.5, as -4, does not hold the -5 that the shift makes.
* Error propagation: the error of a pointer stands for values that are no longer in memory, and
  may cancel; floating point constants are taken for 1.0 (PropagatorsUtils.cpp:22, "Kludge"); a
  phi node ignores incoming values without an error; the BitCast case of
  `findLOEError` falls through to the return; `FNeg` hands on an error without changing its sign;
  with a `while` loop that has a `break` the block behind is scheduled before the
  rest of the body, which FunctionErrorPropagator.h:102-104 rules out; a store to a global is not
  recorded with it; what is attached to an instruction in an unrolled loop is the error of the first iteration.
* taffo.sh: the copies at l.395, 433, 469 and 471 are not checked, nor the status of `taffo-fe --init`
  (l.402); `exit` at l.448 is in a command substitution and leaves only that, so a failed
  estimator ends the loop as STOP does; an early exit leaves the temporary
  directory.
* taffo-fe.py: when every option has been tried, the last one is compiled and
  not the best one.
* Initializer: `removeNoFloatTy` (Annotations.cpp:188) erases from the map it iterates over; a phi node
  that is its own operand is erased while the iterator is on it;
  `generateFunctionSpace` clones the callees of clones and has no bound on recursive functions.
* TaffoDTA: the order of values on a loop is not the one the comment at l.248 promises;
  the debug output at l.418 dereferences a null pointer; l.576 compares the info of a
  struct with itself; a function called without a copy of its own may take
  integer bits away from an argument.


## 7. What is not modelled, and why

* *Rounding of doubles.*  The passes compute with doubles; the models with integers
  or multiples of a unit, exactly.
* *Transcendental functions, FRem, FPTrunc and casts to unsigned integers* in the range
  analysis; *division and special functions* in the error propagation: numerical
  approximations that TLC has no numbers for.
* *Function cloning* in the initializer and the conversion (`generateFunctionSpace`,
  `propagateCall`), OpenMP trampolines and global variables of the conversion: they
  rewrite LLVM modules; the model of the conversion begins with one function.
* *Structures* in the conversion and the error propagation, and *loops unrolled by LLVM*: the models have
  straight code and loops that are not unrolled; an unrolled loop is straight code.
  Relative errors and `-sloppyaa` are other settings of the same handlers.
* *Reading of annotations and the metadata codec*: parsing and encoding.
* *`collapseFunction`* of the type allocation, which replaces equal clones.
* *Bulk insertions and range erasures of the map*: loops over the operations modelled.
* *Struct fields in the type allocation*: a struct is a value without a type of its own.
* *ILP allocation, performance estimation, other tools, compatibility helpers, the
  parsing of command lines*: numerics for an external solver or classifier,
  wrappers, and pure input and output.


## 8. Plan

Done, in this order: MultiValueMap and its proofs; the interpreter; the driver
and its proofs; the worklist; the type allocation and its proofs; the
conversion; the arithmetic path; the range stores; the error propagation; the
proofs about the worklist, the interpreter, the conversion and arithmetic.

Left: the cloning of functions, by the table it keeps, composed with
`ConversionQueue` by the roots it yields; `collapseFunction`; struct fields of
the type allocation; the cache of decoded metadata; the composition of `RangeStores`
with the scopes and calls of `CodeInterpreter`.

Theorems planned: that sums and differences of affine forms bound those
of the numbers; that
recursion counts of the error propagation are bounded, with its executions in a module of their own.

Where a new component has a deeper property than a run here, it takes the
place of it: the number of runs is kept small enough to be repeated at every
change of the code.
