-------------------------- MODULE FeedbackEstimator --------------------------
(***************************************************************************)
(* The search of the feedback estimator                                    *)
(* (src/lib/ErrorAnalysis/FeedbackEstimator/taffo-fe.py) through the       *)
(* options of the data type allocation: a size of the fixed point types    *)
(* and a distance up to which they are merged.  Option 0 is meant to be    *)
(* the fastest, the last one the most exact.  The state is kept in a file  *)
(* between two calls.                                                      *)
(***************************************************************************)
EXTENDS Integers, FiniteSets

CONSTANTS
    NBits,      \* how many sizes there are: len(allowed_n_bits())
    NDist,      \* and how many distances: len(allowed_max_merge_dist())
    Initial     \* the option of n_bits and max_merge_dist at first

Option == 0..(NBits * NDist - 1)

ASSUME OptionAssumption ==
    /\ NBits \in Nat \ {0} /\ NDist \in Nat \ {0}
    /\ Initial \in Option

\* FeedbackEstimatorState: the current option, those of the previous states,
\* and stop.
StateT == [option : Option, previous : SUBSET Option, stop : BOOLEAN]

NewState == [option |-> Initial, previous |-> {}, stop |-> FALSE]

\* What the performance estimator predicts of the fixed point program: slower,
\* as fast, or faster.
Prediction == {-1, 0, 1}

\* Where to go from an option that is not good enough; ok is whether the error
\* is within the threshold.
Direction(pe, ok) ==
    CASE ~ok /\ pe = 1 -> 1
      [] ~ok /\ pe # 1 -> -1
      [] ok /\ pe = 0  -> -1
      [] ok /\ pe = -1 -> -NBits
      [] OTHER         -> 0

\* fosc: the variations 0, 1, -1, 2, -2, ... in the order they are tried.
Turn(d) == IF d > 0 THEN 2 * d - 1 ELSE -2 * d

\* Variants named <operator>_<bug> are the operator with a plausible bug, for
\* checking that a property notices it; the specification never uses them.
Closest_Any(o, tried, goal) ==
    \A p \in Option : Turn(o - goal) <= Turn(p - goal)
\* set_next_untried_combination_with_direction: o is the first untried option
\* on a walk around goal.
Closest(o, tried, goal) ==
    /\ o \in Option \ tried
    /\ \A p \in Option \ tried : Turn(o - goal) <= Turn(p - goal)

Advance_Forget(s, pe, ok) ==
    IF (pe > 0 /\ ok) \/ Direction(pe, ok) = 0
    THEN {[option |-> s.option, previous |-> {s.option}, stop |-> TRUE]}
    ELSE {[option |-> o, previous |-> {s.option}, stop |-> FALSE] :
            o \in {o \in Option : Closest(o, {s.option}, s.option + Direction(pe, ok))}}

\* advance_state: the states after s, given the two estimates.
Advance(s, pe, ok) ==
    LET tried == s.previous \cup {s.option}
    IN  IF \/ pe > 0 /\ ok
           \/ tried = Option
           \/ Direction(pe, ok) = 0
        THEN {[option |-> s.option, previous |-> tried, stop |-> TRUE]}
        ELSE {[option |-> o, previous |-> tried, stop |-> FALSE] :
                o \in {o \in Option : Closest(o, tried, s.option + Direction(pe, ok))}}
=============================================================================
