---------------------------- MODULE RangeOperations ----------------------------
(***************************************************************************)
(* The interval arithmetic of the value range analysis                     *)
(* (src/lib/RangeAnalysis/TaffoVRA/RangeOperations.cpp and                 *)
(* RangeOperationsCallWhitelist.cpp): from the ranges of its operands, the *)
(* range of an instruction.                                                *)
(*                                                                         *)
(* Numbers are integers in units of 1/Unit, and are taken where products   *)
(* and quotients are exact: the rounding of doubles is left out.           *)
(***************************************************************************)
EXTENDS Integers, FiniteSets, FiniteSetsExt

CONSTANTS
    Unit,       \* into how many steps 1 is divided
    DivEps      \* DIV_EPS, below which no divisor is believed to be

Times(x, y) == (x * y) \div Unit
Over(x, y) == IF y < 0 THEN (-(x * Unit)) \div (-y) ELSE (x * Unit) \div y

\* Towards zero, up and down to the next whole number.
Down(x) == (x \div Unit) * Unit
Up(x) == -Down(-x)
Truncated(x) == IF x < 0 THEN Up(x) ELSE Down(x)
Whole(x) == Truncated(x) \div Unit

MakeRange(lo, hi) == [lo |-> lo, hi |-> hi, finite |-> TRUE]
Hull(S) == MakeRange(Min(S), Max(S))

-----------------------------------------------------------------------------
HandleAdd(p, q) == MakeRange(p.lo + q.lo, p.hi + q.hi)
HandleSub(p, q) == MakeRange(p.lo - q.hi, p.hi - q.lo)
HandleNeg(p) == MakeRange(-p.hi, -p.lo)

\* (Mutant: the lower bounds give the least product, the upper ones the greatest.)
MulOfBounds(p, q) == MakeRange(Times(p.lo, q.lo), Times(p.hi, q.hi))

HandleMul(p, q) == Hull({Times(x, y) : x \in {p.lo, p.hi}, y \in {q.lo, q.hi}})

\* handleMul, when the operands are one range object.
HandleSquare(p) ==
    LET ends == {Times(p.lo, p.lo), Times(p.hi, p.hi)}
    IN  IF p.lo <= 0 /\ p.hi >= 0 THEN MakeRange(0, Max(ends)) ELSE Hull(ends)

HandleDiv(p, q) ==
    LET divisors == IF q.hi <= 0 THEN {Min({q.lo, -DivEps}), Min({q.hi, -DivEps})}
                    ELSE IF q.lo < 0 THEN {-DivEps, DivEps}
                    ELSE {Max({q.lo, DivEps}), Max({q.hi, DivEps})}
    IN  Hull({Over(x, y) : x \in {p.lo, p.hi}, y \in divisors})

\* getRemMax of a dividend up to hi that is not negative, and getRemMin of one
\* from lo to hi, when the divisor is from c to d and not negative.
RemMaxPositive(hi, d) == IF hi >= d THEN d - Unit ELSE hi
RemMinPositive(lo, hi, c) == IF lo > 0 /\ hi < c THEN lo ELSE 0

RemMinBy(p, c, d) ==
    IF p.lo >= 0 THEN RemMinPositive(p.lo, p.hi, c)
    ELSE IF p.hi < 0 THEN -RemMaxPositive(-p.lo, d)
    ELSE Min({-RemMaxPositive(-p.lo, d), 0})

\* A negative divisor is mirrored, ...
RemMin(p, q) ==
    IF q.hi < 0 THEN RemMinBy(p, -q.hi, -q.lo)
    ELSE IF q.lo < 0 THEN Min({RemMinBy(p, Unit, -q.lo), RemMinBy(p, 0, q.hi)})
    ELSE RemMinBy(p, q.lo, q.hi)

\* ... but not in the maximum of what is not negative.
RemMax(p, q) == IF p.hi < 0 THEN -RemMin(HandleNeg(p), q) ELSE RemMaxPositive(p.hi, q.hi)

HandleRem(p, q) == MakeRange(RemMin(p, q), RemMax(p, q))

HandleShl(p, q) ==
    LET shift(x, n) == Whole(x) * 2^n * Unit
    IN  MakeRange(shift(p.lo, Whole(IF p.lo < 0 THEN q.hi ELSE q.lo)),
              shift(p.hi, Whole(IF p.hi < 0 THEN q.lo ELSE q.hi)))

HandleAShr(p, q) ==
    LET shift(x, n) == (Whole(x) \div 2^n) * Unit
    IN  MakeRange(shift(p.lo, Whole(IF Whole(p.lo) > 0 THEN q.hi ELSE q.lo)),
              shift(p.hi, Whole(IF Whole(p.hi) > 0 THEN q.lo ELSE q.hi)))

HandleCastToSI(p) == MakeRange(Truncated(p.lo), Truncated(p.hi))

\* To w bits from more: the bounds become unsigned numbers, of which a negative
\* one is 0, and those lose their upper bits.
HandleTrunc(p, w) ==
    LET lower(n) == (IF n < 0 THEN 0 ELSE n % 2^w) * Unit
    IN  MakeRange(lower(Down(p.lo) \div Unit), lower(Up(p.hi) \div Unit))

HandleCallToCeil(p) == MakeRange(Up(p.lo), Up(p.hi))
HandleCallToFloor(p) == MakeRange(Down(p.lo), Down(p.hi))
AbsoluteValue(x) == IF x < 0 THEN -x ELSE x
HandleCallToFabs(p) == Hull({AbsoluteValue(p.lo), AbsoluteValue(p.hi)})

UnionRange(p, q) == MakeRange(Min({p.lo, q.lo}), Max({p.hi, q.hi}))

-----------------------------------------------------------------------------
AlwaysFalse == MakeRange(0, 0)
AlwaysTrue == MakeRange(Unit, Unit)
GenericBoolRange == MakeRange(0, Unit)
IsConstant(p) == p.lo = p.hi

Decided(always, never) ==
    IF always THEN AlwaysTrue ELSE IF never THEN AlwaysFalse ELSE GenericBoolRange

SameConstant(p, q) == IsConstant(p) /\ IsConstant(q) /\ p.lo = q.lo
Apart(p, q) == p.hi < q.lo \/ q.hi < p.lo

HandleCompare(pred, p, q) ==
    CASE pred = "eq" -> Decided(SameConstant(p, q), Apart(p, q))
      [] pred = "ne" -> Decided(Apart(p, q), SameConstant(p, q))
      [] pred = "gt" -> Decided(p.lo > q.hi, p.hi <= q.lo)
      [] pred = "ge" -> Decided(p.lo >= q.hi, p.hi < q.lo)
      [] pred = "lt" -> Decided(p.hi < q.lo, p.lo >= q.hi)
      [] pred = "le" -> Decided(p.hi <= q.lo, p.lo > q.hi)
=============================================================================
