----------------------------- MODULE ArithmeticPath -----------------------------
(***************************************************************************)
(* One instruction on its way through the compiler: the value range        *)
(* analysis gives it a range (VRAnalyzer::analyzeInstruction), the data    *)
(* type allocation a type for its range, which may be merged with the type *)
(* of an operand or of another value, and the conversion makes integer     *)
(* code of it.  What the code computes is compared with what the           *)
(* instruction does to all numbers in the ranges of its operands.          *)
(***************************************************************************)
EXTENDS FixedPointArithmetic

CONSTANTS
    DivEps,     \* DIV_EPS
    Bounds,     \* bounds that ranges of operands may have
    IntBounds,  \* and those of integer instructions, which are cheaper to check
    Step,       \* the distance between the numbers that ranges are checked with
    Ops,        \* the instructions
    OtherTypes, \* types of other values, with which those of operands are merged
    IntSize,    \* the bits of the integers that are converted from and to
    TruncSize   \* the bits of those that are truncated to

INSTANCE RangeOperations

Comparisons == {"eq", "ne", "gt", "ge", "lt", "le"}
Shifts == {"shl", "ashr"}
Unary == {"neg", "toint", "fromint", "fromfloat", "ceil", "floor", "fabs", "trunc"}
Binary == {"add", "sub", "mul", "mulloads", "square", "div", "rem", "phi"}

ASSUME ArithmeticAssumption ==
    /\ DivEps \in Nat \ {0} /\ Step \in Nat \ {0}
    /\ IntSize \in Nat \ {0} /\ TruncSize \in Nat \ {0}
    /\ Bounds \subseteq Int /\ IntBounds \subseteq Int
    /\ OtherTypes \subseteq {u \in TypeT : IntBits(u) >= 0}
    /\ Ops \subseteq Unary \cup Binary \cup Shifts \cup Comparisons

OnIntegers == {"rem", "trunc", "fromint"} \cup Shifts
Converted == {"add", "sub", "mul", "div", "neg", "toint", "fromint", "fromfloat"}

VARIABLES
    op,         \* the instruction
    p, q,       \* the ranges of its operands
    range,      \* its range
    s, r, t,    \* the types of its operands and its own
    phase       \* "analyze", "allocate", "merge" or "done"

vars == <<op, p, q, range, s, r, t, phase>>

RangesOver(B) == {x \in {MakeRange(m, n) : m \in B, n \in B} : x.lo <= x.hi}
Ranges == RangesOver(IF op \in OnIntegers \ {"fromint"} THEN IntBounds ELSE Bounds)
IsWhole(x) == x.lo % Unit = 0 /\ x.hi % Unit = 0
IntType(signed) == [width |-> IntSize, frac |-> 0, signed |-> signed]
NoType == [width |-> 0, frac |-> 0, signed |-> FALSE]

\* A shift amount is not negative.  An operand that is not there, or shares its
\* range object with the other, has the range of the other.
Init ==
    /\ op \in Ops /\ p \in Ranges
    /\ q \in (IF op \in Unary \cup {"square", "mulloads"} THEN {p} ELSE Ranges)
    /\ op \in OnIntegers => IsWhole(p) /\ IsWhole(q)
    /\ op \in Shifts => q.lo >= 0
    /\ range = AlwaysFalse
    /\ s = NoType /\ r = NoType /\ t = NoType
    /\ phase = "analyze"

RangeOf ==
    CASE op = "add" -> HandleAdd(p, q)
      [] op = "sub" -> HandleSub(p, q)
      [] op = "mul" -> HandleMul(p, q)
      [] op \in {"square", "mulloads"} -> HandleSquare(p)
      [] op = "div" -> HandleDiv(p, q)
      [] op = "rem" -> HandleRem(p, q)
      [] op = "shl" -> HandleShl(p, q)
      [] op = "ashr" -> HandleAShr(p, q)
      [] op = "neg" -> HandleNeg(p)
      [] op \in {"fromint", "fromfloat"} -> p
      [] op = "toint" -> HandleCastToSI(p)
      [] op = "trunc" -> HandleTrunc(p, TruncSize)
      [] op = "ceil" -> HandleCallToCeil(p)
      [] op = "floor" -> HandleCallToFloor(p)
      [] op = "fabs" -> HandleCallToFabs(p)
      [] op = "phi" -> UnionRange(p, q)
      [] op \in Comparisons -> HandleCompare(op, p, q)

Analyze ==
    /\ phase = "analyze"
    /\ range' = RangeOf
    /\ phase' = IF op \in Converted \cup Comparisons THEN "allocate" ELSE "done"
    /\ UNCHANGED <<op, p, q, s, r, t>>

\* An integer has its own type, and the result of a comparison has none.
Allocate ==
    /\ phase = "allocate"
    /\ s' \in (IF op = "fromint" THEN {IntType(p.lo < 0)} ELSE TypeFor(p))
    /\ r' \in TypeFor(q)
    /\ t' \in (CASE op = "toint" -> {IntType(p.lo < 0)}
                [] op \in Comparisons -> {NoType}
                [] OTHER -> TypeFor(range))
    /\ phase' = "merge"
    /\ UNCHANGED <<op, p, q, range>>

\* Two of the types, or one of them and another, become one.
MergeTypes ==
    /\ phase = "merge" /\ op \notin {"fromint", "fromfloat", "toint"}
    /\ \/ IsMergeable(s, t) /\ \E m \in Merge(s, t) : s' = m /\ t' = m /\ r' = r
       \/ IsMergeable(r, t) /\ \E m \in Merge(r, t) : r' = m /\ t' = m /\ s' = s
       \/ IsMergeable(s, r) /\ \E m \in Merge(s, r) : s' = m /\ r' = m /\ t' = t
       \/ \E u \in OtherTypes : IsMergeable(s, u) /\ s' \in Merge(s, u) /\ UNCHANGED <<r, t>>
       \/ \E u \in OtherTypes : IsMergeable(t, u) /\ t' \in Merge(t, u) /\ UNCHANGED <<s, r>>
    /\ UNCHANGED <<op, p, q, range, phase>>

Convert ==
    /\ phase = "merge"
    /\ phase' = "done"
    /\ UNCHANGED <<op, p, q, range, s, r, t>>

Done == phase = "done" /\ UNCHANGED vars
Next == Analyze \/ Allocate \/ MergeTypes \/ Convert \/ Done
Spec == Init /\ [][Next]_vars

-----------------------------------------------------------------------------
(***************************************************************************)
(* What the instruction does to numbers x and y.                           *)
(***************************************************************************)
Numbers(x) == {n \in x.lo..x.hi : n % (IF op \in OnIntegers THEN Unit ELSE Step) = 0}

IsDefined(y) ==
    /\ op = "div" => Abs(y) >= DivEps
    /\ op = "rem" => y # 0

\* A truncated integer has no sign of its own: those who use it read its bits
\* as a signed or as an unsigned number.
Readings(u) == {u * Unit, AsSigned(u, TruncSize) * Unit}

Flag(b) == IF b THEN Unit ELSE 0
Outcomes(x, y) ==
    CASE op = "add" -> {x + y}
      [] op = "sub" -> {x - y}
      [] op \in {"mul", "mulloads"} -> {Times(x, y)}
      [] op = "square" -> {Times(x, x)}
      [] op = "div" -> {Over(x, y)}
      [] op = "rem" -> {Remainder(x, y)}
      [] op = "shl" -> {x * 2^(y \div Unit)}
      [] op = "ashr" -> {Down(x \div 2^(y \div Unit))}
      [] op = "neg" -> {-x}
      [] op \in {"fromint", "fromfloat"} -> {x}
      [] op = "toint" -> {Truncated(x)}
      [] op = "trunc" -> Readings(Bits(x \div Unit, TruncSize))
      [] op = "ceil" -> {Up(x)}
      [] op = "floor" -> {Down(x)}
      [] op = "fabs" -> {Abs(x)}
      [] op = "phi" -> {x, y}
      [] op \in Comparisons -> {Flag(Holding(op, x, y))}

-----------------------------------------------------------------------------
(***************************************************************************)
(* Ranges.                                                                 *)
(***************************************************************************)
\* Where the range is known to be wrong: the sign of a divisor that may be
\* negative is not mirrored for the maximum (getRemMax); fabs takes the bounds of
\* a range around 0 for those of the result; two values loaded from one array
\* share its range object and are taken for one value; and of what is truncated
\* only the two bounds are, as unsigned numbers, and the negative ones become 0,
\* so that there must be neither negative numbers, nor a wrap between the bounds,
\* nor a top bit that is set in the result.
TopBits(x) == Whole(x) \div 2^(TruncSize - 1)

RangeKnownWrong ==
    \/ op = "rem" /\ q.lo < 0
    \/ op \in {"fabs", "mulloads"} /\ p.lo < 0 /\ p.hi > 0
    \/ op = "trunc" /\ (p.lo < 0 \/ TopBits(p.lo) # TopBits(p.hi) \/ TopBits(p.lo) % 2 = 1)

\* But there, the range that the handlers of RangeOperations.cpp give an
\* instruction contains all that it makes of numbers in the ranges of its
\* operands, so that the type chosen for the range holds every result.
RangesSound ==
    phase \in {"allocate", "done"} /\ ~RangeKnownWrong =>
        \A x \in Numbers(p), y \in Numbers(q) :
            IsDefined(y) => \A z \in Outcomes(x, y) : range.lo <= z /\ z <= range.hi

-----------------------------------------------------------------------------
(***************************************************************************)
(* Integer code.                                                           *)
(***************************************************************************)
\* The bit patterns of type u whose numbers are in the range x.
Held(u, x) ==
    {n \in Patterns(u) : /\ x.lo * 2^u.frac <= Raw(n, u) * Unit
                         /\ Raw(n, u) * Unit <= x.hi * 2^u.frac}

Result(u, v) ==
    CASE op = "add" -> Sum(u, s, v, r, t)
      [] op = "sub" -> Difference(u, s, v, r, t)
      [] op = "mul" -> Product(u, s, v, r, t)
      [] op = "div" -> Ratio(u, s, v, r, t)
      [] op = "neg" -> Negation(u, s, t)
      [] op \in {"fromint", "toint"} -> FixedToFixed(u, s, t)

\* c, of type t, is less than one of its last places, or two, from what the
\* instruction makes of a and b, of types s and r.
Close(a, b, c) ==
    LET scale == 2^(s.frac + r.frac)
        near(n, places) == Abs(c * scale - n * 2^t.frac) < places * scale
    IN  CASE op = "add" -> near(a * 2^r.frac + b * 2^s.frac, 2)
          [] op = "sub" -> near(a * 2^r.frac - b * 2^s.frac, 2)
          [] op = "mul" -> near(a * b, 1)
          [] op = "neg" -> near(-a * 2^r.frac, 1)
          [] op \in {"fromint", "toint"} -> near(a * 2^r.frac, 1)
          [] op = "div" -> Abs(c * b * 2^s.frac - a * 2^(r.frac + t.frac))
                             < Abs(b) * (2^s.frac + 2^t.frac)

\* Where the result is known to be wrong: operands that may be negative are
\* divided as if they were not when the type of the result is unsigned (a range
\* of quotients of negative numbers is positive), and the product of two
\* unsigned operands is read as a signed number when that of the result is signed.
\* Both operands of a sum are rounded down to the places of the result before
\* they are added, so that the sum of the least ones may be a place below the
\* range, and wraps; and a cast to an integer, which is towards zero, rounds down.
Representable(x) == (x * 2^t.frac) % Unit = 0

ResultKnownWrong ==
    \/ op = "add" /\ ~Representable(p.lo) /\ ~Representable(q.lo)
    \/ op = "toint" /\ ~Holds(t, MakeRange(Down(p.lo), range.hi))
    \/ op = "div" /\ ~t.signed /\ (p.lo < 0 \/ q.lo < 0)
    \/ op = "mul" /\ t.signed /\ ~s.signed /\ ~r.signed

\* But there, what the code made by convertBinOp, convertUnaryOp, convertCast,
\* genConvertFloatToFix and convertLiteral computes is close to what the instruction computes, for
\* all operands, when the type of the result holds its range.
ResultsClose ==
    phase = "done" /\ op \in Converted /\ Holds(t, range) /\ ~ResultKnownWrong =>
        IF op = "fromfloat"
        THEN \A x \in Numbers(p) : \A u \in {FloatToFix(x, t), ConvertAPFloat(x, t)} :
                Abs(Raw(u, t) * Unit - x * 2^t.frac) < Unit
        ELSE \A u \in Held(s, p), v \in Held(r, q) :
                (op = "div" => Abs(Raw(v, r)) * Unit >= DivEps * 2^r.frac)
                    => Close(Raw(u, s), Raw(v, r), Raw(Result(u, v), t))

\* The unit is small enough for products and quotients of bounds to be exact.
ExactBounds ==
    \A x \in Bounds, y \in Bounds \cup {DivEps, -DivEps} :
        (x * y) % Unit = 0 /\ (Abs(y) >= DivEps => (x * Unit) % Abs(y) = 0)

\* Where comparisons are known to be wrong: the bit for the sign is added to the
\* signed operand, and the unsigned one, with as many bits before the point as
\* both are given, is read as a signed number.
CompareKnownWrong ==
    \/ s.signed /\ ~r.signed /\ r.width - r.frac > s.width - s.frac
    \/ r.signed /\ ~s.signed /\ s.width - s.frac > r.width - r.frac

\* But there, the comparison that convertCmp makes of operands of different types
\* gives what the comparison of their numbers gives: no bit is lost in the type
\* that both are converted to.
CompareExact ==
    phase = "done" /\ op \in Comparisons /\ ~CompareKnownWrong =>
        \A u \in Held(s, p), v \in Held(r, q) :
            Cmp(op, u, s, v, r) <=> Holding(op, Raw(u, s) * 2^r.frac, Raw(v, r) * 2^s.frac)
=============================================================================
