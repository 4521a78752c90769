-------------------------- MODULE FixedPointArithmetic --------------------------
(***************************************************************************)
(* The integer code that the conversion pass makes of floating point       *)
(* instructions (src/lib/Conversion/LLVMFloatToFixed/Conversion.cpp and    *)
(* InstructionConversion.cpp), on bit patterns: a number of w bits is one  *)
(* of 0..2^w - 1, and its type says whether its top bit is a sign.         *)
(***************************************************************************)
EXTENDS FixedPointTypes

Bits(n, w) == n % 2^w
AsSigned(u, w) == IF u < 2^(w - 1) THEN u ELSE u - 2^w

\* The integer that a bit pattern is, the number it stands for being this
\* divided by 2^frac.
Raw(u, t) == IF t.signed THEN AsSigned(u, t.width) ELSE u
Patterns(t) == 0..2^t.width - 1

-----------------------------------------------------------------------------
(***************************************************************************)
(* LLVM's operations, where their results are defined.                     *)
(***************************************************************************)
ExtOrTrunc(u, signed, from, to) == Bits(IF signed THEN AsSigned(u, from) ELSE u, to)
Shl(u, n, w) == Bits(u * 2^n, w)
Shr(u, n, signed, w) == Bits((IF signed THEN AsSigned(u, w) ELSE u) \div 2^n, w)

\* Division towards zero, and the remainder it leaves, with the sign of n.
Abs(n) == IF n < 0 THEN -n ELSE n
Quotient(n, d) == IF (n < 0) = (d < 0) THEN Abs(n) \div Abs(d) ELSE -(Abs(n) \div Abs(d))
Remainder(n, d) == n - d * Quotient(n, d)

-----------------------------------------------------------------------------
(***************************************************************************)
(* Conversions.                                                            *)
(***************************************************************************)
\* (Mutant: the point is moved before the number is made larger.)
MoveThenResize(u, s, d) ==
    LET delta == d.frac - s.frac
        moved == IF delta >= 0 THEN Shl(u, delta, s.width) ELSE Shr(u, -delta, s.signed, s.width)
    IN  ExtOrTrunc(moved, s.signed, s.width, d.width)

\* genConvertFixedToFixed
FixedToFixed(u, s, d) ==
    LET delta == d.frac - s.frac
        move(v, w) == IF delta >= 0 THEN Shl(v, delta, w) ELSE Shr(v, -delta, s.signed, w)
        resize(v) == ExtOrTrunc(v, s.signed, s.width, d.width)
    IN  IF d.width > s.width THEN move(resize(u), d.width) ELSE resize(move(u, s.width))

\* genConvertFloatToFix of x, in units of 1/Unit, when the type holds it, rounds
\* towards zero, convertAPFloat of a literal down.
FloatToFix(x, t) ==
    LET m == x * 2^t.frac
    IN  Bits(IF m < 0 THEN -((-m) \div Unit) ELSE m \div Unit, t.width)
ConvertAPFloat(x, t) == Bits((x * 2^t.frac) \div Unit, t.width)

-----------------------------------------------------------------------------
(***************************************************************************)
(* convertBinOp, convertUnaryOp and convertCast.                           *)
(***************************************************************************)
Sum(u, s, v, r, t) == Bits(FixedToFixed(u, s, t) + FixedToFixed(v, r, t), t.width)
Difference(u, s, v, r, t) == Bits(FixedToFixed(u, s, t) - FixedToFixed(v, r, t), t.width)
Negation(u, s, t) == Bits(-FixedToFixed(u, s, t), t.width)

\* The type of the intermediate results of products and quotients.
IntermType(s, r, t) ==
    [width |-> s.width + r.width, frac |-> s.frac + r.frac, signed |-> t.signed]

Product(u, s, v, r, t) ==
    LET i == IntermType(s, r, t)
        ext1 == ExtOrTrunc(u, s.signed, s.width, i.width)
        ext2 == ExtOrTrunc(v, r.signed, r.width, i.width)
    IN  FixedToFixed(Bits(Raw(ext1, i) * Raw(ext2, i), i.width), i, t)

Ratio(u, s, v, r, t) ==
    LET i == IntermType(s, r, t)
        ext1 == FixedToFixed(u, s, i)
        ext2 == ExtOrTrunc(v, r.signed, r.width, i.width)
    IN  FixedToFixed(Bits(Quotient(Raw(ext1, i), Raw(ext2, i)), i.width),
                     [i EXCEPT !.frac = s.frac], t)

-----------------------------------------------------------------------------
(***************************************************************************)
(* convertCmp: both operands in a type wide enough for either.             *)
(***************************************************************************)
\* (Mutant: only the bits behind the point that both operands have.)
CmpTypeCoarse(s, r) ==
    LET frac == IF s.frac < r.frac THEN s.frac ELSE r.frac
    IN  [width |-> Larger(s.width - s.frac, r.width - r.frac) + frac,
         frac |-> frac, signed |-> s.signed \/ r.signed]

CmpType(s, r) ==
    LET mixed(t) == IF s.signed # r.signed THEN SignBit(t.signed) ELSE 0
        frac == Larger(s.frac, r.frac)
    IN  [width |-> Larger(s.width - s.frac + mixed(s), r.width - r.frac + mixed(r)) + frac,
         frac |-> frac, signed |-> s.signed \/ r.signed]

Holding(pred, m, n) ==
    CASE pred = "eq" -> m = n [] pred = "ne" -> m # n [] pred = "gt" -> m > n
      [] pred = "ge" -> m >= n [] pred = "lt" -> m < n [] pred = "le" -> m <= n

Cmp(pred, u, s, v, r) ==
    LET c == CmpType(s, r)
    IN  Holding(pred, Raw(FixedToFixed(u, s, c), c), Raw(FixedToFixed(v, r, c), c))
=============================================================================
