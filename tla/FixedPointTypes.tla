---------------------------- MODULE FixedPointTypes ----------------------------
(***************************************************************************)
(* Fixed point types (mdutils::FPType), the choice of one for a range      *)
(* (fixedPointTypeFromRange in src/lib/TaffoUtils/TypeUtils.cpp) and the   *)
(* merging of two (isMergeable and merge in                                *)
(* src/lib/DataTypeAlloc/TaffoDTA/TaffoDTA.cpp).                           *)
(*                                                                         *)
(* The bounds of a range are integers, in units of 1/Unit.  How doubles    *)
(* round is left out.                                                      *)
(***************************************************************************)
EXTENDS Integers, FiniteSets

CONSTANTS
    Unit,           \* into how many steps of a range's bounds 1 is divided
    TotalBits,      \* the size types begin with
    FracThreshold,  \* how many significant fractional bits they should have
    MaxTotalBits,   \* no type of this size is made larger: 64
    SimilarBits,    \* up to which difference types are merged
    MaxExponent     \* no bound is as large as 2^MaxExponent, none but 0 as small
                    \* as 2^-MaxExponent: 1024 for doubles

ASSUME BitsAssumption ==
    /\ Unit \in Nat \ {0} /\ TotalBits \in Nat \ {0} /\ MaxTotalBits \in Nat
    /\ FracThreshold \in Nat /\ SimilarBits \in Nat
    /\ MaxExponent \in Nat

TypeT == [width : Nat, frac : Nat, signed : BOOLEAN]

SignBit(signed) == IF signed THEN 1 ELSE 0
IntBits(t) == t.width - t.frac - SignBit(t.signed)

\* A range with bounds, or one without: then lo says only which sign it has.
RangeT == {r \in [lo : Int, hi : Int, finite : BOOLEAN] : r.lo <= r.hi}

Larger(m, n) == IF m < n THEN n ELSE m
Magnitude(r) == Larger(-r.lo, r.hi)

\* ceil(log2(m + 1)), the bits in front of the point: one for each power of
\* two that is smaller.
WholeBits(m) == Cardinality({k \in 0..MaxExponent : 2^k * Unit < m + Unit})

\* max(0, ceil(-log2(m))), the bits behind the point that are always zero.  The
\* logarithm of 0 is infinite, and what an int makes of that depends on the
\* machine: the least int, so that 0 is larger, or the greatest.
ZeroBits(m) ==
    IF m = 0 THEN {0, TotalBits + FracThreshold + MaxTotalBits}
             ELSE {Cardinality({k \in 0..MaxExponent : m * 2^k < Unit})}

\* The size after it has been enlarged as long as too few bits behind the
\* point are significant.
TooSmall(size, intBits, zeroBits) ==
    size - intBits - zeroBits < FracThreshold /\ size < MaxTotalBits
SizeFor(intBits, zeroBits) ==
    TotalBits * (1 + Cardinality({n \in 1..MaxTotalBits :
                                    TooSmall(n * TotalBits, intBits, zeroBits)}))

\* fixedPointTypeFromRange: the types it may return.
TypeFor_NoSign(r) ==
    IF ~r.finite
    THEN {[width |-> TotalBits, frac |-> 0, signed |-> r.lo < 0]}
    ELSE LET intBits == WholeBits(Magnitude(r))
         IN  {[width |-> size,
               frac |-> IF size - intBits < FracThreshold THEN 0 ELSE size - intBits,
               signed |-> r.lo < 0]
                : size \in {SizeFor(intBits, z) : z \in ZeroBits(Magnitude(r))}}
TypeFor(r) ==
    IF ~r.finite
    THEN {[width |-> TotalBits, frac |-> 0, signed |-> r.lo < 0]}
    ELSE LET intBits == WholeBits(Magnitude(r)) + SignBit(r.lo < 0)
         IN  {[width |-> size,
               frac |-> IF size - intBits < FracThreshold THEN 0 ELSE size - intBits,
               signed |-> r.lo < 0]
                : size \in {SizeFor(intBits, z) : z \in ZeroBits(Magnitude(r))}}

\* Whether every value of the range has a value of the type next to it.
Holds(t, r) ==
    /\ r.lo < 0 => t.signed
    /\ -r.lo <= 2^IntBits(t) * Unit
    /\ r.hi * 2^t.frac <= (2^(IntBits(t) + t.frac) - 1) * Unit

\* isMergeable
Distance(m, n) == IF m < n THEN n - m ELSE m - n
IsMergeable(t, u) ==
    /\ t.width = u.width
    /\ Distance(t.frac, u.frac) + SignBit(t.signed # u.signed) <= SimilarBits

\* merge: the types it may return, none when the format is invalid.
Merge_Invalid(t, u) ==
    {[width |-> Larger(t.width, u.width),
      frac |-> Larger(t.width, u.width) - Larger(IntBits(t), IntBits(u))
                                        - SignBit(t.signed \/ u.signed),
      signed |-> t.signed \/ u.signed]}
Merge_Narrow(t, u) ==
    {[width |-> t.width, frac |-> Larger(t.frac, u.frac), signed |-> t.signed \/ u.signed]}
Merge(t, u) ==
    LET signed == t.signed \/ u.signed
        width == Larger(t.width, u.width)
        frac == width - Larger(IntBits(t), IntBits(u)) - SignBit(signed)
    IN  {m \in {[width |-> width, frac |-> frac, signed |-> signed]} : m.frac >= 0}

\* Whether t holds what u holds.
AsWide(t, u) == IntBits(t) >= IntBits(u) /\ (u.signed => t.signed)
=============================================================================
