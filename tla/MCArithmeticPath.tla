---------------------------- MODULE MCArithmeticPath ----------------------------
EXTENDS ArithmeticPath

MCBounds ==
    {-(4 * Unit + Unit \div 2), -3 * Unit, -Unit, -(Unit \div 4), 0, Unit \div 4, 3 * Unit, 7 * Unit}

\* 8 and 10 lose their upper bit when they are truncated to three bits.
MCIntBounds == {n * Unit : n \in {-5, -3, -1, 0, 1, 3, 7, 8, 10}}

ASSUME UnitAssumption == ExactBounds

\* A signed type of either size, to make unsigned ones signed.
MCOtherTypes ==
    {[width |-> 5, frac |-> 2, signed |-> TRUE], [width |-> 10, frac |-> 3, signed |-> TRUE]}
=============================================================================
