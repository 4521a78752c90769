----------------------------- MODULE AffineForms -----------------------------
(***************************************************************************)
(* Affine arithmetic (src/lib/ErrorAnalysis/ErrorPropagator/AffineForms.h):*)
(* a number is a central value and a sum of noise terms, each a magnitude  *)
(* times a symbol that stands for some value between -1 and 1.  Terms with *)
(* the same symbol stand for the same error, and may cancel.               *)
(*                                                                         *)
(* Numbers are integers; the bounds of intervals have even sums.  Symbols  *)
(* are any values; where the code makes a new one, the caller passes it: s.*)
(***************************************************************************)
EXTENDS Integers, FiniteSetsExt, TLC

Abs(n) == IF n < 0 THEN -n ELSE n

\* A central value without noise, and a single noise term around zero.
Central(n) == [x0 |-> n, xi |-> << >>]
Noise(magnitude, s) == [x0 |-> 0, xi |-> s :> magnitude]

\* The magnitude of a symbol in a, and the symbols of a and b.
Term(a, s) == IF s \in DOMAIN a.xi THEN a.xi[s] ELSE 0
Symbols(a, b) == DOMAIN a.xi \cup DOMAIN b.xi

OfInterval(range, s) ==
    LET mid == (range[1] + range[2]) \div 2
    IN  [x0 |-> mid, xi |-> s :> range[2] - mid]

NoiseTermsAbsSum(a) == FoldSet(LAMBDA s, n : n + Abs(a.xi[s]), 0, DOMAIN a.xi)

FlattenNoiseTerms(a, s) == [x0 |-> a.x0, xi |-> s :> NoiseTermsAbsSum(a)]

Plus(a, b) == [x0 |-> a.x0 + b.x0, xi |-> [s \in Symbols(a, b) |-> Term(a, s) + Term(b, s)]]

Negated(a) == [x0 |-> -a.x0, xi |-> [s \in DOMAIN a.xi |-> -a.xi[s]]]

Minus(a, b) == Plus(a, Negated(b))

\* (Mutant: the product of the noise terms is left out.)
TimesLinear(a, b, s) ==
    [x0 |-> a.x0 * b.x0,
     xi |-> [t \in Symbols(a, b) |-> b.x0 * Term(a, t) + a.x0 * Term(b, t)]]

\* The noise terms of each by the central value of the other, and a new one for the
\* product of the noise terms.
Times(a, b, s) ==
    [x0 |-> a.x0 * b.x0,
     xi |-> [t \in Symbols(a, b) |-> b.x0 * Term(a, t) + a.x0 * Term(b, t)]
            @@ (IF DOMAIN a.xi = {} \/ DOMAIN b.xi = {} THEN << >>
                ELSE s :> NoiseTermsAbsSum(a) * NoiseTermsAbsSum(b))]
=============================================================================
