--------------------------- MODULE MCMultiValueMap ---------------------------
(* A small instance of MultiValueMap and its iterators for TLC.            *)
EXTENDS MultiValueMapIterators, TLC

\* The operations do not tell keys apart, nor values.
Symmetry == Permutations(Key) \cup Permutations(Val)
=============================================================================
