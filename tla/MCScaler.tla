------------------------------ MODULE MCScaler ------------------------------
(* Scaler instances for TLC.  Two repositories share the semaphore; A may draw *)
(* one or two runner names, B one.                                            *)
EXTENDS Scaler, TLC

CONSTANTS A, B, a1, a2, b1

MCRepoOf == [n \in Name |-> IF n = b1 THEN B ELSE A]
MCSize == 1..2
MCOneSlot == {1}
MCCount == 1..2
MCOneJob == {1}
MCSymmetry == Permutations({a1, a2})
=============================================================================
