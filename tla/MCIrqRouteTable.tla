-------------------------- MODULE MCIrqRouteTable --------------------------
(* Bounded instances of IrqRouteTable for TLC.                              *)
EXTENDS IrqRouteTable, TLC

AnyCount == {-1, 0, 1, 2}

Symmetry == Permutations(Devices) \cup Permutations(Vectors)
=============================================================================
