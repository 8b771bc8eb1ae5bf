-------------------------- MODULE MCEventRegistry --------------------------
(* Bounded instances of EventRegistry for TLC.                              *)
EXTENDS EventRegistry, TLC

CONSTANTS h

OneMask  == {{"IN"}}
TwoMasks == {{"IN"}, {"OUT"}}

NoHandlers == {<<>>}
OneOrNone  == {<<>>, <<h>>}

AllOps == {"AddExclusion", "AddShared", "Modify", "Park", "Resume", "Delete"}

Addresses == Permutations(Objs)
Symmetry  == Addresses \cup Permutations(Fds)
=============================================================================
