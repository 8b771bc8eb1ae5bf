-------------------------- MODULE MCEventDispatch --------------------------
(* Bounded instances of EventDispatch for TLC.                              *)
EXTENDS EventDispatch

OneMask    == {{"IN"}}
NoHandlers == {<<>>}
SomeOps    == {"AddExclusion", "AddShared", "Resume", "Delete"}
=============================================================================
