---------------------------- MODULE MCEventLoop ----------------------------
(* A bounded instance of EventLoop for TLC: in the context of one of two io *)
(* threads, a device that adds two descriptors exclusively, and one that    *)
(* may register its descriptor, which parks another, twice.                 *)
EXTENDS EventLoop, TLC

CONSTANTS io1, io2, d1, d2, f1, f2, f3

TheBatches  == d1 :> <<f1, f2>> @@ d2 :> <<f3>>
TheOps      == d1 :> "AddExclusion" @@ d2 :> "AddShared"
TheContexts == d1 :> io1 @@ d2 :> io1
=============================================================================
