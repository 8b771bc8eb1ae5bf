---------------------------- MODULE MCLoopWakeup ----------------------------
(* Bounded instances of LoopWakeup for TLC.                                 *)
EXTENDS LoopWakeup

AllUses  == {"add", "del", "kick", "exit"}
ExitOnly == {"exit"}
=============================================================================
