---------------------------- MODULE TimerService ----------------------------
(***************************************************************************)
(* What timer_add, timer_del and run_timers of EventLoopContext            *)
(* (epoll/src/event_context.rs) promise to the threads that use them,      *)
(* whatever list, locks and flags are behind it: a timer is called after   *)
(* it has expired, at most once, and never after it was removed.           *)
(***************************************************************************)
EXTENDS Naturals

CONSTANTS
  Timers,    (* every timer that may be asked for                           *)
  MaxTime    (* bounds the clock                                            *)

VARIABLES
  now,       (* Instant::now()                                              *)
  pending,   (* timers with their expiry, neither called nor removed        *)
  called,    (* timers whose function was called                            *)
  removed    (* timers that timer_del found                                 *)

serviceVars == <<now, pending, called, removed>>

TimerBoxes == [id : Timers, expire_time : 0..MaxTime]

Init == now = 0 /\ pending = {} /\ called = {} /\ removed = {}

(* An expiry may have passed when the timer is added.                       *)
Add(x) ==
  /\ x.id \notin {y.id : y \in pending} \cup called \cup removed
  /\ pending' = pending \cup {x}
  /\ UNCHANGED <<now, called, removed>>

Remove(x) ==
  /\ x \in pending
  /\ pending' = pending \ {x}
  /\ removed' = removed \cup {x.id}
  /\ UNCHANGED <<now, called>>

Call(x) ==
  /\ x \in pending /\ x.expire_time <= now
  /\ pending' = pending \ {x}
  /\ called' = called \cup {x.id}
  /\ UNCHANGED <<now, removed>>

TimePasses ==
  /\ now < MaxTime
  /\ now' = now + 1
  /\ UNCHANGED <<pending, called, removed>>

Next == TimePasses \/ \E x \in TimerBoxes : Add(x) \/ Remove(x) \/ Call(x)

Spec == Init /\ [][Next]_serviceVars
=============================================================================
