----------------------------- MODULE ClockState -----------------------------
(***************************************************************************)
(* The virtual clock of a machine (ClockState in epoll/src/timer.rs): it   *)
(* is meant to advance while the machine runs and to stand while it is     *)
(* paused.  Callers may enable and disable it in any order.                *)
(***************************************************************************)
EXTENDS Integers

CONSTANT MaxTime   (* bounds the clock *)

ASSUME ClockAssumption == MaxTime \in Nat

VARIABLES
  now,       (* offset.elapsed(): real time since the clock was made        *)
  enabled,   (* ClockState.enable                                           *)
  paused,    (* ClockState.paused                                           *)
  elapsed,   (* ClockState.elapsed                                          *)
  ran,       (* history: how long the clock has been enabled                *)
  twice      (* history: the calls made while they had nothing to do        *)

vars == <<now, enabled, paused, elapsed, ran, twice>>

Init ==
  /\ now = 0 /\ enabled = FALSE /\ paused = 0 /\ elapsed = 0
  /\ ran = 0 /\ twice = {}

enable_added ==                     \* faulty: + for -
  /\ elapsed' = now + paused
  /\ enabled' = TRUE
  /\ twice' = IF enabled THEN twice \cup {"enable"} ELSE twice
  /\ UNCHANGED <<now, paused, ran>>
enable_restarted ==                 \* faulty: what ran before is forgotten
  /\ elapsed' = now
  /\ enabled' = TRUE
  /\ twice' = IF enabled THEN twice \cup {"enable"} ELSE twice
  /\ UNCHANGED <<now, paused, ran>>
enable ==
  /\ elapsed' = now - paused
  /\ enabled' = TRUE
  /\ twice' = IF enabled THEN twice \cup {"enable"} ELSE twice
  /\ UNCHANGED <<now, paused, ran>>

disable ==
  /\ paused' = now - elapsed
  /\ enabled' = FALSE
  /\ twice' = IF enabled THEN twice ELSE twice \cup {"disable"}
  /\ UNCHANGED <<now, elapsed, ran>>

TimePasses ==
  /\ now < MaxTime
  /\ now' = now + 1
  /\ ran' = IF enabled THEN ran + 1 ELSE ran
  /\ UNCHANGED <<enabled, paused, elapsed, twice>>

Next == enable \/ disable \/ TimePasses

Spec == Init /\ [][Next]_vars

get_virtual_clock == IF enabled THEN now - elapsed ELSE elapsed

-----------------------------------------------------------------------------
(* Every variable has its type; a Duration is never negative.               *)
TypeOK ==
  /\ now \in 0..MaxTime /\ enabled \in BOOLEAN
  /\ paused \in 0..MaxTime /\ elapsed \in 0..MaxTime
  /\ ran \in 0..MaxTime /\ twice \subseteq {"enable", "disable"}

(* No order of calls makes a later subtraction of two Durations underflow,  *)
(* which would panic.                                                       *)
NoUnderflow == paused <= now /\ elapsed <= now

(* The time that enable resumes from or that a running clock shows.         *)
Kept == IF enabled THEN now - elapsed ELSE paused

(* The clock shows more than the machine ran only if disable was called on  *)
(* a disabled clock, which counts the pause so far; and less only if enable *)
(* was called on an enabled clock, which goes back to the last pause.       *)
OnlyRepeatsDistort ==
  /\ "disable" \notin twice => Kept <= ran
  /\ "enable" \notin twice => Kept >= ran

(* test_virtual_clock (timer.rs:87-90): a clock that was enabled and        *)
(* disabled in turn still shows, while disabled, what it showed before.     *)
PausedClockStands == ~enabled /\ twice = {} => get_virtual_clock = ran
=============================================================================
