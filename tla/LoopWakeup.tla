----------------------------- MODULE LoopWakeup -----------------------------
(***************************************************************************)
(* How the event loop sleeps and how other threads wake it                 *)
(* (epoll/src/event_context.rs): the timer list, the two flags kicked and  *)
(* kick_me, the kick eventfd, and the manager's request to exit.           *)
(*                                                                         *)
(* Callers reach the context through the raw &mut of EventLoop::get_ctx,   *)
(* so nothing but the atomics and the timers mutex orders them against the *)
(* loop.  One action is one atomic access, one critical section or one     *)
(* system call; a local variable is reset where it goes out of use.  A     *)
(* callback that calls timer_add on the loop's own thread is the case of a *)
(* caller that runs while the loop stands in Fire.                         *)
(***************************************************************************)
EXTENDS Integers, Sequences, FiniteSets

CONSTANTS
  Callers,   (* threads that use the context of the loop                    *)
  Timers,    (* timers; bounds the calls of timer_add, each adds a new one  *)
  Delays,    (* the delays callers ask for                                  *)
  MaxTime,   (* bounds the clock; no timer expires later                    *)
  Uses,      (* what callers do: "add", "del", "kick", "exit"               *)
  IoThread,  (* io_thread_run rather than run                               *)
  NoTimeout  (* Option::None as a duration                                  *)

ASSUME WakeupAssumption ==
  /\ Delays \subseteq Nat
  /\ MaxTime \in Nat
  /\ Uses \subseteq {"add", "del", "kick", "exit"}
  /\ IoThread \in BOOLEAN
  /\ NoTimeout \notin Nat

VARIABLES
  now,         (* Instant::now()                                            *)
  timers,      (* EventLoopContext.timers                                   *)
  kicked,      (* EventLoopContext.kicked                                   *)
  kick_me,     (* EventLoopContext.kick_me                                  *)
  kick_event,  (* the kick eventfd is readable                              *)
  should_exit, (* EventLoopManager::loop_should_exit                        *)
  pc,          (* where the loop stands                                     *)
  pass,        (* which timers_min_duration of io_thread_run comes next     *)
  time_out,    (* epoll_wait_manager's time_out                             *)
  wake,        (* when the ppoll under way times out                        *)
  ready,       (* epoll_wait reported the kick descriptor                   *)
  due,         (* run_timers' instant                                       *)
  expired,     (* timers drained and not yet called                         *)
  at,          (* where each caller stands                                  *)
  boxed,       (* the timer each caller has boxed                           *)
  added, deleted, fired,  (* history: timers inserted, removed, called      *)
  seen         (* history: the earliest expiry at the last look             *)

flags == <<kicked, kick_me, kick_event>>
locals == <<pass, time_out, wake, ready, due, expired>>
loopVars == <<pc, locals>>
callerVars == <<at, boxed>>
history == <<added, deleted, fired, seen>>
vars == <<now, timers, flags, should_exit, loopVars, callerVars, history>>

-----------------------------------------------------------------------------
Ids(s) == {s[i].id : i \in DOMAIN s}
InsertAt(s, i, x) == SubSeq(s, 1, i - 1) \o <<x>> \o SubSeq(s, i, Len(s))
RemoveAt(s, i) == SubSeq(s, 1, i - 1) \o SubSeq(s, i + 1, Len(s))
MinOf(a, b) == IF a < b THEN a ELSE b

(* The place timer_add inserts at: the first one whose timer expires        *)
(* strictly later than x, or the end.                                       *)
LastPlace(x, i) == i = Len(timers) + 1   \* faulty: no search for the place
FirstLater(x, i) ==
  /\ \A j \in 1..(i - 1) : timers[j].expire_time <= x.expire_time
  /\ i <= Len(timers) => x.expire_time < timers[i].expire_time

(* run_timers counts n timers before the first one that is not due.         *)
ExpiredBefore(n) ==                 \* faulty: >= for >
  /\ \A i \in 1..n : timers[i].expire_time < due
  /\ n < Len(timers) => timers[n + 1].expire_time >= due
DrainOneMore(n) ==                  \* faulty: 0..=expired_nr for 0..expired_nr
  /\ n > 0 => /\ \A i \in 1..(n - 1) : timers[i].expire_time <= due
              /\ timers[n].expire_time > due \/ n = Len(timers)
  /\ n = 0 => timers = <<>>
DueCount(n) ==
  /\ \A i \in 1..n : timers[i].expire_time <= due
  /\ n < Len(timers) => timers[n + 1].expire_time > due

Init ==
  /\ now = 0 /\ timers = <<>>
  /\ kicked = FALSE /\ kick_me = FALSE /\ kick_event = FALSE
  /\ should_exit = FALSE
  /\ pc = "run" /\ pass = 1 /\ time_out = NoTimeout /\ wake = 0
  /\ ready = FALSE /\ due = 0 /\ expired = <<>>
  /\ at = [c \in Callers |-> "idle"] /\ boxed = [c \in Callers |-> <<>>]
  /\ added = {} /\ deleted = {} /\ fired = {} /\ seen = NoTimeout

-----------------------------------------------------------------------------
(* Callers.                                                                 *)

(* timer_add boxes the timer, and so fixes its expiry, before it locks.     *)
TimerNew(c) ==
  /\ at[c] = "idle" /\ "add" \in Uses
  /\ \E t \in Timers \ (added \cup UNION {Ids(boxed[d]) : d \in Callers}), delay \in Delays :
       /\ now + delay <= MaxTime
       /\ boxed' = [boxed EXCEPT ![c] = <<[id |-> t, expire_time |-> now + delay]>>]
  /\ at' = [at EXCEPT ![c] = "insert"]
  /\ UNCHANGED <<now, timers, flags, should_exit, loopVars, history>>

timer_add(c) ==
  LET x == boxed[c][1]
  IN  /\ at[c] = "insert"
      /\ \E i \in 1..(Len(timers) + 1) :
           /\ FirstLater(x, i)
           /\ timers' = InsertAt(timers, i, x)
      /\ added' = added \cup {x.id}
      /\ boxed' = [boxed EXCEPT ![c] = <<>>]
      /\ at' = [at EXCEPT ![c] = "tick"]
      /\ UNCHANGED <<now, flags, should_exit, loopVars, deleted, fired, seen>>

(* The id handed out by timer_add may be used at any time; once run_timers  *)
(* has taken the timer nothing is found and the call has no effect.         *)
timer_del(c) ==
  /\ at[c] = "idle" /\ "del" \in Uses
  /\ \E i \in 1..Len(timers) :
       /\ timers' = RemoveAt(timers, i)
       /\ deleted' = deleted \cup {timers[i].id}
  /\ UNCHANGED <<now, flags, should_exit, loopVars, callerVars, added, fired, seen>>

(* update_events with nothing to update, and a caller that makes            *)
(* loop_should_exit true, both go on to tick.                               *)
UpdateEvents(c) ==
  /\ at[c] = "idle" /\ "kick" \in Uses
  /\ at' = [at EXCEPT ![c] = "tick"]
  /\ UNCHANGED <<now, timers, flags, should_exit, loopVars, boxed, history>>

RequestExit(c) ==
  /\ at[c] = "idle" /\ "exit" \in Uses /\ ~should_exit
  /\ should_exit' = TRUE
  /\ at' = [at EXCEPT ![c] = "tick"]
  /\ UNCHANGED <<now, timers, flags, loopVars, boxed, history>>

(* tick: store kicked, load kick_me, write the eventfd.                     *)
StoreKicked(c) ==
  /\ at[c] = "tick"
  /\ kicked' = TRUE
  /\ at' = [at EXCEPT ![c] = "load"]
  /\ UNCHANGED <<now, timers, kick_me, kick_event, should_exit, loopVars, boxed, history>>

LoadKickMe(c) ==
  /\ at[c] = "load"
  /\ at' = [at EXCEPT ![c] = IF kick_me THEN "write" ELSE "idle"]
  /\ UNCHANGED <<now, timers, flags, should_exit, loopVars, boxed, history>>

WriteKick(c) ==
  /\ at[c] = "write"
  /\ kick_event' = TRUE
  /\ at' = [at EXCEPT ![c] = "idle"]
  /\ UNCHANGED <<now, timers, kicked, kick_me, should_exit, loopVars, boxed, history>>

(* What a caller does next once it has begun.                               *)
Continue(c) == timer_add(c) \/ StoreKicked(c) \/ LoadKickMe(c) \/ WriteKick(c)

Caller(c) == TimerNew(c) \/ timer_del(c) \/ UpdateEvents(c) \/ RequestExit(c)
             \/ Continue(c)

-----------------------------------------------------------------------------
(* The loop.                                                                *)

(* run and io_thread_run ask the manager first.                             *)
run ==
  /\ pc = "run"
  /\ pc' = IF should_exit THEN "exited" ELSE "clear"
  /\ pass' = IF IoThread THEN 1 ELSE 2
  /\ UNCHANGED <<now, timers, flags, should_exit, time_out, wake, ready, due, expired,
                 callerVars, history>>

(* timers_min_duration forgets the kicks so far, then looks at the timers.  *)
(* io_thread_run calls it twice and only the second result is waited for.   *)
ClearKicked ==
  /\ pc = "clear"
  /\ kicked' = FALSE
  /\ pc' = "min"
  /\ UNCHANGED <<now, timers, kick_me, kick_event, should_exit, locals, callerVars, history>>

FirstExpiry == IF timers = <<>> THEN NoTimeout ELSE timers[1].expire_time

UntilFirstWrapped ==                \* faulty: the subtraction does not saturate
  IF timers = <<>> THEN NoTimeout ELSE timers[1].expire_time - now
UntilFirst ==
  IF timers = <<>> THEN NoTimeout
  ELSE IF timers[1].expire_time > now THEN timers[1].expire_time - now ELSE 0

timers_min_duration ==
  /\ pc = "min"
  /\ time_out' = UntilFirst
  /\ seen' = FirstExpiry
  /\ pass' = 2
  /\ pc' = IF pass = 1 THEN "clear" ELSE "arm"
  /\ UNCHANGED <<now, timers, flags, should_exit, wake, ready, due, expired, callerVars,
                 added, deleted, fired>>

(* epoll_wait_manager: unless it will not sleep anyway, the loop announces  *)
(* that it has to be kicked and looks once more for a kick.                 *)
ArmNever ==                         \* faulty: kick_me is not set
  /\ pc = "arm"
  /\ pc' = IF time_out = 0 THEN "wait" ELSE "recheck"
  /\ UNCHANGED <<now, timers, flags, should_exit, locals, callerVars, history>>
Arm ==
  /\ pc = "arm"
  /\ IF time_out = 0 THEN pc' = "wait" /\ UNCHANGED kick_me
                     ELSE pc' = "recheck" /\ kick_me' = TRUE
  /\ UNCHANGED <<now, timers, kicked, kick_event, should_exit, locals, callerVars, history>>

RecheckNever ==                     \* faulty: kicked is not looked at again
  /\ pc = "recheck"
  /\ pc' = IF time_out = NoTimeout THEN "wait" ELSE "sleep"
  /\ UNCHANGED <<now, timers, flags, should_exit, locals, callerVars, history>>
Recheck ==
  /\ pc = "recheck"
  /\ time_out' = IF kicked THEN 0 ELSE time_out
  /\ pc' = IF kicked \/ time_out = NoTimeout THEN "wait" ELSE "sleep"
  /\ UNCHANGED <<now, timers, flags, should_exit, pass, wake, ready, due, expired,
                 callerVars, history>>

(* ppoll's timeout runs from its call.  The clock stops at MaxTime, which   *)
(* is at or after every expiry, so a later deadline is due there.           *)
Sleep ==
  /\ pc = "sleep"
  /\ wake' = MinOf(now + time_out, MaxTime)
  /\ pc' = "ppoll"
  /\ UNCHANGED <<now, timers, flags, should_exit, pass, time_out, ready, due, expired,
                 callerVars, history>>

LeavePpoll ==
  /\ pc = "ppoll"
  /\ time_out' = 0 /\ wake' = 0
  /\ pc' = "wait"
  /\ UNCHANGED <<now, timers, flags, should_exit, pass, ready, due, expired,
                 callerVars, history>>

ppoll == LeavePpoll /\ (kick_event \/ now >= wake)

(* epoll_wait with 0 returns at once; with -1 it waits.                     *)
LeaveWait ==
  /\ pc = "wait"
  /\ ready' = kick_event
  /\ pc' = "disarm"
  /\ UNCHANGED <<now, timers, flags, should_exit, pass, time_out, wake, due, expired,
                 callerVars, history>>

wait == LeaveWait /\ (kick_event \/ time_out = 0)

(* A signal, or another descriptor of the epoll, ends either sleep.         *)
Interrupt == LeavePpoll \/ LeaveWait

(* Any other error of ppoll or epoll_wait ends the loop at once: no timers, *)
(* no cleanup, and kick_me stays as it is.                                  *)
WaitFails ==
  /\ pc \in {"ppoll", "wait"}
  /\ pc' = "failed"
  /\ UNCHANGED <<now, timers, flags, should_exit, locals, callerVars, history>>

(* need_kc was true exactly if the loop set kick_me.  Events of other       *)
(* descriptors may have been reported as well: their handlers are left out, *)
(* the update_events that follows each of them is not.                      *)
Disarm ==
  /\ pc = "disarm"
  /\ kick_me' = FALSE
  /\ pc' \in IF ready THEN {"dispatch"} ELSE {"update", "timers"}
  /\ ready' = FALSE /\ time_out' = NoTimeout
  /\ UNCHANGED <<now, timers, kicked, kick_event, should_exit, pass, wake, due, expired,
                 callerVars, history>>

(* The kick handler of init_tick reads the eventfd; the update_events that  *)
(* follows each dispatched event ticks, with kick_me false.                 *)
DispatchUnread ==                   \* faulty: the handler does not read
  /\ pc = "dispatch"
  /\ pc' = "update"
  /\ UNCHANGED <<now, timers, flags, should_exit, locals, callerVars, history>>
Dispatch ==
  /\ pc = "dispatch"
  /\ kick_event' = FALSE
  /\ pc' = "update"
  /\ UNCHANGED <<now, timers, kicked, kick_me, should_exit, locals, callerVars, history>>

UpdateAfterDispatch ==
  /\ pc = "update"
  /\ kicked' = TRUE
  /\ pc' = "timers"
  /\ UNCHANGED <<now, timers, kick_me, kick_event, should_exit, locals, callerVars, history>>

(* run_timers reads the clock before it locks, drains what is due, and      *)
(* calls it with the lock released.                                         *)
SnapNow ==
  /\ pc = "timers"
  /\ due' = now
  /\ pc' = "drain"
  /\ UNCHANGED <<now, timers, flags, should_exit, pass, time_out, wake, ready, expired,
                 callerVars, history>>

DrainKeeps ==                       \* faulty: the due timers stay in the list
  /\ pc = "drain"
  /\ \E n \in 0..Len(timers) : DueCount(n) /\ expired' = SubSeq(timers, 1, n)
  /\ pc' = "fire"
  /\ UNCHANGED <<now, timers, flags, should_exit, pass, time_out, wake, ready, due,
                 callerVars, history>>
Drain ==
  /\ pc = "drain"
  /\ \E n \in 0..Len(timers) :
       /\ DueCount(n)
       /\ expired' = SubSeq(timers, 1, n)
       /\ timers' = SubSeq(timers, n + 1, Len(timers))
  /\ pc' = "fire" /\ due' = 0
  /\ UNCHANGED <<now, flags, should_exit, pass, time_out, wake, ready,
                 callerVars, history>>

Fire ==
  /\ pc = "fire"
  /\ IF expired = <<>>
     THEN pc' = "run" /\ UNCHANGED <<expired, fired>>
     ELSE /\ fired' = fired \cup {expired[1].id}
          /\ expired' = Tail(expired)
          /\ UNCHANGED pc
  /\ UNCHANGED <<now, timers, flags, should_exit, pass, time_out, wake, ready, due,
                 callerVars, added, deleted, seen>>

Loop == \/ run \/ ClearKicked \/ timers_min_duration \/ Arm \/ Recheck \/ Sleep
        \/ ppoll \/ wait \/ Disarm \/ Dispatch \/ UpdateAfterDispatch
        \/ SnapNow \/ Drain \/ Fire

TimePasses ==
  /\ now < MaxTime
  /\ now' = now + 1
  /\ UNCHANGED <<timers, flags, should_exit, loopVars, callerVars, history>>

Next == Loop \/ Interrupt \/ WaitFails \/ TimePasses \/ \E c \in Callers : Caller(c)

Spec == Init /\ [][Next]_vars

(* The loop's thread and the threads inside a call are scheduled, and time  *)
(* goes on.  No interrupt, no error and no new call is owed to anybody.     *)
Fairness == /\ WF_vars(Loop) /\ WF_vars(TimePasses)
            /\ \A c \in Callers : WF_vars(Continue(c))

FairSpec == Spec /\ Fairness

-----------------------------------------------------------------------------
TimerBoxes == [id : Timers, expire_time : 0..MaxTime]
TimeOuts == 0..MaxTime \cup {NoTimeout}
LoopPcs  == {"run", "exited", "failed", "clear", "min", "arm", "recheck", "sleep", "ppoll", "wait",
             "disarm", "dispatch", "update", "timers", "drain", "fire"}

(* Every variable has its type.                                             *)
TypeOK ==
  /\ now \in 0..MaxTime
  /\ timers \in Seq(TimerBoxes) /\ expired \in Seq(TimerBoxes)
  /\ kicked \in BOOLEAN /\ kick_me \in BOOLEAN /\ kick_event \in BOOLEAN
  /\ should_exit \in BOOLEAN /\ ready \in BOOLEAN
  /\ pc \in LoopPcs /\ pass \in {1, 2}
  /\ time_out \in TimeOuts /\ (pc = "sleep" => time_out # NoTimeout)
  /\ wake \in 0..MaxTime /\ due \in 0..MaxTime
  /\ at \in [Callers -> {"idle", "insert", "tick", "load", "write"}]
  /\ boxed \in [Callers -> Seq(TimerBoxes)]
  /\ \A c \in Callers : at[c] = "insert" => boxed[c] # <<>>
  /\ added \subseteq Timers /\ deleted \subseteq Timers /\ fired \subseteq Timers
  /\ seen \in TimeOuts

(* The timers are in the order of their expiry, although each was given its *)
(* expiry before the lock was taken to insert it.                           *)
TimersSorted ==
  \A i, j \in 1..Len(timers) : i < j => timers[i].expire_time <= timers[j].expire_time

(* The loop is, or is about to be, in a system call that waits.             *)
Asleep == pc \in {"ppoll", "wait"} /\ time_out # 0

(* A timer is due earlier than the loop knew when it last looked.           *)
Earlier == timers # <<>> /\ (seen = NoTimeout \/ timers[1].expire_time < seen)

(* The loop never sleeps past a timer it has not seen: the kick descriptor  *)
(* is readable, or the caller that added the timer will still make it so.   *)
NoLostWakeup ==
  Asleep /\ Earlier =>
    kick_event \/ \E c \in Callers : at[c] \in {"tick", "load", "write"}

(* run_timers takes every timer due at its instant and no other.            *)
DrainsWhatIsDue ==
  [][pc = "drain" /\ pc' = "fire" =>
       /\ \A i \in 1..Len(expired') : expired'[i].expire_time <= due
       /\ \A i \in 1..Len(timers') : timers'[i].expire_time > due]_vars

(* A timer is in one place: waiting, drained, called or removed.  One that  *)
(* timer_del found is not called, and none is called twice.                 *)
Once(s) == \A i, j \in DOMAIN s : s[i].id = s[j].id => i = j
EachTimerOnce ==
  /\ Once(timers) /\ Once(expired)
  /\ Ids(timers) \cap Ids(expired) = {}
  /\ (Ids(timers) \cup Ids(expired)) \cap (fired \cup deleted) = {}
  /\ fired \cap deleted = {}
  /\ added = Ids(timers) \cup Ids(expired) \cup fired \cup deleted

Ended == pc \in {"exited", "failed"}

(* A timer that is added is called, or removed first, or the loop has       *)
(* ended: whichever thread added it and wherever the loop stood.            *)
TimerRuns ==
  \A t \in Timers : t \in added ~> t \in fired \cup deleted \/ Ended

(* With nothing to do the loop rests in a system call that has no reason to *)
(* return: a kick is consumed, and kicked left true costs one round and not *)
(* a busy loop.                                                             *)
Quiet == timers = <<>> /\ (\A c \in Callers : at[c] = "idle") /\ ~Ended
SleepsWhenQuiet == []<>((Asleep /\ ~kick_event) \/ ~Quiet)

(* tick (event_context.rs:83): setting kicked shows that the loop has to be *)
(* woken.  So a caller that makes loop_should_exit true and ticks ends it.  *)
ExitIsSeen ==
  should_exit /\ (\A c \in Callers : at[c] = "idle") ~> Ended

(* The service that the list, the flags and the loop together provide: a    *)
(* timer that is drained and not yet called is still pending.               *)
Boxes(s) == {s[i] : i \in DOMAIN s}
Service == INSTANCE TimerService
             WITH pending <- Boxes(timers) \cup Boxes(expired),
                  called <- fired, removed <- deleted
ImplementsService == Service!Spec
=============================================================================
