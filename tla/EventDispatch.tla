--------------------------- MODULE EventDispatch ---------------------------
(***************************************************************************)
(* The rounds of a loop's thread over its registry                         *)
(* (epoll_wait_manager in epoll/src/event_context.rs) against the threads  *)
(* that use the registry through EventLoop::update_event.                  *)
(*                                                                         *)
(* epoll_wait fills a list of addresses; for each the loop takes the       *)
(* status lock of the notifier, calls its handlers if it is Alive, gives   *)
(* the lock back, and applies the requests that the handlers returned.     *)
(* gc_clean ends the round.  The loop reads notifiers without the lock of  *)
(* `events`, so only the status locks and the end of the round protect     *)
(* what the list points to.                                                *)
(*                                                                         *)
(* A request holds the lock of `events` throughout and takes the status    *)
(* locks that Locks names on its way.  What it does before it gets them is *)
(* seen by nobody else (README, "EventDispatch"), so it is still one step, *)
(* that waits, with `events` locked, while the loop holds the status.      *)
(***************************************************************************)
EXTENDS EventRegistry

CONSTANT DeleteFirst   (* owners close a descriptor only when a Delete of it *)
                       (* has returned                                      *)

ASSUME DispatchAssumption == DeleteFirst \in BOOLEAN

VARIABLES
  pc,      (* where the loop's thread stands                                *)
  ready,   (* addresses in ready_events that are still to be dispatched     *)
  cur,     (* the notifier being dispatched                                 *)
  waiting, (* notifiers whose status a caller that locked `events` needs    *)
  retired, (* descriptors that their owners have deleted in order to close  *)
  late     (* history: registered descriptors that were added while retired *)

loopVars == <<pc, ready, cur, waiting>>
ownerVars == <<retired, late>>
dispatchVars == <<vars, loopVars, ownerVars>>

DispatchInit ==
  /\ Init
  /\ pc = "wait" /\ ready = {} /\ cur = None /\ waiting = {}
  /\ retired = {} /\ late = {}

-----------------------------------------------------------------------------
(* The status lock that the loop holds.                                     *)
HeldNever == None                  \* faulty: released before the handlers run
HeldThroughUpdate ==               \* faulty: released after the batch is applied
  IF pc \in {"handlers", "update"} THEN cur ELSE None
Held == IF pc = "handlers" THEN cur ELSE None

(* The notifiers whose status a request locks and writes, or, for a Delete, *)
(* reads.  The lock an AddShared takes on a registered notifier is left     *)
(* out: it comes after all its effects and only decides on a warning.       *)
Locks(r) ==
  LET fd        == r.raw_fd
      p         == events[fd]
      parked(q) == IF q # None /\ Registered(q) THEN {events[q]} ELSE {}
  IN  CASE r.op \in AddOps   -> IF ~Registered(fd) /\ CanWatch(fd) /\ r.parked_fd # None
                                THEN parked(r.parked_fd) ELSE {}
        [] r.op = "Modify"   -> {}
        [] r.op = "Delete"   -> IF Registered(fd) THEN {p} \cup parked(heap[p].parked_fd)
                                                  ELSE {}
        [] r.op = "Park"     -> IF Registered(fd) /\ Watched(fd) THEN {p} ELSE {}
        [] r.op = "Resume"   -> IF Registered(fd) /\ CanWatch(fd) THEN {p} ELSE {}

(* A request, and what the owner of its descriptor knows afterwards: only   *)
(* that its Delete has returned.  Others may add the descriptor again.      *)
Perform(r) ==
  /\ Apply(r)
  /\ retired' \in IF r.op = "Delete" THEN {retired, retired \cup ({r.raw_fd} \cap Closable)}
                                     ELSE {retired}
  /\ late' = {fd \in Fds : /\ events'[fd] # None
                           /\ fd \in late \/ (fd \in retired /\ ~Registered(fd))}

(* Another thread's request, from its lock of `events` to its return.       *)
Call ==
  /\ waiting = {}
  /\ \E r \in Requests : Held \notin Locks(r) /\ Perform(r)
  /\ UNCHANGED loopVars

CallWaits ==
  /\ waiting = {} /\ Held # None
  /\ \E r \in Requests : Held \in Locks(r) /\ waiting' = Locks(r)
  /\ UNCHANGED <<vars, pc, ready, cur, ownerVars>>

CallResumes ==
  /\ waiting # {} /\ Held \notin waiting
  /\ \E r \in Requests : Locks(r) = waiting /\ Perform(r)
  /\ waiting' = {}
  /\ UNCHANGED <<pc, ready, cur>>

-----------------------------------------------------------------------------
(* The loop.  What epoll_wait reports is any part of what is watched.       *)
KernelHoldsAll == {interest[fd].ptr : fd \in AllFds}
                                   \* faulty: with entries past ev_count
KernelHolds == {interest[fd].ptr : fd \in {g \in AllFds : Watched(g)}}

EpollWait ==
  /\ pc = "wait"
  /\ ready' \in SUBSET KernelHolds
  /\ pc' = "dispatch"
  /\ UNCHANGED <<vars, cur, waiting, ownerVars>>

(* A notifier that was parked or removed since epoll_wait is passed over,   *)
(* and its empty batch changes nothing here.                                *)
LockStatusNever(p) ==              \* faulty: the status is not looked at
  /\ ready' = ready \ {p}
  /\ pc' = "handlers" /\ cur' = p
LockStatus(p) ==
  /\ ready' = ready \ {p}
  /\ IF heap[p].status = "Alive" THEN pc' = "handlers" /\ cur' = p
                                 ELSE UNCHANGED <<pc, cur>>

DispatchNext ==
  /\ pc = "dispatch"
  /\ \E p \in ready : LockStatus(p)
  /\ UNCHANGED <<vars, waiting, ownerVars>>

(* The handlers return, with or without requests.                           *)
HandlersReturn ==
  /\ pc = "handlers"
  /\ pc' \in {"dispatch", "update"}
  /\ cur' = IF pc' = "dispatch" THEN None ELSE cur
  /\ UNCHANGED <<vars, ready, waiting, ownerVars>>

(* update_events on the requests of the handlers: one of them at a time,    *)
(* each with the lock of `events`, up to the last or the first that fails.  *)
Update(last) ==
  /\ pc = "update" /\ waiting = {}
  /\ \E r \in Requests : Held \notin Locks(r) /\ Perform(r)
  /\ IF last \/ result'.res # "Ok" THEN pc' = "dispatch" /\ cur' = None
                                   ELSE UNCHANGED <<pc, cur>>
  /\ UNCHANGED <<ready, waiting>>

(* run_timers calls what any caller may call; gc_clean ends the round.      *)
EndRoundEarly ==                   \* faulty: gc_clean after every notifier
  /\ pc = "dispatch"
  /\ IF gc = <<>> THEN UNCHANGED vars ELSE gc_clean /\ UNCHANGED open
  /\ pc' = IF ready = {} THEN "wait" ELSE pc
  /\ UNCHANGED <<ready, cur, waiting, ownerVars>>
EndRound ==
  /\ pc = "dispatch" /\ ready = {}
  /\ IF gc = <<>> THEN UNCHANGED vars ELSE gc_clean /\ UNCHANGED open
  /\ pc' = "wait"
  /\ UNCHANGED <<ready, cur, waiting, ownerVars>>

Loop == EpollWait \/ DispatchNext \/ HandlersReturn \/ Update(TRUE) \/ EndRound

(* Owners.  A close that comes while a request waits for a status is taken  *)
(* to come before or after that request.                                    *)
OwnerCloses(fd) ==
  /\ waiting = {}
  /\ DeleteFirst => fd \in retired
  /\ CloseFd(fd)
  /\ UNCHANGED <<loopVars, ownerVars>>

OwnerOpens(fd) ==
  /\ OpenFd(fd)
  /\ retired' = retired \ {fd}
  /\ UNCHANGED <<loopVars, late>>

RoundNext ==
  \/ Call \/ CallWaits \/ CallResumes
  \/ Loop \/ Update(FALSE)
  \/ \E fd \in Fds : OwnerCloses(fd) \/ OwnerOpens(fd)

(* The loop's thread is scheduled, a batch of requests is finite, and a     *)
(* caller whose lock has been released gets it.  No call is owed.           *)
RoundFairness == WF_dispatchVars(Loop) /\ WF_dispatchVars(CallResumes)

DispatchSpec == DispatchInit /\ [][RoundNext]_dispatchVars /\ RoundFairness

-----------------------------------------------------------------------------
(* Every variable has its type, and the list is only used within a round.   *)
DispatchTypeOK ==
  /\ pc \in {"wait", "dispatch", "handlers", "update"}
  /\ ready \subseteq Objs /\ (pc = "wait" => ready = {})
  /\ cur \in Objs \cup {None} /\ (cur # None <=> pc \in {"handlers", "update"})
  /\ waiting \subseteq Objs
  /\ retired \subseteq Closable /\ late \subseteq Fds

(* The addresses that the round will still turn into references.            *)
InUse == (ready \cup {cur}) \ {None}

(* No box is freed, or used again for another notifier, while the round     *)
(* may still dereference its address: whatever other threads, and the       *)
(* handlers themselves, remove in between.                                  *)
ReadyIsBoxed ==
  CheckedPark => \A p \in InUse : heap[p].status # "Free"

(* How far read_fd may rely on it that a "notifier handler is executed with *)
(* fd is is valid" (utils.rs:44):                                           *)
(* while handlers run, their notifier is Alive and in the map, and if the   *)
(* owners close only what a Delete of theirs has returned for, their        *)
(* descriptor is open: a Delete does not return before the handlers under   *)
(* way, none is begun after it, and it leaves the descriptor out of the map *)
(* even when it fails.  Only an add that comes between the owner's Delete   *)
(* and its close, from another thread or from the batch of a handler, can   *)
(* bring the descriptor back for the owner to close under the handlers.     *)
HandlerFdIsValid ==
  CheckedPark /\ pc = "handlers" =>
    LET fd == heap[cur].raw_fd
    IN  /\ events[fd] = cur /\ heap[cur].status = "Alive"
        /\ DeleteFirst => fd \in open \/ fd \in late

(* For such owners every Alive notifier is watched, also under a number     *)
(* that was closed and came back, where a shared add with the same mask     *)
(* does not ask the kernel.  Deaf can only be one that was added between    *)
(* its owner's Delete and the close.                                        *)
AliveIsHeard ==
  DeleteFirst => \A fd \in AllFds \ late :
    Registered(fd) /\ Notifier(fd).status = "Alive" => Watched(fd)

(* The loop and the callers never wait for each other: every round ends,    *)
(* and a caller that needs a status waits forever only when the loop takes  *)
(* what it needs again and again (a Mutex promises no turns).               *)
NobodyWaitsForever ==
  /\ []<>(pc = "wait")
  /\ []<>(waiting = {}) \/ []<>(Held \in waiting)
=============================================================================
