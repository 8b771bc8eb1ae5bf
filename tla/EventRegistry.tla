--------------------------- MODULE EventRegistry ---------------------------
(***************************************************************************)
(* The registration half of EventLoopContext (epoll/src/event_context.rs): *)
(* the map from file descriptors to boxed EventNotifiers, the interest     *)
(* list that the kernel keeps for the same descriptors, and the list of    *)
(* removed notifiers that wait to be freed.                                *)
(*                                                                         *)
(* The kernel stores, with each watched descriptor, the raw address of the *)
(* boxed notifier; the loop later turns that address back into a           *)
(* reference.  The module therefore models the heap: an address is a       *)
(* member of Objs, is taken when a notifier is boxed and may be taken      *)
(* again once the box is dropped.                                          *)
(*                                                                         *)
(* One action is one public operation.  Each of them holds the write lock  *)
(* of `events` from its first to its last statement, so it is one step.    *)
(***************************************************************************)
EXTENDS Naturals, Sequences, FiniteSets

CONSTANTS
  Fds,          (* descriptors callers register                               *)
  KickFd,       (* the loop's own eventfd, registered by init_tick            *)
  Objs,         (* heap addresses; bounds the notifiers alive or in gc        *)
  Masks,        (* the EventSets callers ask for                              *)
  Handlers,     (* callbacks                                                  *)
  HandlerLists, (* the handler vectors callers pass                           *)
  MaxHandlers,  (* bounds the handlers merged into one notifier               *)
  Ops,          (* the NotifierOperations callers use                         *)
  Closable,     (* descriptors their owner may close while registered         *)
  CheckedPark,  (* callers name a parked_fd only when it is being watched     *)
  None          (* Option::None, and the absence of an address                *)

AddOps == {"AddExclusion", "AddShared"}

AllFds == Fds \cup {KickFd}
Flags  == UNION Masks

ASSUME RegistryAssumption ==
  /\ KickFd \notin Fds
  /\ None \notin AllFds /\ None \notin Objs
  /\ Objs # {}
  /\ HandlerLists \subseteq Seq(Handlers)
  /\ MaxHandlers \in Nat
  /\ Ops \subseteq AddOps \cup {"Modify", "Park", "Resume", "Delete"}
  /\ Closable \subseteq Fds
  /\ CheckedPark \in BOOLEAN

(* What callers hand to update_events: Modify reads only raw_fd and         *)
(* handlers, and Park, Resume and Delete read only raw_fd.                  *)
Requests ==
  [op : Ops \cap AddOps, raw_fd : Fds, parked_fd : Fds \cup {None},
   event : Masks, handlers : HandlerLists]
  \cup [op : Ops \cap {"Modify"}, raw_fd : Fds, parked_fd : {None},
        event : {{}}, handlers : HandlerLists]
  \cup [op : Ops \cap {"Park", "Resume", "Delete"}, raw_fd : Fds,
        parked_fd : {None}, event : {{}}, handlers : {<<>>}]

VARIABLES
  heap,      (* what each address holds                                     *)
  events,    (* EventLoopContext.events: descriptor -> address              *)
  interest,  (* the epoll instance: descriptor -> address and mask          *)
  open,      (* descriptors that are open in this process                   *)
  gc,        (* EventLoopContext.gc: addresses of removed notifiers         *)
  result     (* what the last call returned                                 *)

vars == <<heap, events, interest, open, gc, result>>

-----------------------------------------------------------------------------
(* Notifiers.                                                               *)

FreeObj == [raw_fd |-> None, parked_fd |-> None, event |-> {},
            handlers |-> <<>>, status |-> "Free"]

NewNotifier(r) == [raw_fd |-> r.raw_fd, parked_fd |-> r.parked_fd,
                   event |-> r.event, handlers |-> r.handlers,
                   status |-> "Alive"]

Registered(fd) == events[fd] # None
Notifier(fd)   == heap[events[fd]]

(* The epoll system calls.  EPOLL_CTL_ADD fails on a closed descriptor      *)
(* (EBADF) and on one already watched (EEXIST), EPOLL_CTL_MOD and           *)
(* EPOLL_CTL_DEL on one that is not watched (EBADF, ENOENT).                *)
Unwatched    == [ptr |-> None, mask |-> {}]
Watched(fd)  == interest[fd].ptr # None
Watch(p, m)  == [ptr |-> p, mask |-> m]

CanWatch(fd) == fd \in open /\ ~Watched(fd)

ReturnParked(r, res) ==            \* faulty: the error names the wrong descriptor
  result' = [op |-> r.op, fd |-> r.parked_fd, res |-> res]
Return(r, res) == result' = [op |-> r.op, fd |-> r.raw_fd, res |-> res]

-----------------------------------------------------------------------------
(* EventLoopContext::new and init_tick: the kick descriptor is the first    *)
(* and, at first, the only registered one.                                  *)
KickRequest == [op |-> "AddExclusion", raw_fd |-> KickFd, parked_fd |-> None,
                event |-> {"IN"}, handlers |-> <<>>]

Init ==
  /\ \E k \in Objs :
       /\ heap = [p \in Objs |-> IF p = k THEN NewNotifier(KickRequest)
                                          ELSE FreeObj]
       /\ events = [fd \in AllFds |-> IF fd = KickFd THEN k ELSE None]
       /\ interest = [fd \in AllFds |-> IF fd = KickFd THEN Watch(k, {"IN"})
                                                       ELSE Unwatched]
  /\ open = AllFds
  /\ gc = <<>>
  /\ result = [op |-> "AddExclusion", fd |-> KickFd, res |-> "Ok"]

-----------------------------------------------------------------------------
(* add_event on a descriptor that is already in the map: an exclusive add   *)
(* is refused, a shared one widens the watched mask when the masks differ   *)
(* and appends its handlers; the parked_fd it names is not looked at.       *)
AddToRegistered(r) ==
  LET p      == events[r.raw_fd]
      differ == heap[p].event # r.event
      mask   == heap[p].event \cup r.event
  IN  /\ Registered(r.raw_fd)
      /\ \/ /\ r.op = "AddExclusion"
            /\ Return(r, "BadNotifierOperation")
            /\ UNCHANGED <<heap, interest>>
         \/ /\ r.op = "AddShared" /\ differ /\ ~Watched(r.raw_fd)
            /\ Return(r, "Syscall")
            /\ UNCHANGED <<heap, interest>>
         \/ /\ r.op = "AddShared" /\ (differ => Watched(r.raw_fd))
            /\ Len(heap[p].handlers \o r.handlers) <= MaxHandlers
            /\ interest' = IF differ
                           THEN [interest EXCEPT ![r.raw_fd] = Watch(p, mask)]
                           ELSE interest
            /\ heap' = [heap EXCEPT ![p].event = mask,
                                    ![p].handlers = @ \o r.handlers]
            /\ Return(r, "Ok")
      /\ UNCHANGED events

(* add_event on a new descriptor boxes the notifier at some free address p, *)
(* tells the kernel about it, and only then looks at parked_fd.  When the   *)
(* parked descriptor is unknown, or the kernel does not watch it, the call  *)
(* returns with the box dropped and the kernel still holding p.             *)
AddNew(r, p) ==
  LET fd      == r.raw_fd
      parked  == r.parked_fd
      watched == [interest EXCEPT ![fd] = Watch(p, r.event)]
  IN  /\ ~Registered(fd)
      /\ heap[p] = FreeObj
      /\ \/ /\ ~CanWatch(fd)
            /\ Return(r, "Syscall")
            /\ UNCHANGED <<heap, events, interest>>
         \/ /\ CanWatch(fd) /\ parked # None /\ ~Registered(parked)
            /\ interest' = watched
            /\ Return(r, "NoParkedFd")
            /\ UNCHANGED <<heap, events>>
         \/ /\ CanWatch(fd) /\ parked # None /\ Registered(parked)
            /\ ~Watched(parked)
            /\ interest' = watched
            /\ Return(r, "Syscall")
            /\ UNCHANGED <<heap, events>>
         \/ /\ CanWatch(fd) /\ parked # None /\ Registered(parked)
            /\ Watched(parked)
            /\ interest' = [watched EXCEPT ![parked] = Unwatched]
            /\ heap' = [heap EXCEPT ![p] = NewNotifier(r),
                                    ![events[parked]].status = "Park"]
            /\ events' = [events EXCEPT ![fd] = p]
            /\ Return(r, "Ok")
         \/ /\ CanWatch(fd) /\ parked = None
            /\ interest' = watched
            /\ heap' = [heap EXCEPT ![p] = NewNotifier(r)]
            /\ events' = [events EXCEPT ![fd] = p]
            /\ Return(r, "Ok")

add_event(r) ==
  /\ r.op \in AddOps
  /\ CheckedPark /\ r.parked_fd # None => Watched(r.parked_fd)
  /\ AddToRegistered(r) \/ \E p \in Objs : AddNew(r, p)
  /\ UNCHANGED gc

-----------------------------------------------------------------------------
(* The other operations refuse a descriptor that is not in the map.         *)
RefuseForgotten(r) ==              \* faulty: the kernel is told before the map is asked
  /\ ~Registered(r.raw_fd)
  /\ interest' = [interest EXCEPT ![r.raw_fd] = Unwatched]
  /\ Return(r, "NoRegisterFd")
  /\ UNCHANGED <<heap, events, gc>>
Refuse(r) ==
  /\ ~Registered(r.raw_fd)
  /\ Return(r, "NoRegisterFd")
  /\ UNCHANGED <<heap, events, interest, gc>>

modify_event(r) ==
  /\ r.op = "Modify"
  /\ \/ Refuse(r)
     \/ /\ Registered(r.raw_fd)
        /\ Len(r.handlers) <= MaxHandlers
        /\ heap' = [heap EXCEPT ![events[r.raw_fd]].handlers = r.handlers]
        /\ Return(r, "Ok")
        /\ UNCHANGED <<events, interest, gc>>

park_event_watched(r) ==           \* faulty: no EPOLL_CTL_DEL
  /\ r.op = "Park"
  /\ \/ Refuse(r)
     \/ /\ Registered(r.raw_fd)
        /\ heap' = [heap EXCEPT ![events[r.raw_fd]].status = "Park"]
        /\ Return(r, "Ok")
        /\ UNCHANGED <<events, interest, gc>>
park_event_early(r) ==             \* faulty: the status before the system call
  /\ r.op = "Park"
  /\ \/ Refuse(r)
     \/ /\ Registered(r.raw_fd)
        /\ heap' = [heap EXCEPT ![events[r.raw_fd]].status = "Park"]
        /\ interest' = [interest EXCEPT ![r.raw_fd] = Unwatched]
        /\ Return(r, IF Watched(r.raw_fd) THEN "Ok" ELSE "Syscall")
        /\ UNCHANGED <<events, gc>>
park_event(r) ==
  /\ r.op = "Park"
  /\ \/ Refuse(r)
     \/ /\ Registered(r.raw_fd) /\ ~Watched(r.raw_fd)
        /\ Return(r, "Syscall")
        /\ UNCHANGED <<heap, events, interest, gc>>
     \/ /\ Registered(r.raw_fd) /\ Watched(r.raw_fd)
        /\ interest' = [interest EXCEPT ![r.raw_fd] = Unwatched]
        /\ heap' = [heap EXCEPT ![events[r.raw_fd]].status = "Park"]
        /\ Return(r, "Ok")
        /\ UNCHANGED <<events, gc>>

resume_event_unwatched(r) ==       \* faulty: no EPOLL_CTL_ADD
  /\ r.op = "Resume"
  /\ \/ Refuse(r)
     \/ /\ Registered(r.raw_fd) /\ CanWatch(r.raw_fd)
        /\ heap' = [heap EXCEPT ![events[r.raw_fd]].status = "Alive"]
        /\ Return(r, "Ok")
        /\ UNCHANGED <<events, interest, gc>>
resume_event(r) ==
  LET p == events[r.raw_fd]
  IN  /\ r.op = "Resume"
      /\ \/ Refuse(r)
         \/ /\ Registered(r.raw_fd) /\ ~CanWatch(r.raw_fd)
            /\ Return(r, "Syscall")
            /\ UNCHANGED <<heap, events, interest, gc>>
         \/ /\ Registered(r.raw_fd) /\ CanWatch(r.raw_fd)
            /\ interest' = [interest EXCEPT ![r.raw_fd] =
                              Watch(p, heap[p].event)]
            /\ heap' = [heap EXCEPT ![p].status = "Alive"]
            /\ Return(r, "Ok")
            /\ UNCHANGED <<events, gc>>

(* rm_event stops watching an Alive notifier's descriptor; a parked one's   *)
(* was already given up.                                                    *)
StopWatchingParked(fd) ==          \* faulty: the status test is inverted
  IF Notifier(fd).status = "Park"
  THEN [interest EXCEPT ![fd] = Unwatched] ELSE interest
StopWatchingNone(fd) == interest   \* faulty: no EPOLL_CTL_DEL
StopWatching(fd) ==
  IF Notifier(fd).status = "Alive"
  THEN [interest EXCEPT ![fd] = Unwatched] ELSE interest

(* rm_event on a registered descriptor.  EBADF and ENOENT of the first      *)
(* epoll call are only logged (fd_released_test), and it has no other       *)
(* failure.  The notifier is out of the map and in gc before the            *)
(* descriptor it parked is resumed, so each failure of that second half is  *)
(* returned with the removal done.                                          *)
RemoveOnly(r) ==                   \* faulty: what was parked is not resumed
  LET p == events[r.raw_fd]
  IN  /\ Registered(r.raw_fd)
      /\ events' = [events EXCEPT ![r.raw_fd] = None]
      /\ gc' = Append(gc, p)
      /\ heap' = [heap EXCEPT ![p].status = "Removed"]
      /\ interest' = StopWatching(r.raw_fd)
      /\ Return(r, "Ok")
RemoveRegistered(r) ==
  LET fd     == r.raw_fd
      p      == events[fd]
      parked == heap[p].parked_fd
      q      == events[parked]
      left   == StopWatching(fd)
      gone   == [heap EXCEPT ![p].status = "Removed"]
  IN  /\ Registered(fd)
      /\ events' = [events EXCEPT ![fd] = None]
      /\ gc' = Append(gc, p)
      /\ \/ /\ parked = None
            /\ heap' = gone /\ interest' = left
            /\ Return(r, "Ok")
         \/ /\ parked # None /\ events'[parked] = None
            /\ heap' = gone /\ interest' = left
            /\ Return(r, "NoParkedFd")
         \/ /\ parked # None /\ events'[parked] # None /\ ~CanWatch(parked)
            /\ heap' = gone /\ interest' = left
            /\ Return(r, "Syscall")
         \/ /\ parked # None /\ events'[parked] # None /\ CanWatch(parked)
            /\ interest' = [left EXCEPT ![parked] = Watch(q, heap[q].event)]
            /\ heap' = [gone EXCEPT ![q].status = "Alive"]
            /\ Return(r, "Ok")

RemoveAfterResume(r) ==            \* faulty: the removal comes after the resume
  LET fd     == r.raw_fd
      p      == events[fd]
      parked == heap[p].parked_fd
      stuck  == parked # None /\ (~Registered(parked) \/ ~CanWatch(parked))
  IN  /\ Registered(fd)
      /\ IF stuck
         THEN /\ Return(r, IF Registered(parked) THEN "Syscall" ELSE "NoParkedFd")
              /\ UNCHANGED <<heap, events, interest, gc>>
         ELSE RemoveRegistered(r)
rm_event_resume_first(r) ==        \* faulty: as RemoveAfterResume
  r.op = "Delete" /\ (Refuse(r) \/ RemoveAfterResume(r))

rm_event(r) == r.op = "Delete" /\ (Refuse(r) \/ RemoveRegistered(r))

(* gc_clean stops when as many boxes have been popped as are left, so a     *)
(* pass over n boxes frees the first n - (n \div 2) of them.                *)
Popped(n) == n - (n \div 2)

gc_clean ==
  LET n == Popped(Len(gc))
  IN  /\ gc # <<>>
      /\ heap' = [p \in Objs |-> IF \E i \in 1..n : gc[i] = p
                                 THEN FreeObj ELSE heap[p]]
      /\ gc' = SubSeq(gc, n + 1, Len(gc))
      /\ UNCHANGED <<events, interest, result>>

-----------------------------------------------------------------------------
(* The owner of a descriptor may close it without a Delete                  *)
(* (fd_released_test); the kernel then forgets it.  Its number can come     *)
(* back for another file.                                                   *)
CloseFd(fd) ==
  /\ fd \in Closable \cap open
  /\ open' = open \ {fd}
  /\ interest' = [interest EXCEPT ![fd] = Unwatched]
  /\ UNCHANGED <<heap, events, gc, result>>

OpenFd(fd) ==
  /\ fd \in Closable \ open
  /\ open' = open \cup {fd}
  /\ UNCHANGED <<heap, events, interest, gc, result>>

(* One request of the match in update_events.                               *)
Apply(r) ==
  /\ \/ add_event(r)
     \/ modify_event(r)
     \/ park_event(r)
     \/ resume_event(r)
     \/ rm_event(r)
  /\ UNCHANGED open

Next ==
  \/ \E r \in Requests : Apply(r)
  \/ gc_clean /\ UNCHANGED open
  \/ \E fd \in Fds : CloseFd(fd) \/ OpenFd(fd)

Spec == Init /\ [][Next]_vars

-----------------------------------------------------------------------------
Statuses == {"Free", "Alive", "Park", "Removed"}
Results  == {"Ok", "BadNotifierOperation", "NoParkedFd", "NoRegisterFd",
             "Syscall"}

EventSets == SUBSET (Flags \cup {"IN"})
Notifiers == [raw_fd : AllFds \cup {None}, parked_fd : AllFds \cup {None},
              event : EventSets, handlers : Seq(Handlers), status : Statuses]
Entries   == [ptr : Objs \cup {None}, mask : EventSets]

(* Every variable has its type.                                             *)
TypeOK ==
  /\ heap \in [Objs -> Notifiers]
  /\ events \in [AllFds -> Objs \cup {None}]
  /\ interest \in [AllFds -> Entries]
  /\ open \subseteq AllFds
  /\ gc \in Seq(Objs)
  /\ result \in [op : AddOps \cup {"Modify", "Park", "Resume", "Delete"},
                 fd : AllFds, res : Results]

(* The map holds a notifier under the descriptor the notifier names, and    *)
(* holds neither freed nor removed ones.                                    *)
MapSound ==
  \A fd \in AllFds : Registered(fd) =>
    /\ Notifier(fd).raw_fd = fd
    /\ Notifier(fd).status \in {"Alive", "Park"}

(* gc holds each removed notifier exactly once: none is leaked, none is     *)
(* freed twice.                                                             *)
GcSound ==
  /\ \A i, j \in 1..Len(gc) : gc[i] = gc[j] => i = j
  /\ \A p \in Objs :
       heap[p].status = "Removed" <=> \E i \in 1..Len(gc) : gc[i] = p

(* For a registered descriptor the kernel's entry is the map's: the same    *)
(* notifier, its mask, and only while it is Alive.  A Park notifier can     *)
(* therefore not be dispatched, and the entry goes with the notifier.       *)
WatchSound ==
  \A fd \in AllFds : Watched(fd) =>
    /\ fd \in open
    /\ Registered(fd) => /\ interest[fd] = Watch(events[fd], Notifier(fd).event)
                         /\ Notifier(fd).status = "Alive"

(* What every sequence of calls keeps true of the registry.                 *)
RegistrySound == MapSound /\ GcSound /\ WatchSound

(* An Alive notifier is watched, unless its descriptor was closed under it. *)
AliveIsWatched ==
  \A fd \in AllFds \ Closable :
    Registered(fd) /\ Notifier(fd).status = "Alive" => Watched(fd)

(* When callers check the descriptor they park, every address the kernel    *)
(* can give back to epoll_wait_manager is that of an Alive notifier of that *)
(* descriptor.                                                              *)
KernelPointersAlive ==
  CheckedPark =>
    \A fd \in AllFds : Watched(fd) =>
      /\ interest[fd].ptr = events[fd]
      /\ Notifier(fd).raw_fd = fd /\ Notifier(fd).status = "Alive"

(* When no caller parks a descriptor by hand, a parked one still has its    *)
(* parker in the map, whose removal will resume it: no descriptor is left   *)
(* silent by any order of adds, removals and failures.                      *)
ParkedHasParker ==
  "Park" \notin Ops =>
    \A fd \in AllFds \ Closable :
      Registered(fd) /\ Notifier(fd).status = "Park" =>
        \E q \in Fds : Registered(q) /\ Notifier(q).parked_fd = fd

(* Descriptors the kernel watches for a notifier that is not in the map.    *)
Orphans == {fd \in AllFds : Watched(fd) /\ ~Registered(fd)}

(* An orphan appears only when an add is refused.                           *)
OrphanOrigin ==
  [][\A fd \in Orphans' \ Orphans :
       /\ result'.op \in AddOps /\ result'.fd = fd
       /\ result'.res \in {"NoParkedFd", "Syscall"}]_vars

(* No later call repairs an orphan, neither a retried add nor a delete: the *)
(* kernel forgets it only when the descriptor is closed.                    *)
OrphansStay == [][\A fd \in Orphans : fd \in open' => fd \in Orphans']_vars

(* A call that fails leaves every registered notifier, and what the kernel  *)
(* watches for it, as it was; only the target of a failed Delete is gone.   *)
FailureIsLocal ==
  [][\A fd \in AllFds :
       /\ Registered(fd) /\ fd \in open'
       /\ \/ events'[fd] # events[fd]
          \/ interest'[fd] # interest[fd]
          \/ heap'[events[fd]] # heap[events[fd]]
       => \/ result'.res = "Ok"
          \/ result'.op = "Delete" /\ result'.fd = fd]_vars

(* To its callers the registry is a set of descriptors: a failed add leaves *)
(* its descriptor out, a Delete takes it out even when it fails, no other   *)
(* request changes the set, and none answers what that set does not allow.  *)
Registry == INSTANCE FdRegistry WITH
  Fds        <- AllFds,
  registered <- {fd \in AllFds : Registered(fd)},
  parking    <- {fd \in AllFds : Registered(fd) /\ Notifier(fd).parked_fd # None},
  answer     <- result

ImplementsFdRegistry == Registry!Spec

(* NoRegisterFd says "The fd {0} is not registered in epoll."               *)
NoRegisterFdIsUnwatched ==
  result.res = "NoRegisterFd" => ~Watched(result.fd)
=============================================================================
