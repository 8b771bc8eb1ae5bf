------------------------ MODULE EventRegistry_proof ------------------------
(***************************************************************************)
(* Proofs about EventRegistry, for every set of descriptors, addresses,    *)
(* masks and handlers, and every choice of operations callers use.         *)
(*                                                                         *)
(* RegistrySound is inductive together with TypeOK: its three parts need   *)
(* one another (a freed address is not in the map because gc holds only    *)
(* Removed notifiers; a parked notifier is not watched because the kernel  *)
(* holds only Alive ones), so they are proved as one.                      *)
(***************************************************************************)
EXTENDS EventRegistry, TLAPS

LEMMA RequestType ==
  ASSUME NEW r \in Requests
  PROVE  /\ r.op \in AddOps \cup {"Modify", "Park", "Resume", "Delete"}
         /\ r.raw_fd \in Fds
         /\ r.parked_fd \in Fds \cup {None}
         /\ r.event \in SUBSET Flags
         /\ r.handlers \in Seq(Handlers)
<1>1. CASE r \in [op : Ops \cap AddOps, raw_fd : Fds, parked_fd : Fds \cup {None},
                  event : Masks, handlers : HandlerLists]
  BY <1>1, RegistryAssumption DEF Flags
<1>2. CASE r \in [op : Ops \cap {"Modify"}, raw_fd : Fds, parked_fd : {None},
                  event : {{}}, handlers : HandlerLists]
  BY <1>2, RegistryAssumption DEF Flags
<1>3. CASE r \in [op : Ops \cap {"Park", "Resume", "Delete"}, raw_fd : Fds,
                  parked_fd : {None}, event : {{}}, handlers : {<<>>}]
  <2>1. <<>> \in Seq(Handlers)
    OBVIOUS
  <2>2. QED BY <1>3, <2>1 DEF Flags
<1>4. QED BY <1>1, <1>2, <1>3 DEF Requests

LEMMA NewNotifierType ==
  ASSUME NEW r \in Requests
  PROVE  NewNotifier(r) \in Notifiers
BY RequestType DEF NewNotifier, Notifiers, EventSets, Statuses, AllFds

LEMMA InitType == Init => TypeOK
<1> SUFFICES ASSUME Init PROVE TypeOK
  OBVIOUS
<1>1. PICK k \in Objs :
        /\ heap = [p \in Objs |-> IF p = k THEN NewNotifier(KickRequest)
                                           ELSE FreeObj]
        /\ events = [fd \in AllFds |-> IF fd = KickFd THEN k ELSE None]
        /\ interest = [fd \in AllFds |-> IF fd = KickFd THEN Watch(k, {"IN"})
                                                        ELSE Unwatched]
  BY DEF Init
<1>2. NewNotifier(KickRequest) \in Notifiers /\ FreeObj \in Notifiers
  BY DEF NewNotifier, KickRequest, FreeObj, Notifiers, EventSets, AllFds, Statuses
<1>3. Watch(k, {"IN"}) \in Entries /\ Unwatched \in Entries
  BY DEF Watch, Unwatched, Entries, EventSets
<1>4. heap \in [Objs -> Notifiers] /\ interest \in [AllFds -> Entries]
  BY <1>1, <1>2, <1>3
<1>5. QED
  BY <1>1, <1>4 DEF Init, TypeOK, AllFds, AddOps, Results

(* Writing one field of one notifier keeps the heap's type.                 *)
LEMMA SetStatusType ==
  ASSUME NEW hp \in [Objs -> Notifiers], NEW p \in Objs, NEW s \in Statuses
  PROVE  [hp EXCEPT ![p].status = s] \in [Objs -> Notifiers]
<1>1. [hp[p] EXCEPT !.status = s] \in Notifiers
  BY DEF Notifiers
<1>2. QED BY <1>1

LEMMA SetHandlersType ==
  ASSUME NEW hp \in [Objs -> Notifiers], NEW p \in Objs, NEW l \in Seq(Handlers)
  PROVE  [hp EXCEPT ![p].handlers = l] \in [Objs -> Notifiers]
<1>1. [hp[p] EXCEPT !.handlers = l] \in Notifiers
  BY DEF Notifiers
<1>2. QED BY <1>1

LEMMA PoppedBound ==
  ASSUME NEW n \in Nat, n > 0
  PROVE  Popped(n) \in 1..n
BY DEF Popped

LEMMA AddRegisteredType ==
  ASSUME TypeOK, NEW r \in Requests, AddToRegistered(r)
  PROVE  /\ heap' \in [Objs -> Notifiers] /\ interest' \in [AllFds -> Entries]
         /\ events' = events /\ \E res \in Results : Return(r, res)
<1> DEFINE p == events[r.raw_fd]
<1>1. r.raw_fd \in AllFds /\ p \in Objs /\ heap[p] \in Notifiers
  BY RequestType DEF AddToRegistered, Registered, TypeOK, AllFds
<1>2. heap[p].event \cup r.event \in EventSets
  BY <1>1, RequestType DEF Notifiers, EventSets
<1>3. heap[p].handlers \o r.handlers \in Seq(Handlers)
  BY <1>1, RequestType DEF Notifiers
<1>4. Watch(p, heap[p].event \cup r.event) \in Entries
  BY <1>1, <1>2 DEF Watch, Entries
<1>5. [heap[p] EXCEPT !.event = heap[p].event \cup r.event,
                      !.handlers = heap[p].handlers \o r.handlers] \in Notifiers
  BY <1>1, <1>2, <1>3 DEF Notifiers
<1>6. events' = events
  BY DEF AddToRegistered
<1>7. CASE UNCHANGED <<heap, interest>>
  BY <1>6, <1>7 DEF AddToRegistered, TypeOK, Results
<1>8. CASE ~UNCHANGED <<heap, interest>>
  <2>1. /\ heap' = [heap EXCEPT ![p].event = heap[p].event \cup r.event,
                               ![p].handlers = @ \o r.handlers]
        /\ interest' \in {interest, [interest EXCEPT ![r.raw_fd] =
                            Watch(p, heap[p].event \cup r.event)]}
        /\ Return(r, "Ok")
    BY <1>8 DEF AddToRegistered
  <2>2. heap' \in [Objs -> Notifiers]
    BY <1>1, <1>5, <2>1 DEF TypeOK, Notifiers
  <2>3. interest' \in [AllFds -> Entries]
    BY <1>1, <1>4, <2>1 DEF TypeOK
  <2>4. QED BY <1>6, <2>1, <2>2, <2>3 DEF Results
<1>9. QED BY <1>7, <1>8

LEMMA AddNewType ==
  ASSUME TypeOK, NEW r \in Requests, NEW p \in Objs, AddNew(r, p)
  PROVE  /\ heap' \in [Objs -> Notifiers] /\ interest' \in [AllFds -> Entries]
         /\ events' \in [AllFds -> Objs \cup {None}]
         /\ \E res \in Results : Return(r, res)
<1> DEFINE fd == r.raw_fd
           parked == r.parked_fd
           watched == [interest EXCEPT ![fd] = Watch(p, r.event)]
<1>1. fd \in AllFds /\ parked \in AllFds \cup {None} /\ r.event \in EventSets
  BY RequestType DEF AllFds, EventSets
<1>2. Watch(p, r.event) \in Entries /\ Unwatched \in Entries
  BY <1>1 DEF Watch, Unwatched, Entries, EventSets
<1>3. watched \in [AllFds -> Entries]
        /\ [watched EXCEPT ![parked] = Unwatched] \in [AllFds -> Entries]
  BY <1>1, <1>2 DEF TypeOK
<1>4. NewNotifier(r) \in Notifiers
  BY NewNotifierType
<1>5. CASE UNCHANGED <<heap, events>>
  BY <1>3, <1>5 DEF AddNew, TypeOK, Results
<1>6. CASE /\ parked # None /\ Registered(parked)
           /\ interest' = [watched EXCEPT ![parked] = Unwatched]
           /\ heap' = [heap EXCEPT ![p] = NewNotifier(r),
                                   ![events[parked]].status = "Park"]
           /\ events' = [events EXCEPT ![fd] = p]
           /\ Return(r, "Ok")
  <2>1. events[parked] \in Objs
    BY <1>1, <1>6 DEF Registered, TypeOK
  <2>2. [heap EXCEPT ![p] = NewNotifier(r)] \in [Objs -> Notifiers]
    BY <1>4 DEF TypeOK
  <2>3. [[heap EXCEPT ![p] = NewNotifier(r)]
            EXCEPT ![events[parked]].status = "Park"] \in [Objs -> Notifiers]
    BY <2>1, <2>2, SetStatusType DEF Statuses
  <2>4. QED BY <1>1, <1>3, <1>6, <2>3 DEF TypeOK, Results
<1>7. CASE /\ interest' = watched
           /\ heap' = [heap EXCEPT ![p] = NewNotifier(r)]
           /\ events' = [events EXCEPT ![fd] = p]
           /\ Return(r, "Ok")
  BY <1>1, <1>3, <1>4, <1>7 DEF TypeOK, Results
<1>8. QED
  BY <1>5, <1>6, <1>7 DEF AddNew

LEMMA RemoveType ==
  ASSUME TypeOK, NEW r \in Requests, RemoveRegistered(r)
  PROVE  /\ heap' \in [Objs -> Notifiers] /\ interest' \in [AllFds -> Entries]
         /\ events' \in [AllFds -> Objs \cup {None}] /\ gc' \in Seq(Objs)
         /\ \E res \in Results : Return(r, res)
<1> DEFINE fd     == r.raw_fd
           p      == events[fd]
           parked == heap[p].parked_fd
           q      == events[parked]
           left   == IF heap[p].status = "Alive"
                     THEN [interest EXCEPT ![fd] = Unwatched] ELSE interest
           gone   == [heap EXCEPT ![p].status = "Removed"]
<1>1. fd \in AllFds /\ p \in Objs /\ heap[p] \in Notifiers
  BY RequestType DEF RemoveRegistered, Registered, TypeOK, AllFds
<1>2. left \in [AllFds -> Entries]
  BY <1>1 DEF TypeOK, Unwatched, Entries, EventSets
<1>3. gone \in [Objs -> Notifiers]
  BY <1>1 DEF TypeOK, Notifiers, Statuses
<1>4. events' \in [AllFds -> Objs \cup {None}] /\ gc' \in Seq(Objs)
  <2>1. events' = [events EXCEPT ![fd] = None] /\ gc' = Append(gc, p)
    BY DEF RemoveRegistered
  <2>2. events' \in [AllFds -> Objs \cup {None}]
    BY <2>1 DEF TypeOK
  <2>3. gc' \in Seq(Objs)
    BY <1>1, <2>1 DEF TypeOK
  <2>4. QED BY <2>2, <2>3
<1>5. CASE heap' = gone /\ interest' = left
  BY <1>2, <1>3, <1>4, <1>5 DEF RemoveRegistered, StopWatching, Notifier, Results
<1>6. CASE /\ parked # None /\ events'[parked] # None
           /\ interest' = [left EXCEPT ![parked] = Watch(q, heap[q].event)]
           /\ heap' = [gone EXCEPT ![q].status = "Alive"]
           /\ Return(r, "Ok")
  <2>1. parked \in AllFds /\ q \in Objs /\ heap[q].event \in EventSets
    BY <1>1, <1>6 DEF RemoveRegistered, TypeOK, Notifiers
  <2>2. interest' \in [AllFds -> Entries]
    BY <1>2, <1>6, <2>1 DEF Watch, Entries
  <2>3. heap' \in [Objs -> Notifiers]
    BY <1>3, <1>6, <2>1, SetStatusType DEF Statuses
  <2>4. QED BY <1>4, <1>6, <2>2, <2>3 DEF Results
<1>7. QED
  BY <1>5, <1>6 DEF RemoveRegistered, StopWatching, Notifier

LEMMA ApplyType ==
  ASSUME TypeOK, NEW r \in Requests, Apply(r)
  PROVE  TypeOK'
<1>1. open' = open
  BY DEF Apply
<1>2. ASSUME \E res \in Results : Return(r, res)
      PROVE  (result \in [op : AddOps \cup {"Modify", "Park", "Resume", "Delete"},
                          fd : AllFds, res : Results])'
  BY <1>2, RequestType DEF Return, AllFds, AddOps, Results
<1>3. CASE Refuse(r)
  BY <1>1, <1>2, <1>3 DEF Refuse, TypeOK, Results
<1>4. CASE add_event(r)
  BY <1>1, <1>2, <1>4, AddRegisteredType, AddNewType DEF add_event, TypeOK
<1>5. CASE modify_event(r) /\ ~Refuse(r)
  <2>1. events[r.raw_fd] \in Objs
    BY <1>5, RequestType DEF modify_event, Registered, TypeOK, AllFds
  <2>2. heap' \in [Objs -> Notifiers]
    <3>1. heap' = [heap EXCEPT ![events[r.raw_fd]].handlers = r.handlers]
      BY <1>5 DEF modify_event
    <3>2. QED BY <2>1, <3>1, RequestType, SetHandlersType DEF TypeOK
  <2>3. QED BY <1>1, <1>2, <1>5, <2>2 DEF modify_event, TypeOK, Results
<1>6. CASE park_event(r) /\ ~Refuse(r)
  <2>1. events[r.raw_fd] \in Objs
    BY <1>6, RequestType DEF park_event, Registered, TypeOK, AllFds
  <2>2. "Park" \in Statuses /\ Unwatched \in Entries
    BY DEF Statuses, Unwatched, Entries, EventSets
  <2>a. heap' \in [Objs -> Notifiers]
    BY <1>6, <2>1, <2>2, SetStatusType DEF park_event, TypeOK
  <2>b. interest' \in [AllFds -> Entries]
    BY <1>6, <2>2 DEF park_event, TypeOK
  <2>3. QED BY <1>1, <1>2, <1>6, <2>a, <2>b DEF park_event, TypeOK, Results
<1>7. CASE resume_event(r) /\ ~Refuse(r)
  <2>1. events[r.raw_fd] \in Objs
    BY <1>7, RequestType DEF resume_event, Registered, TypeOK, AllFds
  <2>2. heap' \in [Objs -> Notifiers]
    <3>1. "Alive" \in Statuses
      BY DEF Statuses
    <3>2. QED BY <1>7, <2>1, <3>1, SetStatusType DEF resume_event, TypeOK
  <2>3. heap[events[r.raw_fd]].event \in EventSets
    BY <2>1 DEF TypeOK, Notifiers
  <2>4. interest' \in [AllFds -> Entries]
    BY <1>7, <2>1, <2>3 DEF resume_event, TypeOK, Watch, Entries
  <2>5. QED BY <1>1, <1>2, <1>7, <2>2, <2>4 DEF resume_event, TypeOK, Results
<1>8. CASE rm_event(r) /\ ~Refuse(r)
  BY <1>1, <1>2, <1>8, RemoveType DEF rm_event, TypeOK
<1>9. QED
  BY <1>3, <1>4, <1>5, <1>6, <1>7, <1>8
     DEF Apply, modify_event, park_event, resume_event, rm_event

(* Every variable has its type in every reachable state, for every choice   *)
(* of descriptors, addresses and requests: the writes of add_event,         *)
(* park_event, resume_event and rm_event never index the map or the heap    *)
(* outside what they hold.                                                  *)
THEOREM TypeCorrect == Spec => []TypeOK
<1>1. ASSUME TypeOK, [Next]_vars PROVE TypeOK'
  <2>1. CASE \E r \in Requests : Apply(r)
    BY <1>1, <2>1, ApplyType
  <2>2. CASE gc_clean /\ UNCHANGED open
    <3>1. FreeObj \in Notifiers
      BY DEF FreeObj, Notifiers, EventSets, Statuses
    <3>2. heap' \in [Objs -> Notifiers]
      BY <1>1, <2>2, <3>1 DEF gc_clean, TypeOK
    <3>3. gc' \in Seq(Objs)
      <4>1. Len(gc) \in Nat \ {0}
        BY <1>1, <2>2 DEF gc_clean, TypeOK
      <4>2. Popped(Len(gc)) \in 1..Len(gc)
        BY <4>1, PoppedBound
      <4>3. QED BY <1>1, <2>2, <4>1, <4>2 DEF gc_clean, TypeOK
    <3>4. QED BY <1>1, <2>2, <3>2, <3>3 DEF gc_clean, TypeOK
  <2>3. ASSUME NEW fd \in Fds, CloseFd(fd) \/ OpenFd(fd) PROVE TypeOK'
    <3>1. Unwatched \in Entries
      BY DEF Unwatched, Entries, EventSets
    <3>2. interest' \in [AllFds -> Entries] /\ open' \subseteq AllFds
      BY <1>1, <2>3, <3>1 DEF CloseFd, OpenFd, TypeOK, AllFds
    <3>3. QED BY <1>1, <2>3, <3>2 DEF CloseFd, OpenFd, TypeOK
  <2>4. CASE UNCHANGED vars
    BY <1>1, <2>4 DEF vars, TypeOK
  <2>5. QED BY <1>1, <2>1, <2>2, <2>3, <2>4 DEF Next
<1>2. QED BY <1>1, InitType, PTL DEF Spec

-----------------------------------------------------------------------------
(* What a write of one status does to every notifier.                       *)
LEMMA SetStatusAt ==
  ASSUME NEW hp \in [Objs -> Notifiers], NEW p \in Objs, NEW s \in Statuses,
         NEW o \in Objs
  PROVE  LET n == [hp EXCEPT ![p].status = s][o]
         IN  /\ n.raw_fd = hp[o].raw_fd /\ n.parked_fd = hp[o].parked_fd
             /\ n.event = hp[o].event
             /\ n.status = IF o = p THEN s ELSE hp[o].status
<1>1. CASE o = p
  <2>1. [hp EXCEPT ![p].status = s][o] = [hp[p] EXCEPT !.status = s]
    BY <1>1
  <2>2. QED BY <1>1, <2>1 DEF Notifiers
<1>2. CASE o # p
  BY <1>2
<1>3. QED BY <1>1, <1>2

(* gc stays sound when it is left alone and no notifier becomes Removed or  *)
(* stops being so.                                                          *)
LEMMA GcFrame ==
  ASSUME GcSound, gc' = gc,
         \A o \in Objs : heap'[o].status = "Removed" <=> heap[o].status = "Removed"
  PROVE  GcSound'
BY DEF GcSound

(* The map stays sound when it is left alone and each notifier keeps its    *)
(* descriptor and stays Alive or Park.                                      *)
LEMMA MapFrame ==
  ASSUME TypeOK, MapSound, events' = events,
         \A o \in Objs : heap[o].status \in {"Alive", "Park"} =>
           /\ heap'[o].raw_fd = heap[o].raw_fd
           /\ heap'[o].status \in {"Alive", "Park"}
  PROVE  MapSound'
<1>1. ASSUME NEW fd \in AllFds, events[fd] # None
      PROVE  /\ heap'[events[fd]].raw_fd = fd
             /\ heap'[events[fd]].status \in {"Alive", "Park"}
  <2>1. events[fd] \in Objs
    BY <1>1 DEF TypeOK
  <2>2. QED BY <1>1, <2>1 DEF MapSound, Registered, Notifier
<1>2. QED BY <1>1 DEF MapSound, Registered, Notifier

LEMMA InitSound == Init => RegistrySound
<1> SUFFICES ASSUME Init PROVE RegistrySound
  OBVIOUS
<1>1. PICK k \in Objs :
        /\ heap = [p \in Objs |-> IF p = k THEN NewNotifier(KickRequest)
                                           ELSE FreeObj]
        /\ events = [fd \in AllFds |-> IF fd = KickFd THEN k ELSE None]
        /\ interest = [fd \in AllFds |-> IF fd = KickFd THEN Watch(k, {"IN"})
                                                        ELSE Unwatched]
  BY DEF Init
<1>2. heap[k] = NewNotifier(KickRequest) /\ events[KickFd] = k
      /\ interest[KickFd] = Watch(k, {"IN"})
  BY <1>1 DEF AllFds
<1>3. \A fd \in AllFds \ {KickFd} : events[fd] = None /\ interest[fd].ptr = None
  BY <1>1 DEF Unwatched
<1>4. MapSound
  BY <1>2, <1>3 DEF MapSound, Registered, Notifier, NewNotifier, KickRequest
<1>5. GcSound
  BY <1>1 DEF Init, GcSound, NewNotifier, FreeObj
<1>6. WatchSound
  BY <1>2, <1>3 DEF Init, WatchSound, Watched, Registered, Notifier, NewNotifier,
                    KickRequest
<1>7. QED BY <1>4, <1>5, <1>6 DEF RegistrySound

(* Two descriptors never share a notifier.                                  *)
LEMMA MapInjective ==
  ASSUME MapSound, NEW fd \in AllFds, NEW fe \in AllFds,
         Registered(fd), events[fd] = events[fe]
  PROVE  fd = fe
BY DEF MapSound, Registered, Notifier

LEMMA AddRegisteredSound ==
  ASSUME TypeOK, RegistrySound, NEW r \in Requests, AddToRegistered(r),
         gc' = gc, open' = open
  PROVE  RegistrySound'
<1> DEFINE p == events[r.raw_fd]
           m == heap[p].event \cup r.event
<1>1. r.raw_fd \in AllFds /\ p \in Objs /\ heap[p] \in Notifiers /\ p # None
  BY RequestType DEF AddToRegistered, Registered, TypeOK, AllFds
<1>2. CASE UNCHANGED <<heap, interest>>
  BY <1>2 DEF AddToRegistered, RegistrySound, MapSound, GcSound, WatchSound,
              Registered, Notifier, Watched
<1>3. CASE ~UNCHANGED <<heap, interest>>
  <2>1. /\ heap' = [heap EXCEPT ![p].event = m, ![p].handlers = @ \o r.handlers]
        /\ events' = events
        /\ IF heap[p].event # r.event
           THEN interest' = [interest EXCEPT ![r.raw_fd] = Watch(p, m)]
                /\ Watched(r.raw_fd)
           ELSE interest' = interest
    BY <1>3 DEF AddToRegistered
  <2>2. \A o \in Objs \ {p} : heap'[o] = heap[o]
    BY <2>1 DEF TypeOK
  <2>3. /\ heap'[p].raw_fd = heap[p].raw_fd /\ heap'[p].status = heap[p].status
        /\ heap'[p].event = m
    <3>1. heap'[p] = [heap[p] EXCEPT !.event = m,
                                     !.handlers = heap[p].handlers \o r.handlers]
      BY <1>1, <2>1 DEF TypeOK
    <3>2. QED BY <1>1, <3>1 DEF Notifiers
  <2>4. MapSound'
    BY <2>1, <2>2, <2>3, MapFrame DEF RegistrySound
  <2>5. GcSound'
    BY <2>2, <2>3, GcFrame DEF RegistrySound
  <2>6. WatchSound'
    <3> SUFFICES ASSUME NEW fd \in AllFds, Watched(fd)'
                 PROVE  /\ fd \in open
                        /\ events[fd] # None =>
                             /\ interest'[fd] = Watch(events[fd], heap'[events[fd]].event)
                             /\ heap'[events[fd]].status = "Alive"
      BY <2>1 DEF WatchSound, Registered, Notifier
    <3>1. CASE fd # r.raw_fd
      <4>1. interest'[fd] = interest[fd]
        BY <2>1, <3>1 DEF TypeOK
      <4>2. events[fd] # None => events[fd] \in Objs \ {p}
        BY <1>1, <3>1, MapInjective DEF RegistrySound, TypeOK, Registered
      <4>3. QED BY <2>2, <4>1, <4>2 DEF RegistrySound, WatchSound, Watched, Registered, Notifier
    <3>2. CASE fd = r.raw_fd
      <4>1. Watched(fd)
        BY <2>1, <3>2 DEF Watched
      <4>2. fd \in open /\ interest[fd] = Watch(p, heap[p].event) /\ heap[p].status = "Alive"
        BY <1>1, <3>2, <4>1 DEF RegistrySound, WatchSound, Registered, Notifier
      <4>3. interest'[fd] = Watch(p, m)
        <5>1. CASE heap[p].event # r.event
          BY <1>1, <2>1, <3>2, <5>1 DEF TypeOK
        <5>2. CASE heap[p].event = r.event
          BY <2>1, <4>2, <5>2
        <5>3. QED BY <5>1, <5>2
      <4>4. QED BY <2>3, <3>2, <4>2, <4>3
    <3>3. QED BY <3>1, <3>2
  <2>7. QED BY <2>4, <2>5, <2>6 DEF RegistrySound
<1>4. QED BY <1>2, <1>3

LEMMA AddNewSound ==
  ASSUME TypeOK, RegistrySound, NEW r \in Requests, NEW p \in Objs, AddNew(r, p),
         gc' = gc, open' = open
  PROVE  RegistrySound'
<1> DEFINE fd == r.raw_fd
           parked == r.parked_fd
           watched == [interest EXCEPT ![fd] = Watch(p, r.event)]
           boxed == [heap EXCEPT ![p] = NewNotifier(r)]
<1>1. fd \in AllFds /\ parked \in AllFds \cup {None}
  BY RequestType DEF AllFds
<1>2. heap[p] = FreeObj /\ events[fd] = None
  BY DEF AddNew, Registered
<1>3. \A fe \in AllFds : events[fe] # p
  BY <1>2, RegistryAssumption DEF RegistrySound, MapSound, Registered, Notifier, FreeObj
<1>4. boxed \in [Objs -> Notifiers] /\ boxed[p] = NewNotifier(r)
      /\ \A o \in Objs \ {p} : boxed[o] = heap[o]
  BY NewNotifierType DEF TypeOK
<1>a. /\ NewNotifier(r).raw_fd = fd /\ NewNotifier(r).status = "Alive"
      /\ NewNotifier(r).event = r.event
  BY DEF NewNotifier
<1> HIDE DEF boxed
<1>5. CASE /\ UNCHANGED <<heap, events>>
           /\ interest' = interest \/ (interest' = watched /\ CanWatch(fd))
  <2>1. interest' = interest \/ (interest' = watched /\ fd \in open)
    BY <1>5 DEF CanWatch
  <2>2. \A fe \in AllFds \ {fd} : interest'[fe] = interest[fe]
    BY <2>1 DEF TypeOK
  <2>3. WatchSound'
    BY <1>2, <1>5, <2>1, <2>2
       DEF RegistrySound, WatchSound, Watched, Registered, Notifier
  <2>4. QED
    BY <1>5, <2>3 DEF RegistrySound, MapSound, GcSound, Registered, Notifier
<1>6. ASSUME heap'[p] = NewNotifier(r),
             \A o \in Objs \ {p} : /\ heap'[o].raw_fd = heap[o].raw_fd
                                   /\ heap'[o].status # heap[o].status =>
                                        /\ heap[o].status \in {"Alive", "Park"}
                                        /\ heap'[o].status \in {"Alive", "Park"},
             events' = [events EXCEPT ![fd] = p]
      PROVE  MapSound' /\ GcSound'
  <2>1. events'[fd] = p /\ \A fe \in AllFds \ {fd} : events'[fe] = events[fe]
    BY <1>1, <1>6 DEF TypeOK
  <2>2. heap'[p].raw_fd = fd /\ heap'[p].status = "Alive"
    BY <1>6, <1>a
  <2>3. ASSUME NEW fe \in AllFds \ {fd}, events[fe] # None
        PROVE  /\ heap'[events[fe]].raw_fd = fe
               /\ heap'[events[fe]].status \in {"Alive", "Park"}
    <3>1. events[fe] \in Objs \ {p}
      BY <1>3, <2>3 DEF TypeOK
    <3>2. heap[events[fe]].raw_fd = fe /\ heap[events[fe]].status \in {"Alive", "Park"}
      BY <2>3 DEF RegistrySound, MapSound, Registered, Notifier
    <3>3. QED BY <1>6, <3>1, <3>2
  <2>4. MapSound'
    BY <2>1, <2>2, <2>3 DEF MapSound, Registered, Notifier
  <2>5. \A o \in Objs : heap'[o].status = "Removed" <=> heap[o].status = "Removed"
    BY <1>2, <1>6, <2>2 DEF FreeObj
  <2>6. QED BY <2>4, <2>5, GcFrame DEF RegistrySound
<1>7. CASE /\ interest' = watched /\ CanWatch(fd)
           /\ heap' = boxed
           /\ events' = [events EXCEPT ![fd] = p]
  <2>1. MapSound' /\ GcSound'
    BY <1>4, <1>6, <1>7
  <2>2. /\ interest'[fd] = Watch(p, r.event) /\ events'[fd] = p
        /\ heap'[p] = NewNotifier(r)
        /\ \A fe \in AllFds \ {fd} : interest'[fe] = interest[fe] /\ events'[fe] = events[fe]
    BY <1>1, <1>4, <1>7 DEF TypeOK
  <2>3. \A fe \in AllFds \ {fd} : events[fe] # None => heap'[events[fe]] = heap[events[fe]]
    BY <1>3, <1>4, <1>7 DEF TypeOK
  <2>4. WatchSound'
    <3> SUFFICES ASSUME NEW fe \in AllFds, interest'[fe].ptr # None
                 PROVE  /\ fe \in open
                        /\ events'[fe] # None =>
                             /\ interest'[fe] = Watch(events'[fe], heap'[events'[fe]].event)
                             /\ heap'[events'[fe]].status = "Alive"
      BY DEF WatchSound, Watched, Registered, Notifier
    <3>1. CASE fe = fd
      BY <1>7, <1>a, <2>2, <3>1 DEF CanWatch
    <3>2. CASE fe # fd
      BY <2>2, <2>3, <3>2 DEF RegistrySound, WatchSound, Watched, Registered, Notifier
    <3>3. QED BY <3>1, <3>2
  <2>5. QED BY <2>1, <2>4 DEF RegistrySound
<1>8. CASE /\ parked # None /\ Registered(parked) /\ Watched(parked) /\ CanWatch(fd)
           /\ interest' = [watched EXCEPT ![parked] = Unwatched]
           /\ heap' = [boxed EXCEPT ![events[parked]].status = "Park"]
           /\ events' = [events EXCEPT ![fd] = p]
  <2> DEFINE q == events[parked]
  <2>1. parked \in AllFds /\ q \in Objs \ {p} /\ parked # fd
    BY <1>1, <1>2, <1>3, <1>8 DEF Registered, TypeOK
  <2>2. /\ heap' \in [Objs -> Notifiers]
        /\ \A o \in Objs : /\ heap'[o].raw_fd = boxed[o].raw_fd
                           /\ heap'[o].event = boxed[o].event
                           /\ heap'[o].status = IF o = q THEN "Park" ELSE boxed[o].status
    <3>1. "Park" \in Statuses
      BY DEF Statuses
    <3>2. heap' \in [Objs -> Notifiers]
      BY <1>4, <1>8, <2>1, <3>1, SetStatusType
    <3>3. ASSUME NEW o \in Objs
          PROVE  /\ heap'[o].raw_fd = boxed[o].raw_fd
                 /\ heap'[o].event = boxed[o].event
                 /\ heap'[o].status = IF o = q THEN "Park" ELSE boxed[o].status
      BY <1>4, <1>8, <2>1, <3>1, SetStatusAt
    <3>4. QED BY <3>2, <3>3
  <2>3. heap'[p] = NewNotifier(r)
    BY <1>4, <1>8, <2>1
  <2>4. heap[q].status \in {"Alive", "Park"}
    BY <1>8, <2>1 DEF RegistrySound, MapSound, Registered, Notifier
  <2>5. MapSound' /\ GcSound'
    <3>1. \A o \in Objs \ {p} : /\ heap'[o].raw_fd = heap[o].raw_fd
                                /\ o # q => heap'[o].status = heap[o].status
      BY <1>4, <2>2
    <3>2. heap'[q].status = "Park"
      BY <2>1, <2>2
    <3>3. QED BY <1>6, <1>8, <2>3, <2>4, <3>1, <3>2
  <2>6. /\ interest'[fd] = Watch(p, r.event) /\ events'[fd] = p
        /\ interest'[parked] = Unwatched
        /\ \A fe \in AllFds \ {fd} : events'[fe] = events[fe]
        /\ \A fe \in AllFds \ {fd, parked} : interest'[fe] = interest[fe]
    BY <1>1, <1>8, <2>1 DEF TypeOK
  <2>7. ASSUME NEW fe \in AllFds \ {fd, parked}, events[fe] # None
        PROVE  /\ heap'[events[fe]].event = heap[events[fe]].event
               /\ heap'[events[fe]].status = heap[events[fe]].status
    <3>1. events[fe] \in Objs /\ events[fe] # p /\ events[fe] # q
      BY <1>3, <2>1, <2>7, MapInjective DEF RegistrySound, TypeOK, Registered
    <3>2. QED BY <1>4, <2>2, <3>1
  <2>8. WatchSound'
    <3> SUFFICES ASSUME NEW fe \in AllFds, interest'[fe].ptr # None
                 PROVE  /\ fe \in open
                        /\ events'[fe] # None =>
                             /\ interest'[fe] = Watch(events'[fe], heap'[events'[fe]].event)
                             /\ heap'[events'[fe]].status = "Alive"
      BY DEF WatchSound, Watched, Registered, Notifier
    <3>1. CASE fe = fd
      <4>1. fd \in open
        BY <1>8 DEF CanWatch
      <4>2. heap'[p].event = r.event /\ heap'[p].status = "Alive"
        BY <1>a, <2>3
      <4>3. QED BY <2>6, <3>1, <4>1, <4>2
    <3>2. CASE fe = parked
      BY <2>6, <3>2 DEF Unwatched
    <3>3. CASE fe \notin {fd, parked}
      BY <2>6, <2>7, <3>3 DEF RegistrySound, WatchSound, Watched, Registered, Notifier
    <3>4. QED BY <3>1, <3>2, <3>3
  <2>9. QED BY <2>5, <2>8 DEF RegistrySound
<1>9. QED
  BY <1>5, <1>7, <1>8 DEF AddNew, boxed

LEMMA ModifySound ==
  ASSUME TypeOK, RegistrySound, NEW r \in Requests, modify_event(r), open' = open
  PROVE  RegistrySound'
<1>1. CASE Refuse(r)
  BY <1>1 DEF Refuse, RegistrySound, MapSound, GcSound, WatchSound, Registered,
              Notifier, Watched
<1>2. CASE ~Refuse(r)
  <2> DEFINE p == events[r.raw_fd]
  <2>1. /\ p \in Objs /\ heap' = [heap EXCEPT ![p].handlers = r.handlers]
        /\ UNCHANGED <<events, interest, gc>>
    BY <1>2, RequestType DEF modify_event, Registered, TypeOK, AllFds
  <2>2. ASSUME NEW o \in Objs
        PROVE  /\ heap'[o].raw_fd = heap[o].raw_fd /\ heap'[o].event = heap[o].event
               /\ heap'[o].status = heap[o].status
    <3>1. CASE o = p
      <4>1. heap'[o] = [heap[p] EXCEPT !.handlers = r.handlers]
        BY <2>1, <3>1 DEF TypeOK
      <4>2. QED BY <3>1, <4>1 DEF TypeOK, Notifiers
    <3>2. CASE o # p
      BY <2>1, <3>2 DEF TypeOK
    <3>3. QED BY <3>1, <3>2
  <2>3. MapSound' /\ GcSound'
    BY <2>1, <2>2, MapFrame, GcFrame DEF RegistrySound
  <2>4. \A fd \in AllFds : events[fd] # None => events[fd] \in Objs
    BY DEF TypeOK
  <2>5. WatchSound'
    BY <2>1, <2>2, <2>4 DEF RegistrySound, WatchSound, Watched, Registered, Notifier
  <2>6. QED BY <2>3, <2>5 DEF RegistrySound
<1>3. QED BY <1>1, <1>2

(* park_event and resume_event write one status and the same descriptor's   *)
(* entry; the registry stays sound when the entry follows the status.       *)
LEMMA StatusFollowed ==
  ASSUME TypeOK, RegistrySound, NEW fd \in AllFds, NEW s \in {"Alive", "Park"},
         Registered(fd), open' = open, events' = events, gc' = gc,
         heap' = [heap EXCEPT ![events[fd]].status = s],
         interest' = [interest EXCEPT ![fd] =
           IF s = "Alive" THEN Watch(events[fd], heap[events[fd]].event) ELSE Unwatched],
         s = "Alive" => fd \in open
  PROVE  RegistrySound'
<1> DEFINE p == events[fd]
<1>1. p \in Objs /\ heap[p].status \in {"Alive", "Park"}
  BY DEF TypeOK, Registered, RegistrySound, MapSound, Notifier
<1>2. ASSUME NEW o \in Objs
      PROVE  /\ heap'[o].raw_fd = heap[o].raw_fd /\ heap'[o].event = heap[o].event
             /\ heap'[o].status = IF o = p THEN s ELSE heap[o].status
  <2>1. s \in Statuses /\ heap \in [Objs -> Notifiers]
    BY DEF Statuses, TypeOK
  <2>2. QED BY <1>1, <2>1, SetStatusAt
<1>3. MapSound' /\ GcSound'
  BY <1>1, <1>2, MapFrame, GcFrame DEF RegistrySound
<1>4. WatchSound'
  <2> SUFFICES ASSUME NEW fe \in AllFds, interest'[fe].ptr # None
               PROVE  /\ fe \in open
                      /\ events[fe] # None =>
                           /\ interest'[fe] = Watch(events[fe], heap'[events[fe]].event)
                           /\ heap'[events[fe]].status = "Alive"
    BY DEF WatchSound, Watched, Registered, Notifier
  <2>1. CASE fe = fd
    <3>1. s = "Alive"
      BY <2>1 DEF TypeOK, Unwatched
    <3>2. QED BY <1>1, <1>2, <2>1, <3>1 DEF TypeOK
  <2>2. CASE fe # fd
    <3>1. interest'[fe] = interest[fe]
      BY <2>2 DEF TypeOK
    <3>2. events[fe] # None => events[fe] \in Objs /\ events[fe] # p
      BY <2>2, MapInjective DEF RegistrySound, TypeOK, Registered
    <3>3. QED
      BY <1>2, <3>1, <3>2 DEF RegistrySound, WatchSound, Watched, Registered, Notifier
  <2>3. QED BY <2>1, <2>2
<1>5. QED BY <1>3, <1>4 DEF RegistrySound

LEMMA ParkResumeSound ==
  ASSUME TypeOK, RegistrySound, NEW r \in Requests, park_event(r) \/ resume_event(r),
         open' = open
  PROVE  RegistrySound'
<1> DEFINE p == events[r.raw_fd]
<1>1. CASE UNCHANGED <<heap, events, interest, gc>>
  BY <1>1 DEF RegistrySound, MapSound, GcSound, WatchSound, Registered, Notifier, Watched
<1>2. CASE park_event(r) /\ ~UNCHANGED <<heap, events, interest, gc>>
  <2>1. /\ Registered(r.raw_fd) /\ heap' = [heap EXCEPT ![p].status = "Park"]
        /\ interest' = [interest EXCEPT ![r.raw_fd] = Unwatched]
        /\ events' = events /\ gc' = gc
    BY <1>2 DEF park_event, Refuse
  <2>2. QED BY <2>1, RequestType, StatusFollowed DEF AllFds
<1>3. CASE resume_event(r) /\ ~UNCHANGED <<heap, events, interest, gc>>
  <2>1. /\ Registered(r.raw_fd) /\ heap' = [heap EXCEPT ![p].status = "Alive"]
        /\ interest' = [interest EXCEPT ![r.raw_fd] = Watch(p, heap[p].event)]
        /\ events' = events /\ gc' = gc /\ r.raw_fd \in open
    BY <1>3 DEF resume_event, Refuse, CanWatch
  <2>2. QED BY <2>1, RequestType, StatusFollowed DEF AllFds
<1>4. QED BY <1>1, <1>2, <1>3

(* Removal takes the notifier out of the map as it becomes Removed and      *)
(* enters gc.                                                               *)
LEMMA RemoveSound ==
  ASSUME TypeOK, RegistrySound, NEW r \in Requests, RemoveRegistered(r), open' = open
  PROVE  RegistrySound'
<1> DEFINE fd     == r.raw_fd
           p      == events[fd]
           parked == heap[p].parked_fd
           q      == events[parked]
           left   == IF heap[p].status = "Alive"
                     THEN [interest EXCEPT ![fd] = Unwatched] ELSE interest
           gone   == [heap EXCEPT ![p].status = "Removed"]
<1>1. fd \in AllFds /\ p \in Objs /\ p # None
  BY RequestType DEF RemoveRegistered, Registered, TypeOK, AllFds
<1>2. heap[p].status \in {"Alive", "Park"} /\ parked \in AllFds \cup {None}
  BY <1>1 DEF RegistrySound, MapSound, Registered, Notifier, TypeOK, Notifiers
<1>3. /\ events' = [events EXCEPT ![fd] = None] /\ gc' = Append(gc, p)
  BY DEF RemoveRegistered
<1>4. events'[fd] = None /\ \A fe \in AllFds \ {fd} : events'[fe] = events[fe]
  BY <1>1, <1>3 DEF TypeOK
<1>5. /\ gone \in [Objs -> Notifiers]
      /\ \A o \in Objs : /\ gone[o].raw_fd = heap[o].raw_fd
                         /\ gone[o].event = heap[o].event
                         /\ gone[o].status = IF o = p THEN "Removed" ELSE heap[o].status
  <2>1. "Removed" \in Statuses /\ heap \in [Objs -> Notifiers]
    BY DEF Statuses, TypeOK
  <2>2. gone \in [Objs -> Notifiers]
    BY <1>1, <2>1, SetStatusType
  <2>3. ASSUME NEW o \in Objs
        PROVE  /\ gone[o].raw_fd = heap[o].raw_fd /\ gone[o].event = heap[o].event
               /\ gone[o].status = IF o = p THEN "Removed" ELSE heap[o].status
    BY <1>1, <2>1, SetStatusAt
  <2>4. QED BY <2>2, <2>3
<1>6. /\ left[fd].ptr = None /\ \A fe \in AllFds \ {fd} : left[fe] = interest[fe]
      /\ left \in [AllFds -> Entries]
  <2>1. Unwatched \in Entries /\ Unwatched.ptr = None
    BY DEF Unwatched, Entries, EventSets
  <2>2. CASE heap[p].status = "Alive"
    BY <1>1, <2>1, <2>2 DEF TypeOK
  <2>3. CASE heap[p].status # "Alive"
    BY <1>1, <2>3 DEF TypeOK, RegistrySound, WatchSound, Watched, Registered, Notifier
  <2>4. QED BY <2>2, <2>3
<1> HIDE DEF gone, left
<1>7. ASSUME \A o \in Objs : heap'[o].status = "Removed" <=> gone[o].status = "Removed"
      PROVE  GcSound'
  <2>1. /\ Len(gc') = Len(gc) + 1 /\ gc'[Len(gc) + 1] = p /\ Len(gc) \in Nat
        /\ \A i \in 1..Len(gc) : gc'[i] = gc[i]
    BY <1>1, <1>3 DEF TypeOK
  <2>2. \A i \in 1..Len(gc) : gc[i] # p
    BY <1>1, <1>2 DEF RegistrySound, GcSound
  <2>3. \A i, j \in 1..Len(gc') : gc'[i] = gc'[j] => i = j
    BY <2>1, <2>2 DEF RegistrySound, GcSound
  <2>4. ASSUME NEW o \in Objs
        PROVE  heap'[o].status = "Removed" <=> \E i \in 1..Len(gc') : gc'[i] = o
    <3>1. CASE o = p
      BY <1>5, <1>7, <2>1, <3>1
    <3>2. CASE o # p
      <4>1. heap'[o].status = "Removed" <=> \E i \in 1..Len(gc) : gc[i] = o
        BY <1>5, <1>7, <3>2 DEF RegistrySound, GcSound
      <4>2. (\E i \in 1..Len(gc) : gc[i] = o) <=> \E i \in 1..Len(gc') : gc'[i] = o
        BY <2>1, <3>2
      <4>3. QED BY <4>1, <4>2
    <3>3. QED BY <3>1, <3>2
  <2>5. QED BY <2>3, <2>4 DEF GcSound
<1>8. \A fe \in AllFds \ {fd} : events[fe] # None =>
        events[fe] \in Objs /\ events[fe] # p
  BY <1>1, MapInjective DEF RegistrySound, TypeOK, Registered
<1>9. CASE heap' = gone /\ interest' = left
  <2>1. ASSUME NEW fe \in AllFds, events'[fe] # None
        PROVE  /\ heap'[events'[fe]].raw_fd = fe
               /\ heap'[events'[fe]].status = heap[events[fe]].status
               /\ heap'[events'[fe]].event = heap[events[fe]].event
               /\ heap[events[fe]].status \in {"Alive", "Park"}
               /\ interest'[fe] = interest[fe] /\ events'[fe] = events[fe]
    BY <1>4, <1>5, <1>6, <1>8, <1>9, <2>1 DEF RegistrySound, MapSound, Registered, Notifier
  <2>2. MapSound'
    BY <2>1 DEF MapSound, Registered, Notifier
  <2>3. \A fe \in AllFds : interest'[fe].ptr # None => interest'[fe] = interest[fe]
    BY <1>6, <1>9
  <2>4. WatchSound'
    BY <2>1, <2>3 DEF RegistrySound, WatchSound, Watched, Registered, Notifier
  <2>5. QED BY <1>7, <1>9, <2>2, <2>4 DEF RegistrySound
<1>10. CASE /\ parked # None /\ events'[parked] # None /\ CanWatch(parked)
            /\ interest' = [left EXCEPT ![parked] = Watch(q, heap[q].event)]
            /\ heap' = [gone EXCEPT ![q].status = "Alive"]
  <2>1. parked \in AllFds \ {fd} /\ q \in Objs \ {p}
    BY <1>2, <1>4, <1>8, <1>10
  <2>2. heap[q].status \in {"Alive", "Park"}
    BY <1>4, <1>10, <2>1 DEF RegistrySound, MapSound, Registered, Notifier
  <2>3. ASSUME NEW o \in Objs
        PROVE  /\ heap'[o].raw_fd = heap[o].raw_fd /\ heap'[o].event = heap[o].event
               /\ heap'[o].status = IF o = q THEN "Alive" ELSE gone[o].status
    <3>1. "Alive" \in Statuses
      BY DEF Statuses
    <3>2. /\ heap'[o].raw_fd = gone[o].raw_fd /\ heap'[o].event = gone[o].event
          /\ heap'[o].status = IF o = q THEN "Alive" ELSE gone[o].status
      <4> HIDE DEF q
      <4>1. gone \in [Objs -> Notifiers] /\ q \in Objs
        BY <1>5, <2>1
      <4>2. heap' = [gone EXCEPT ![q].status = "Alive"]
        BY <1>10
      <4>3. QED BY <3>1, <4>1, <4>2, SetStatusAt
    <3>3. QED BY <1>5, <3>2
  <2>4. /\ interest'[parked] = Watch(q, heap[q].event)
        /\ \A fe \in AllFds \ {parked} : interest'[fe] = left[fe]
    BY <1>6, <1>10, <2>1
  <2>5. ASSUME NEW fe \in AllFds \ {parked}, events'[fe] # None
        PROVE  /\ heap'[events'[fe]].raw_fd = fe
               /\ heap'[events'[fe]].status = heap[events[fe]].status
               /\ heap'[events'[fe]].event = heap[events[fe]].event
               /\ heap[events[fe]].status \in {"Alive", "Park"}
               /\ interest'[fe] = interest[fe] /\ events'[fe] = events[fe]
    <3>1. fe # fd /\ events'[fe] = events[fe] /\ events[fe] \in Objs /\ events[fe] # p
      BY <1>4, <1>8, <2>5
    <3>2. events[fe] # q
      BY <2>1, <3>1, MapInjective, RegistryAssumption DEF RegistrySound, Registered
    <3>3. heap[events[fe]].raw_fd = fe /\ heap[events[fe]].status \in {"Alive", "Park"}
      BY <2>5, <3>1 DEF RegistrySound, MapSound, Registered, Notifier
    <3>4. QED BY <1>5, <1>6, <2>3, <2>4, <3>1, <3>2, <3>3
  <2>6. heap'[q].raw_fd = parked
    BY <1>4, <1>10, <2>1, <2>3 DEF RegistrySound, MapSound, Registered, Notifier
  <2>7. MapSound'
    BY <1>4, <2>1, <2>3, <2>5, <2>6 DEF MapSound, Registered, Notifier
  <2>8. \A fe \in AllFds \ {parked} : interest'[fe].ptr # None => interest'[fe] = interest[fe]
    BY <1>6, <2>4
  <2>9. WatchSound'
    <3> SUFFICES ASSUME NEW fe \in AllFds, interest'[fe].ptr # None
                 PROVE  /\ fe \in open
                        /\ events'[fe] # None =>
                             /\ interest'[fe] = Watch(events'[fe], heap'[events'[fe]].event)
                             /\ heap'[events'[fe]].status = "Alive"
      BY DEF WatchSound, Watched, Registered, Notifier
    <3>1. CASE fe = parked
      <4>1. fe \in open
        BY <1>10, <3>1 DEF CanWatch
      <4>2. events'[fe] = q
        BY <1>4, <2>1, <3>1
      <4>3. QED BY <2>1, <2>3, <2>4, <3>1, <4>1, <4>2
    <3>2. CASE fe # parked
      BY <2>5, <2>8, <3>2 DEF RegistrySound, WatchSound, Watched, Registered, Notifier
    <3>3. QED BY <3>1, <3>2
  <2>10. GcSound'
    BY <1>5, <1>7, <2>1, <2>2, <2>3
  <2>11. QED BY <2>7, <2>9, <2>10 DEF RegistrySound
<1>11. QED
  BY <1>9, <1>10 DEF RemoveRegistered, StopWatching, Notifier, gone, left

(* A pass over gc frees Removed notifiers only, and each once.              *)
LEMMA GcCleanSound ==
  ASSUME TypeOK, RegistrySound, gc_clean, open' = open
  PROVE  RegistrySound'
<1> DEFINE n == Popped(Len(gc))
<1>1. Len(gc) \in Nat \ {0} /\ n \in 1..Len(gc)
  <2>1. Len(gc) \in Nat \ {0}
    BY DEF gc_clean, TypeOK
  <2>2. QED BY <2>1, PoppedBound
<1> HIDE DEF n
<1>2. /\ UNCHANGED <<events, interest>>
      /\ heap' = [p \in Objs |-> IF \E i \in 1..n : gc[i] = p THEN FreeObj ELSE heap[p]]
      /\ gc' = SubSeq(gc, n + 1, Len(gc))
  BY DEF gc_clean, n
<1>3. /\ Len(gc') = Len(gc) - n /\ \A i \in 1..Len(gc') : gc'[i] = gc[i + n]
  BY <1>1, <1>2 DEF TypeOK
<1>4. \A i \in 1..Len(gc) : gc[i] \in Objs /\ heap[gc[i]].status = "Removed"
  BY DEF TypeOK, RegistrySound, GcSound
<1>5. \A o \in Objs : heap[o].status # "Removed" => heap'[o] = heap[o]
  BY <1>1, <1>2, <1>4
<1>6. MapSound'
  BY <1>2, <1>5, MapFrame DEF RegistrySound
<1>7. WatchSound'
  <2>1. \A fd \in AllFds : events[fd] # None => heap'[events[fd]] = heap[events[fd]]
    BY <1>5 DEF RegistrySound, MapSound, Registered, Notifier, TypeOK
  <2>2. QED
    BY <1>2, <2>1 DEF RegistrySound, WatchSound, Watched, Registered, Notifier
<1>8. GcSound'
  <2>1. \A i, j \in 1..Len(gc') : gc'[i] = gc'[j] => i = j
    BY <1>1, <1>3 DEF RegistrySound, GcSound
  <2>2. ASSUME NEW o \in Objs
        PROVE  heap'[o].status = "Removed" <=> \E i \in 1..Len(gc') : gc'[i] = o
    <3>1. CASE \E i \in 1..n : gc[i] = o
      <4>1. heap'[o].status = "Free"
        BY <1>2, <3>1 DEF FreeObj
      <4>2. PICK i \in 1..n : gc[i] = o
        BY <3>1
      <4>3. \A j \in 1..Len(gc') : gc[j + n] # o
        <5>1. \A k, l \in 1..Len(gc) : gc[k] = gc[l] => k = l
          BY DEF RegistrySound, GcSound
        <5>2. ASSUME NEW j \in 1..Len(gc') PROVE j + n \in 1..Len(gc) /\ i # j + n
          BY <1>1, <1>3
        <5>3. i \in 1..Len(gc)
          BY <1>1
        <5>4. QED BY <4>2, <5>1, <5>2, <5>3
      <4>4. QED BY <1>3, <4>1, <4>3
    <3>2. CASE ~\E i \in 1..n : gc[i] = o
      <4>1. heap'[o] = heap[o]
        BY <1>2, <3>2
      <4>2. (\E i \in 1..Len(gc) : gc[i] = o) <=> \E i \in 1..Len(gc') : gc'[i] = o
        <5>1. ASSUME NEW i \in 1..Len(gc), gc[i] = o
              PROVE  i - n \in 1..Len(gc') /\ gc'[i - n] = o
          BY <1>1, <1>3, <3>2, <5>1
        <5>2. ASSUME NEW i \in 1..Len(gc'), gc'[i] = o
              PROVE  i + n \in 1..Len(gc) /\ gc[i + n] = o
          BY <1>1, <1>3, <5>2
        <5>3. QED BY <5>1, <5>2
      <4>3. QED BY <4>1, <4>2 DEF RegistrySound, GcSound
    <3>3. QED BY <3>1, <3>2
  <2>3. QED BY <2>1, <2>2 DEF GcSound
<1>9. QED BY <1>6, <1>7, <1>8 DEF RegistrySound

LEMMA OpenCloseSound ==
  ASSUME TypeOK, RegistrySound, NEW fd \in Fds, CloseFd(fd) \/ OpenFd(fd)
  PROVE  RegistrySound'
<1>1. UNCHANGED <<heap, events, gc>>
  BY DEF CloseFd, OpenFd
<1>2. \A fe \in AllFds : interest'[fe].ptr # None =>
        interest'[fe] = interest[fe] /\ (fe \in open => fe \in open')
  BY DEF CloseFd, OpenFd, TypeOK, Unwatched
<1>3. MapSound' /\ GcSound'
  BY <1>1 DEF RegistrySound, MapSound, GcSound, Registered, Notifier
<1>4. WatchSound'
  BY <1>1, <1>2 DEF RegistrySound, WatchSound, Watched, Registered, Notifier
<1>5. QED BY <1>3, <1>4 DEF RegistrySound

(* Whatever callers ask for, in whatever order, and whichever calls fail:   *)
(* the map names live notifiers by their own descriptors, gc holds each     *)
(* removed notifier once, and for a registered descriptor the kernel's      *)
(* entry is the map's.                                                      *)
THEOREM RegistryIsSound == Spec => []RegistrySound
<1>1. ASSUME TypeOK, RegistrySound, [Next]_vars PROVE RegistrySound'
  <2>1. ASSUME NEW r \in Requests, Apply(r) PROVE RegistrySound'
    <3>1. open' = open
      BY <2>1 DEF Apply
    <3>2. CASE add_event(r)
      BY <1>1, <3>1, <3>2, AddRegisteredSound, AddNewSound DEF add_event
    <3>3. CASE modify_event(r)
      BY <1>1, <3>1, <3>3, ModifySound
    <3>4. CASE park_event(r) \/ resume_event(r)
      BY <1>1, <3>1, <3>4, ParkResumeSound
    <3>5. CASE rm_event(r)
      <4>1. CASE Refuse(r)
        BY <1>1, <3>1, <4>1 DEF Refuse, RegistrySound, MapSound, GcSound, WatchSound,
                           Registered, Notifier, Watched
      <4>2. CASE RemoveRegistered(r)
        BY <1>1, <3>1, <4>2, RemoveSound
      <4>3. QED BY <3>5, <4>1, <4>2 DEF rm_event
    <3>6. QED BY <2>1, <3>2, <3>3, <3>4, <3>5 DEF Apply
  <2>2. CASE gc_clean /\ UNCHANGED open
    BY <1>1, <2>2, GcCleanSound
  <2>3. ASSUME NEW fd \in Fds, CloseFd(fd) \/ OpenFd(fd) PROVE RegistrySound'
    BY <1>1, <2>3, OpenCloseSound
  <2>4. CASE UNCHANGED vars
    BY <1>1, <2>4 DEF vars, RegistrySound, MapSound, GcSound, WatchSound, Registered,
                      Notifier, Watched
  <2>5. QED BY <1>1, <2>1, <2>2, <2>3, <2>4 DEF Next
<1>2. QED BY <1>1, InitSound, TypeCorrect, PTL DEF Spec

-----------------------------------------------------------------------------
(* The strengthening of KernelPointersAlive: no descriptor is an orphan.    *)
NoOrphan == CheckedPark => \A fd \in AllFds : Watched(fd) => Registered(fd)

LEMMA NoOrphanStep ==
  ASSUME TypeOK, RegistrySound, NoOrphan, [Next]_vars
  PROVE  NoOrphan'
<1> SUFFICES ASSUME CheckedPark, NEW fe \in AllFds, interest'[fe].ptr # None
             PROVE  events'[fe] # None
  BY DEF NoOrphan, Watched, Registered
<1>1. \A fd \in AllFds : interest[fd].ptr # None => events[fd] # None
  BY DEF NoOrphan, Watched, Registered
<1>2. ASSUME NEW r \in Requests, Apply(r) PROVE events'[fe] # None
  <2>1. r.raw_fd \in AllFds /\ r.parked_fd \in AllFds \cup {None}
    BY RequestType DEF AllFds
  <2>2. CASE UNCHANGED <<events, interest>>
    BY <1>1, <2>2
  <2>3. CASE add_event(r) /\ AddToRegistered(r)
    <3>1. events' = events /\ Registered(r.raw_fd)
      BY <2>3 DEF AddToRegistered
    <3>2. fe # r.raw_fd => interest'[fe] = interest[fe]
      BY <2>3 DEF AddToRegistered, TypeOK
    <3>3. QED BY <1>1, <3>1, <3>2 DEF Registered
  <2>4. ASSUME NEW p \in Objs, add_event(r), AddNew(r, p) PROVE events'[fe] # None
    <3> DEFINE fd == r.raw_fd
               parked == r.parked_fd
               watched == [interest EXCEPT ![fd] = Watch(p, r.event)]
    <3>1. parked # None => parked \in AllFds /\ Watched(parked) /\ Registered(parked)
      BY <1>1, <2>1, <2>4 DEF add_event, Watched, Registered
    <3>2. CASE UNCHANGED <<events, interest>>
      BY <1>1, <3>2
    <3>3. CASE /\ events' = [events EXCEPT ![fd] = p]
               /\ \/ interest' = watched
                  \/ parked # None /\ interest' = [watched EXCEPT ![parked] = Unwatched]
      <4>1. events'[fd] = p /\ p # None
            /\ \A fo \in AllFds \ {fd} : events'[fo] = events[fo]
        BY <2>1, <3>3, RegistryAssumption DEF TypeOK
      <4>2. fe # fd => interest'[fe] \in {interest[fe], Unwatched}
        BY <3>1, <3>3 DEF TypeOK
      <4>3. QED BY <1>1, <4>1, <4>2 DEF Unwatched
    <3>4. QED BY <2>4, <3>1, <3>2, <3>3 DEF AddNew
  <2>5. CASE park_event(r) /\ ~UNCHANGED <<events, interest>>
    <3>1. events' = events /\ interest' = [interest EXCEPT ![r.raw_fd] = Unwatched]
      BY <2>5 DEF park_event, Refuse
    <3>2. interest'[fe] \in {interest[fe], Unwatched}
      BY <3>1 DEF TypeOK
    <3>3. QED BY <1>1, <3>1, <3>2 DEF Unwatched
  <2>6. CASE resume_event(r) /\ ~UNCHANGED <<events, interest>>
    <3>1. events' = events /\ Registered(r.raw_fd)
          /\ \E e : interest' = [interest EXCEPT ![r.raw_fd] = e]
      BY <2>6 DEF resume_event, Refuse
    <3>2. fe # r.raw_fd => interest'[fe] = interest[fe]
      BY <3>1 DEF TypeOK
    <3>3. QED BY <1>1, <3>1, <3>2 DEF Registered
  <2>7. CASE RemoveRegistered(r)
    <3> DEFINE fd     == r.raw_fd
               p      == events[fd]
               parked == heap[p].parked_fd
               left   == IF heap[p].status = "Alive"
                         THEN [interest EXCEPT ![fd] = Unwatched] ELSE interest
    <3>1. events' = [events EXCEPT ![fd] = None] /\ Registered(fd)
          /\ \/ interest' = left
             \/ /\ events'[parked] # None
                /\ \E e : interest' = [left EXCEPT ![parked] = e]
      BY <2>7 DEF RemoveRegistered, StopWatching, Notifier
    <3>2. left[fd].ptr = None /\ \A fo \in AllFds \ {fd} : left[fo] = interest[fo]
      <4>1. CASE heap[p].status = "Alive"
        BY <2>1, <4>1 DEF TypeOK, Unwatched
      <4>2. CASE heap[p].status # "Alive"
        BY <2>1, <3>1, <4>2 DEF RegistrySound, WatchSound, Watched, Registered, Notifier
      <4>3. QED BY <4>1, <4>2
    <3>3. left \in [AllFds -> Entries]
      BY <2>1 DEF TypeOK, Unwatched, Entries, EventSets
    <3> HIDE DEF left
    <3>4. events'[fe] # None \/ interest'[fe] = left[fe]
      BY <3>1, <3>3
    <3>5. fe # fd => events'[fe] = events[fe]
      BY <3>1 DEF TypeOK
    <3>6. QED BY <1>1, <3>2, <3>4, <3>5
  <2>8. QED
    BY <1>2, <2>2, <2>3, <2>4, <2>5, <2>6, <2>7
       DEF Apply, add_event, modify_event, park_event, resume_event, rm_event, Refuse
<1>3. CASE gc_clean /\ UNCHANGED open
  BY <1>1, <1>3 DEF gc_clean
<1>4. ASSUME NEW fd \in Fds, CloseFd(fd) \/ OpenFd(fd) PROVE events'[fe] # None
  <2>1. events' = events /\ interest'[fe] \in {interest[fe], Unwatched}
    BY <1>4 DEF CloseFd, OpenFd, TypeOK
  <2>2. QED BY <1>1, <2>1 DEF Unwatched
<1>5. CASE UNCHANGED vars
  BY <1>1, <1>5 DEF vars
<1>6. QED BY <1>2, <1>3, <1>4, <1>5 DEF Next

(* As long as callers park only descriptors that are being watched, every   *)
(* address epoll_wait_manager can be given is that of a notifier that is    *)
(* boxed, Alive and registered under that descriptor.                       *)
THEOREM KernelPointersAreAlive == Spec => []KernelPointersAlive
<1>1. Init => NoOrphan
  <2> SUFFICES ASSUME Init, NEW fd \in AllFds, Watched(fd) PROVE Registered(fd)
    BY DEF NoOrphan
  <2>1. fd = KickFd
    BY DEF Init, Watched, Unwatched
  <2>2. QED BY <2>1, RegistryAssumption DEF Init, Registered, AllFds
<1>2. TypeOK /\ RegistrySound /\ NoOrphan => KernelPointersAlive
  <2> SUFFICES ASSUME RegistrySound, NoOrphan, CheckedPark, NEW fd \in AllFds, Watched(fd)
               PROVE  /\ interest[fd].ptr = events[fd]
                      /\ Notifier(fd).raw_fd = fd /\ Notifier(fd).status = "Alive"
    BY DEF KernelPointersAlive
  <2>1. Registered(fd)
    BY DEF NoOrphan
  <2>2. interest[fd] = Watch(events[fd], Notifier(fd).event) /\ Notifier(fd).status = "Alive"
    BY <2>1 DEF RegistrySound, WatchSound
  <2>3. Notifier(fd).raw_fd = fd
    BY <2>1 DEF RegistrySound, MapSound
  <2>4. QED BY <2>2, <2>3 DEF Watch
<1>3. QED
  BY <1>1, <1>2, NoOrphanStep, TypeCorrect, RegistryIsSound, PTL DEF Spec

-----------------------------------------------------------------------------
(* What a request does to statuses, to the map and to what is watched.      *)
SameNotifier(o) ==
  /\ heap'[o].status = heap[o].status
  /\ heap'[o].raw_fd = heap[o].raw_fd /\ heap'[o].parked_fd = heap[o].parked_fd

NowIs(o, s) ==
  /\ heap'[o].status = s
  /\ heap'[o].raw_fd = heap[o].raw_fd /\ heap'[o].parked_fd = heap[o].parked_fd

SameWatch(fds) ==
  \A fd \in fds : interest'[fd].ptr # None <=> interest[fd].ptr # None

InMap == {fd \in AllFds : events[fd] # None}

Quiet ==
  events' = events /\ (\A o \in Objs : SameNotifier(o)) /\ SameWatch(InMap)

Switched(fd, s) ==
  /\ fd \in InMap /\ events' = events
  /\ NowIs(events[fd], s) /\ \A o \in Objs \ {events[fd]} : SameNotifier(o)
  /\ (interest'[fd].ptr # None <=> s = "Alive") /\ SameWatch(InMap \ {fd})

AddedAs(r, p) ==
  LET parked == r.parked_fd
      others == IF parked = None THEN {} ELSE {events[parked]}
  IN  /\ r.raw_fd \notin InMap /\ heap[p].status = "Free" /\ CanWatch(r.raw_fd)
      /\ events' = [events EXCEPT ![r.raw_fd] = p]
      /\ heap'[p].status = "Alive" /\ heap'[p].raw_fd = r.raw_fd
      /\ heap'[p].parked_fd = parked /\ interest'[r.raw_fd].ptr # None
      /\ parked # None => /\ parked \in InMap /\ NowIs(events[parked], "Park")
                          /\ interest'[parked].ptr = None
      /\ \A o \in Objs \ ({p} \cup others) : SameNotifier(o)
      /\ SameWatch(InMap \ {parked})

RemovedFrom(fd) ==
  LET p == events[fd]
      k == heap[p].parked_fd
      resumed == k # None /\ k # fd /\ k \in InMap /\ CanWatch(k)
      others  == IF resumed THEN {events[k]} ELSE {}
  IN  /\ fd \in InMap /\ events' = [events EXCEPT ![fd] = None]
      /\ NowIs(p, "Removed") /\ interest'[fd].ptr = None
      /\ resumed => NowIs(events[k], "Alive") /\ interest'[k].ptr # None
      /\ \A o \in Objs \ ({p} \cup others) : SameNotifier(o)
      /\ SameWatch(InMap \ ({fd} \cup IF resumed THEN {k} ELSE {}))

(* What gc_clean frees is not in the map.                                   *)
LEMMA GcKeepsMapped ==
  ASSUME TypeOK, RegistrySound, gc_clean
  PROVE  \A fd \in InMap : heap'[events[fd]] = heap[events[fd]]
<1> SUFFICES ASSUME NEW fd \in InMap PROVE heap'[events[fd]] = heap[events[fd]]
  OBVIOUS
<1>1. events[fd] \in Objs /\ heap[events[fd]].status # "Removed"
  BY DEF InMap, TypeOK, RegistrySound, MapSound, Registered, Notifier
<1>2. Len(gc) \in Nat /\ Len(gc) > 0
  BY DEF gc_clean, TypeOK
<1>3. Popped(Len(gc)) \in 1..Len(gc)
  BY <1>2, PoppedBound
<1>4. \A i \in 1..Popped(Len(gc)) : i \in 1..Len(gc)
  BY <1>2, <1>3
<1>5. ~\E i \in 1..Popped(Len(gc)) : gc[i] = events[fd]
  BY <1>1, <1>4 DEF RegistrySound, GcSound
<1>6. QED BY <1>1, <1>5 DEF gc_clean

LEMMA AddRegisteredEffect ==
  ASSUME TypeOK, NEW r \in Requests, AddToRegistered(r)
  PROVE  Quiet
<1> DEFINE p == events[r.raw_fd]
<1>1. r.raw_fd \in AllFds /\ p \in Objs
  BY RequestType DEF AddToRegistered, Registered, AllFds, TypeOK
<1>2. \A o \in Objs : SameNotifier(o)
  <2>1. CASE UNCHANGED heap
    BY <2>1 DEF SameNotifier
  <2>2. ASSUME NEW m, NEW hs, heap' = [heap EXCEPT ![p].event = m, ![p].handlers = hs]
        PROVE  \A o \in Objs : SameNotifier(o)
    BY <1>1, <2>2 DEF SameNotifier, TypeOK, Notifiers
  <2>3. QED BY <2>1, <2>2 DEF AddToRegistered
<1>3. SameWatch(InMap)
  <2>1. CASE UNCHANGED interest
    BY <2>1 DEF SameWatch
  <2>2. ASSUME NEW m, Watched(r.raw_fd), interest' = [interest EXCEPT ![r.raw_fd] = Watch(p, m)]
        PROVE  SameWatch(InMap)
    BY <1>1, <2>2, RegistryAssumption DEF SameWatch, InMap, Watched, Watch, TypeOK
  <2>3. QED BY <2>1, <2>2 DEF AddToRegistered
<1>4. QED BY <1>2, <1>3 DEF Quiet, AddToRegistered

LEMMA AddNewEffect ==
  ASSUME TypeOK, RegistrySound, NEW r \in Requests, NEW p \in Objs, AddNew(r, p)
  PROVE  Quiet \/ AddedAs(r, p)
<1> DEFINE fd == r.raw_fd
           parked == r.parked_fd
           watched == [interest EXCEPT ![fd] = Watch(p, r.event)]
<1>1. fd \in AllFds /\ fd \notin InMap /\ parked \in AllFds \cup {None} /\ p # None
  BY RequestType, RegistryAssumption DEF AddNew, InMap, Registered, AllFds
<1>2. CASE UNCHANGED <<heap, events>> /\ interest' \in {interest, watched}
  BY <1>1, <1>2 DEF Quiet, SameNotifier, SameWatch, InMap, TypeOK
<1>3. CASE /\ parked = None /\ CanWatch(fd) /\ heap[p] = FreeObj
           /\ interest' = watched /\ heap' = [heap EXCEPT ![p] = NewNotifier(r)]
           /\ events' = [events EXCEPT ![fd] = p]
  <2>1. heap'[p] = NewNotifier(r) /\ \A o \in Objs \ {p} : heap'[o] = heap[o]
    BY <1>3 DEF TypeOK
  <2>2. interest'[fd].ptr = p /\ \A fo \in AllFds \ {fd} : interest'[fo] = interest[fo]
    BY <1>1, <1>3 DEF TypeOK, Watch
  <2>3. QED BY <1>1, <1>3, <2>1, <2>2
        DEF AddedAs, SameNotifier, SameWatch, InMap, NewNotifier, FreeObj
<1>4. CASE /\ parked # None /\ Registered(parked) /\ CanWatch(fd) /\ heap[p] = FreeObj
           /\ interest' = [watched EXCEPT ![parked] = Unwatched]
           /\ heap' = [heap EXCEPT ![p] = NewNotifier(r), ![events[parked]].status = "Park"]
           /\ events' = [events EXCEPT ![fd] = p]
  <2> DEFINE q  == events[parked]
             hp == [heap EXCEPT ![p] = NewNotifier(r)]
  <2>1. parked \in InMap /\ parked # fd /\ q \in Objs
    BY <1>1, <1>4 DEF InMap, Registered, TypeOK
  <2>2. q # p
    BY <1>4, <2>1 DEF RegistrySound, MapSound, Notifier, FreeObj, InMap, Registered
  <2>3. /\ hp \in [Objs -> Notifiers] /\ hp[p] = NewNotifier(r)
        /\ \A o \in Objs \ {p} : hp[o] = heap[o]
    BY NewNotifierType DEF TypeOK
  <2>4. heap' = [hp EXCEPT ![q].status = "Park"]
    BY <1>4
  <2>5. /\ heap'[q].status = "Park" /\ heap'[q].raw_fd = hp[q].raw_fd
        /\ heap'[q].parked_fd = hp[q].parked_fd
        /\ \A o \in Objs \ {q} : heap'[o] = hp[o]
    BY <2>1, <2>3, <2>4 DEF Notifiers
  <2>6. /\ interest'[fd].ptr = p /\ interest'[parked].ptr = None
        /\ \A fo \in AllFds \ {fd, parked} : interest'[fo] = interest[fo]
    BY <1>1, <1>4, <2>1 DEF TypeOK, Watch, Unwatched
  <2>7. NowIs(q, "Park") /\ \A o \in Objs \ {p, q} : SameNotifier(o)
    BY <2>2, <2>3, <2>5, <2>1 DEF NowIs, SameNotifier
  <2>8. heap'[p] = NewNotifier(r)
    BY <2>2, <2>3, <2>5
  <2>9. SameWatch(InMap \ {parked})
    BY <1>1, <2>6 DEF SameWatch, InMap
  <2>10. /\ heap[p].status = "Free" /\ heap'[p].status = "Alive"
         /\ heap'[p].raw_fd = fd /\ heap'[p].parked_fd = parked
    BY <1>4, <2>8 DEF NewNotifier, FreeObj
  <2>11. interest'[fd].ptr # None /\ parked # None
    BY <1>1, <1>4, <2>6
  <2> HIDE DEF hp, q, watched
  <2>12. QED BY <1>1, <1>4, <2>1, <2>6, <2>7, <2>9, <2>10, <2>11 DEF AddedAs, q
<1>5. QED BY <1>2, <1>3, <1>4 DEF AddNew

LEMMA SwitchEffect ==
  ASSUME TypeOK, NEW fd \in InMap, NEW s \in Statuses, NEW e,
         events' = events, heap' = [heap EXCEPT ![events[fd]].status = s],
         interest' = [interest EXCEPT ![fd] = e], e.ptr # None <=> s = "Alive"
  PROVE  Switched(fd, s)
<1>1. fd \in AllFds /\ events[fd] \in Objs /\ heap \in [Objs -> Notifiers]
  BY DEF InMap, TypeOK
<1>2. \A o \in Objs : LET n == heap'[o]
                      IN  /\ n.raw_fd = heap[o].raw_fd /\ n.parked_fd = heap[o].parked_fd
                          /\ n.status = IF o = events[fd] THEN s ELSE heap[o].status
  BY <1>1, SetStatusAt
<1>3. NowIs(events[fd], s) /\ \A o \in Objs \ {events[fd]} : SameNotifier(o)
  BY <1>1, <1>2 DEF NowIs, SameNotifier
<1>4. interest'[fd] = e /\ \A fo \in AllFds \ {fd} : interest'[fo] = interest[fo]
  BY <1>1 DEF TypeOK
<1>5. QED BY <1>3, <1>4 DEF Switched, SameWatch, InMap

LEMMA ParkResumeEffect ==
  ASSUME TypeOK, NEW r \in Requests, park_event(r) \/ resume_event(r)
  PROVE  \/ Quiet
         \/ r.op = "Park" /\ Watched(r.raw_fd) /\ Switched(r.raw_fd, "Park")
         \/ r.op = "Resume" /\ CanWatch(r.raw_fd) /\ Switched(r.raw_fd, "Alive")
<1> DEFINE fd == r.raw_fd
           p  == events[fd]
<1>1. CASE UNCHANGED <<heap, events, interest, gc>>
  BY <1>1 DEF Quiet, SameNotifier, SameWatch
<1>2. CASE park_event(r) /\ ~UNCHANGED <<heap, events, interest, gc>>
  <2>1. /\ r.op = "Park" /\ Watched(fd) /\ Registered(fd)
        /\ heap' = [heap EXCEPT ![p].status = "Park"]
        /\ interest' = [interest EXCEPT ![fd] = Unwatched] /\ events' = events
    BY <1>2 DEF park_event, Refuse
  <2>2. fd \in InMap /\ ~(Unwatched.ptr # None)
    BY <2>1, RequestType DEF InMap, Registered, AllFds, Unwatched
  <2>3. QED BY <2>1, <2>2, SwitchEffect DEF Statuses
<1>3. CASE resume_event(r) /\ ~UNCHANGED <<heap, events, interest, gc>>
  <2>1. /\ r.op = "Resume" /\ CanWatch(fd) /\ Registered(fd)
        /\ heap' = [heap EXCEPT ![p].status = "Alive"]
        /\ interest' = [interest EXCEPT ![fd] = Watch(p, heap[p].event)]
        /\ events' = events
    BY <1>3 DEF resume_event, Refuse
  <2>2. fd \in InMap /\ Watch(p, heap[p].event).ptr # None
    BY <2>1, RequestType DEF InMap, Registered, AllFds, Watch
  <2>3. QED BY <2>1, <2>2, SwitchEffect DEF Statuses
<1>4. QED BY <1>1, <1>2, <1>3

LEMMA RemoveEffect ==
  ASSUME TypeOK, RegistrySound, NEW r \in Requests, RemoveRegistered(r)
  PROVE  RemovedFrom(r.raw_fd)
<1> DEFINE fd   == r.raw_fd
           p    == events[fd]
           k    == heap[p].parked_fd
           q    == events[k]
           left == StopWatching(fd)
           gone == [heap EXCEPT ![p].status = "Removed"]
           resumed == k # None /\ k # fd /\ k \in InMap /\ CanWatch(k)
<1>1. /\ fd \in InMap /\ p \in Objs /\ events' = [events EXCEPT ![fd] = None]
      /\ k \in AllFds \cup {None}
  BY RequestType DEF RemoveRegistered, Registered, InMap, AllFds, TypeOK, Notifiers
<1>2. events'[fd] = None /\ \A fo \in AllFds \ {fd} : events'[fo] = events[fo]
  BY <1>1 DEF TypeOK, InMap
<1>3. left[fd].ptr = None /\ \A fo \in AllFds \ {fd} : left[fo] = interest[fo]
  <2>1. CASE heap[p].status = "Alive"
    BY <1>1, <2>1 DEF TypeOK, StopWatching, Notifier, Unwatched, InMap
  <2>2. CASE heap[p].status # "Alive"
    BY <1>1, <2>2 DEF StopWatching, Notifier, RegistrySound, WatchSound, Watched,
                      Registered, InMap
  <2>3. QED BY <2>1, <2>2
<1>4. /\ gone \in [Objs -> Notifiers]
      /\ \A o \in Objs : /\ gone[o].raw_fd = heap[o].raw_fd
                         /\ gone[o].parked_fd = heap[o].parked_fd
                         /\ gone[o].status = IF o = p THEN "Removed" ELSE heap[o].status
  <2>1. heap \in [Objs -> Notifiers] /\ "Removed" \in Statuses
    BY DEF TypeOK, Statuses
  <2>2. gone \in [Objs -> Notifiers]
    BY <1>1, <2>1, SetStatusType
  <2>3. QED BY <1>1, <2>1, <2>2, SetStatusAt
<1>5. left \in [AllFds -> Entries]
  BY <1>1 DEF StopWatching, TypeOK, Unwatched, Entries, EventSets
<1> HIDE DEF left, gone
<1>6. CASE heap' = gone /\ interest' = left /\ ~resumed
  BY <1>1, <1>2, <1>3, <1>4, <1>6 DEF RemovedFrom, NowIs, SameNotifier, SameWatch, InMap
<1>7. CASE /\ resumed /\ interest' = [left EXCEPT ![k] = Watch(q, heap[q].event)]
           /\ heap' = [gone EXCEPT ![q].status = "Alive"]
  <2>1. k \in AllFds /\ q \in Objs /\ q # None
    BY <1>1, <1>7, RegistryAssumption DEF InMap, TypeOK
  <2>2. q # p
    BY <1>1, <1>7, <2>1, MapInjective DEF RegistrySound, InMap, Registered
  <2>3. \A o \in Objs : /\ heap'[o].raw_fd = gone[o].raw_fd
                        /\ heap'[o].parked_fd = gone[o].parked_fd
                        /\ heap'[o].status = IF o = q THEN "Alive" ELSE gone[o].status
    <3>1. "Alive" \in Statuses
      BY DEF Statuses
    <3>2. gone \in [Objs -> Notifiers] /\ q \in Objs
      BY <1>4, <2>1
    <3> HIDE DEF q
    <3>3. \A o \in Objs : LET n == [gone EXCEPT ![q].status = "Alive"][o]
                          IN  /\ n.raw_fd = gone[o].raw_fd /\ n.parked_fd = gone[o].parked_fd
                              /\ n.status = IF o = q THEN "Alive" ELSE gone[o].status
      BY <3>1, <3>2, SetStatusAt
    <3>4. QED BY <1>7, <3>3
  <2>4. /\ NowIs(p, "Removed") /\ NowIs(q, "Alive")
        /\ \A o \in Objs \ {p, q} : SameNotifier(o)
    BY <1>1, <1>4, <2>1, <2>2, <2>3 DEF NowIs, SameNotifier
  <2>5. interest'[k].ptr # None /\ \A fo \in AllFds \ {k} : interest'[fo] = left[fo]
    BY <1>5, <1>7, <2>1 DEF Watch
  <2>6. interest'[fd].ptr = None /\ SameWatch(InMap \ {fd, k})
    BY <1>1, <1>3, <1>7, <2>5 DEF SameWatch, InMap
  <2> HIDE DEF q
  <2>7. QED BY <1>1, <1>7, <2>4, <2>5, <2>6 DEF RemovedFrom, q
<1>8. k # None /\ k # fd => (Registered(k) <=> k \in InMap)
  BY <1>1 DEF Registered, InMap
<1>9. \/ heap' = gone /\ interest' = left
         /\ (k = None \/ events'[k] = None \/ ~CanWatch(k))
      \/ /\ k # None /\ events'[k] # None /\ CanWatch(k)
         /\ interest' = [left EXCEPT ![k] = Watch(q, heap[q].event)]
         /\ heap' = [gone EXCEPT ![q].status = "Alive"]
  BY DEF RemoveRegistered, left, gone
<1>10. k # None => (events'[k] # None <=> k # fd /\ k \in InMap)
  BY <1>1, <1>2 DEF InMap
<1>11. QED BY <1>6, <1>7, <1>9, <1>10

(* Each request has one of these effects.                                   *)
LEMMA RequestEffect ==
  ASSUME TypeOK, RegistrySound, NEW r \in Requests, Apply(r)
  PROVE  \/ Quiet
         \/ r.op \in AddOps /\ \E p \in Objs : AddedAs(r, p)
         \/ r.op = "Park" /\ Watched(r.raw_fd) /\ Switched(r.raw_fd, "Park")
         \/ r.op = "Resume" /\ CanWatch(r.raw_fd) /\ Switched(r.raw_fd, "Alive")
         \/ r.op = "Delete" /\ RemovedFrom(r.raw_fd)
<1>1. CASE add_event(r)
  BY <1>1, AddRegisteredEffect, AddNewEffect DEF add_event
<1>2. CASE modify_event(r)
  <2>1. CASE Refuse(r)
    BY <2>1 DEF Refuse, Quiet, SameNotifier, SameWatch
  <2>2. CASE ~Refuse(r)
    <3>1. /\ events[r.raw_fd] \in Objs /\ UNCHANGED <<events, interest>>
          /\ heap' = [heap EXCEPT ![events[r.raw_fd]].handlers = r.handlers]
      BY <1>2, <2>2, RequestType DEF modify_event, Registered, AllFds, TypeOK
    <3>2. QED BY <3>1 DEF Quiet, SameNotifier, SameWatch, TypeOK, Notifiers
  <2>3. QED BY <2>1, <2>2
<1>3. CASE park_event(r) \/ resume_event(r)
  BY <1>3, ParkResumeEffect
<1>4. CASE rm_event(r)
  <2>1. CASE Refuse(r)
    BY <2>1 DEF Refuse, Quiet, SameNotifier, SameWatch
  <2>2. QED BY <1>4, <2>1, RemoveEffect DEF rm_event
<1>5. QED BY <1>1, <1>2, <1>3, <1>4 DEF Apply

-----------------------------------------------------------------------------
(* A request leaves a notifier Alive only when the kernel watches it.       *)
LEMMA AliveWatchedStep ==
  ASSUME TypeOK, RegistrySound, NEW r \in Requests, Apply(r), NEW fe \in AllFds,
         fe \in InMap /\ heap[events[fe]].status = "Alive" => interest[fe].ptr # None,
         events'[fe] # None, heap'[events'[fe]].status = "Alive"
  PROVE  interest'[fe].ptr # None
<1>1. \A fd \in InMap : /\ events[fd] \in Objs
                        /\ fe \in InMap /\ events[fd] = events[fe] => fd = fe
  BY MapInjective DEF InMap, TypeOK, RegistrySound, Registered
<1>2. interest'[fe].ptr # None
  <2>1. r.raw_fd \in AllFds
    BY RequestType DEF AllFds
  <2>2. CASE Quiet
    BY <1>1, <2>2 DEF Quiet, SameNotifier, SameWatch, InMap
  <2>3. ASSUME NEW s \in {"Alive", "Park"}, Switched(r.raw_fd, s)
        PROVE  interest'[fe].ptr # None
    BY <1>1, <2>3 DEF Switched, SameNotifier, NowIs, SameWatch, InMap
  <2>4. ASSUME NEW p \in Objs, AddedAs(r, p) PROVE interest'[fe].ptr # None
    <3>1. CASE fe = r.raw_fd
      BY <2>4, <3>1 DEF AddedAs
    <3>2. CASE fe # r.raw_fd
      <4>1. events'[fe] = events[fe] /\ fe \in InMap
        BY <2>1, <2>4, <3>2 DEF AddedAs, InMap, TypeOK
      <4>2. events[fe] # p
        BY <2>4, <4>1 DEF AddedAs, RegistrySound, MapSound, Registered, Notifier, InMap
      <4>3. CASE fe = r.parked_fd
        BY <2>4, <4>1, <4>3, RegistryAssumption DEF AddedAs, NowIs
      <4>4. CASE fe # r.parked_fd
        <5>1. SameNotifier(events[fe])
          BY <1>1, <2>4, <4>1, <4>2, <4>4 DEF AddedAs
        <5>2. QED BY <2>4, <4>1, <4>4, <5>1 DEF AddedAs, SameNotifier, SameWatch
      <4>5. QED BY <4>3, <4>4
    <3>3. QED BY <3>1, <3>2
  <2>5. CASE RemovedFrom(r.raw_fd)
    <3> DEFINE k == heap[events[r.raw_fd]].parked_fd
    <3>1. fe # r.raw_fd /\ events'[fe] = events[fe] /\ fe \in InMap
      BY <2>1, <2>5 DEF RemovedFrom, InMap, TypeOK
    <3>2. events[fe] # events[r.raw_fd]
      BY <1>1, <2>5, <3>1 DEF RemovedFrom
    <3>3. CASE k # None /\ k # r.raw_fd /\ k \in InMap /\ CanWatch(k)
      <4>1. CASE fe = k
        BY <2>5, <3>3, <4>1 DEF RemovedFrom
      <4>2. CASE fe # k
        <5>1. SameNotifier(events[fe])
          BY <1>1, <2>5, <3>1, <3>2, <3>3, <4>2 DEF RemovedFrom
        <5>2. QED BY <2>5, <3>1, <3>3, <4>2, <5>1
                  DEF RemovedFrom, SameNotifier, SameWatch
      <4>3. QED BY <4>1, <4>2
    <3>4. CASE ~(k # None /\ k # r.raw_fd /\ k \in InMap /\ CanWatch(k))
      <4>1. SameNotifier(events[fe])
        BY <1>1, <2>5, <3>1, <3>2, <3>4 DEF RemovedFrom
      <4>2. QED BY <2>5, <3>1, <3>4, <4>1 DEF RemovedFrom, SameNotifier, SameWatch
    <3>5. QED BY <3>3, <3>4
  <2>6. QED BY <2>2, <2>3, <2>4, <2>5, RequestEffect
<1>3. QED BY <1>2

(* Every Alive notifier that is in the map is watched by the kernel, after  *)
(* any calls and failures, as long as its owner keeps its descriptor open.  *)
THEOREM AliveOnesAreWatched == Spec => []AliveIsWatched
<1>1. Init => AliveIsWatched
  <2> SUFFICES ASSUME Init, NEW fd \in AllFds, Registered(fd) PROVE Watched(fd)
    BY DEF AliveIsWatched
  <2>1. fd = KickFd
    BY RegistryAssumption DEF Init, Registered
  <2>2. QED BY <2>1, RegistryAssumption DEF Init, Watched, Watch, AllFds
<1>2. ASSUME TypeOK, RegistrySound, AliveIsWatched, [Next]_vars PROVE AliveIsWatched'
  <2> SUFFICES ASSUME NEW fe \in AllFds \ Closable, events'[fe] # None,
                      heap'[events'[fe]].status = "Alive"
               PROVE  interest'[fe].ptr # None
    BY DEF AliveIsWatched, Registered, Notifier, Watched
  <2>1. fe \in InMap /\ heap[events[fe]].status = "Alive" => interest[fe].ptr # None
    BY <1>2 DEF AliveIsWatched, Registered, Notifier, Watched, InMap
  <2>2. \A fd \in InMap : /\ events[fd] \in Objs
                          /\ fe \in InMap /\ events[fd] = events[fe] => fd = fe
    BY <1>2, MapInjective DEF InMap, TypeOK, RegistrySound, Registered
  <2>3. ASSUME NEW r \in Requests, Apply(r) PROVE interest'[fe].ptr # None
    BY <1>2, <2>1, <2>3, AliveWatchedStep
  <2>4. CASE gc_clean
    <3>1. events' = events /\ interest' = interest
      BY <2>4 DEF gc_clean
    <3>2. heap'[events[fe]] \in {heap[events[fe]], FreeObj}
      BY <2>2, <2>4, <3>1 DEF gc_clean, InMap
    <3>3. QED BY <2>1, <3>1, <3>2 DEF FreeObj, InMap
  <2>5. ASSUME NEW fd \in Fds, CloseFd(fd) \/ OpenFd(fd) PROVE interest'[fe].ptr # None
    <3>1. UNCHANGED <<heap, events>> /\ interest'[fe] = interest[fe]
      BY <1>2, <2>5 DEF CloseFd, OpenFd, TypeOK
    <3>2. QED BY <2>1, <3>1 DEF InMap
  <2>6. CASE UNCHANGED vars
    BY <2>1, <2>6 DEF vars, InMap
  <2>7. QED BY <1>2, <2>3, <2>4, <2>5, <2>6 DEF Next
<1>3. QED BY <1>1, <1>2, TypeCorrect, RegistryIsSound, PTL DEF Spec

-----------------------------------------------------------------------------
(* What the owners never close is open.                                     *)
KeptOpen == AllFds \ Closable \subseteq open

LEMMA KeptOpenStep == Spec => []KeptOpen
<1>1. Init => KeptOpen
  BY DEF Init, KeptOpen
<1>2. KeptOpen /\ [Next]_vars => KeptOpen'
  BY DEF KeptOpen, Next, Apply, CloseFd, OpenFd, vars
<1>3. QED BY <1>1, <1>2, PTL DEF Spec

LEMMA RequestOp ==
  ASSUME NEW r \in Requests
  PROVE  r.op \in Ops
BY DEF Requests

(* A step of a request keeps a parker in the map for every parked           *)
(* descriptor.                                                              *)
LEMMA ParkerStep ==
  ASSUME TypeOK, RegistrySound, KeptOpen, ParkedHasParker, "Park" \notin Ops,
         NEW r \in Requests, Apply(r),
         NEW fe \in AllFds \ Closable, events'[fe] # None,
         heap'[events'[fe]].status = "Park"
  PROVE  \E q \in Fds : events'[q] # None /\ heap'[events'[q]].parked_fd = fe
<1>1. r.raw_fd \in Fds /\ r.raw_fd \in AllFds /\ r.op # "Park"
  BY RequestType, RequestOp DEF AllFds
<1>2. /\ \A fd \in InMap : events[fd] \in Objs
      /\ \A fd, fo \in InMap : events[fd] = events[fo] => fd = fo
  BY MapInjective DEF InMap, TypeOK, RegistrySound, Registered
<1>3. fe \in InMap /\ heap[events[fe]].status = "Park" =>
        \E q \in Fds \cap InMap : heap[events[q]].parked_fd = fe
  BY DEF ParkedHasParker, Registered, Notifier, InMap, AllFds
<1>4. CASE Quiet
  <2>1. fe \in InMap /\ heap[events[fe]].status = "Park"
    BY <1>2, <1>4 DEF Quiet, SameNotifier, InMap
  <2>2. QED BY <1>2, <1>3, <1>4, <2>1 DEF Quiet, SameNotifier, InMap
<1>5. CASE Switched(r.raw_fd, "Alive")
  <2>1. fe \in InMap /\ fe # r.raw_fd
    BY <1>5 DEF Switched, NowIs, InMap
  <2>2. heap[events[fe]].status = "Park"
    BY <1>2, <1>5, <2>1 DEF Switched, SameNotifier, InMap
  <2>3. QED BY <1>2, <1>3, <1>5, <2>1, <2>2 DEF Switched, SameNotifier, NowIs, InMap
<1>6. ASSUME NEW p \in Objs, AddedAs(r, p)
      PROVE  \E q \in Fds : events'[q] # None /\ heap'[events'[q]].parked_fd = fe
  <2>1. /\ events'[r.raw_fd] = p /\ p # None
        /\ \A fo \in AllFds \ {r.raw_fd} : events'[fo] = events[fo]
    BY <1>1, <1>6, RegistryAssumption DEF AddedAs, TypeOK
  <2>2. fe # r.raw_fd /\ fe \in InMap
    BY <1>6, <2>1 DEF AddedAs, InMap
  <2>3. CASE fe = r.parked_fd
    BY <1>1, <1>6, <2>1, <2>3 DEF AddedAs
  <2>4. CASE fe # r.parked_fd
    <3>1. \A fo \in InMap : events[fo] # p
      BY <1>6 DEF AddedAs, RegistrySound, MapSound, Registered, Notifier, InMap
    <3>2. heap[events[fe]].status = "Park"
      BY <1>2, <1>6, <2>1, <2>2, <2>4, <3>1 DEF AddedAs, SameNotifier
    <3>3. PICK q \in Fds \cap InMap : heap[events[q]].parked_fd = fe
      BY <1>3, <2>2, <3>2
    <3>4. heap'[events[q]].parked_fd = heap[events[q]].parked_fd
      BY <1>2, <1>6, <3>1, <3>3 DEF AddedAs, SameNotifier, NowIs
    <3>5. events'[q] = events[q] /\ events[q] # None
      BY <1>6, <2>1, <3>3 DEF AddedAs, InMap
    <3>6. QED BY <3>3, <3>4, <3>5
  <2>5. QED BY <2>3, <2>4
<1>7. CASE RemovedFrom(r.raw_fd)
  <2> DEFINE fd == r.raw_fd
             k  == heap[events[fd]].parked_fd
             resumed == k # None /\ k # fd /\ k \in InMap /\ CanWatch(k)
  <2>1. /\ events'[fd] = None /\ fd \in InMap
        /\ \A fo \in AllFds \ {fd} : events'[fo] = events[fo]
    BY <1>1, <1>7 DEF RemovedFrom, TypeOK
  <2>2. fe # fd /\ fe \in InMap
    BY <2>1 DEF InMap
  <2>3. \A o \in Objs : heap'[o].parked_fd = heap[o].parked_fd
    BY <1>7 DEF RemovedFrom, NowIs, SameNotifier
  <2>4. ~(resumed /\ fe = k)
    BY <1>7, <2>1, <2>2 DEF RemovedFrom, NowIs
  <2>5. SameNotifier(events[fe])
    <3>1. events[fe] \in Objs /\ events[fe] # events[fd]
      BY <1>2, <2>1, <2>2
    <3>2. resumed => events[fe] # events[k]
      BY <1>2, <2>2, <2>4
    <3>3. QED BY <1>7, <3>1, <3>2 DEF RemovedFrom
  <2>6. heap[events[fe]].status = "Park"
    BY <2>1, <2>2, <2>5 DEF SameNotifier
  <2>7. fe \in open /\ ~Watched(fe)
    BY <2>2, <2>6 DEF KeptOpen, RegistrySound, WatchSound, Registered, Notifier, InMap
  <2>8. k # fe
    BY <2>2, <2>4, <2>7, RegistryAssumption DEF CanWatch
  <2>9. PICK q \in Fds \cap InMap : heap[events[q]].parked_fd = fe
    BY <1>3, <2>2, <2>6
  <2>10. q # fd
    BY <2>8, <2>9
  <2>11. events'[q] = events[q] /\ events[q] # None /\ events[q] \in Objs
    BY <1>2, <2>1, <2>9, <2>10 DEF InMap
  <2>12. QED BY <2>3, <2>9, <2>11
<1>8. QED BY <1>1, <1>4, <1>5, <1>6, <1>7, RequestEffect

(* When no caller parks by hand, the parker of every parked descriptor is   *)
(* still in the map: its removal will resume it.                            *)
THEOREM ParkedOnesHaveParkers == Spec => []ParkedHasParker
<1>1. Init => ParkedHasParker
  <2>1. Init => \A fd \in AllFds : Registered(fd) => Notifier(fd).status = "Alive"
    BY RegistryAssumption DEF Init, Registered, Notifier, NewNotifier
  <2>2. QED BY <2>1 DEF ParkedHasParker
<1>2. ASSUME TypeOK, RegistrySound, KeptOpen, ParkedHasParker, [Next]_vars
      PROVE  ParkedHasParker'
  <2> SUFFICES ASSUME "Park" \notin Ops, NEW fe \in AllFds \ Closable, events'[fe] # None,
                      heap'[events'[fe]].status = "Park"
               PROVE  \E q \in Fds : events'[q] # None /\ heap'[events'[q]].parked_fd = fe
    BY DEF ParkedHasParker, Registered, Notifier
  <2>1. fe \in InMap /\ heap[events[fe]].status = "Park" =>
          \E q \in Fds \cap InMap : heap[events[q]].parked_fd = fe
    BY <1>2 DEF ParkedHasParker, Registered, Notifier, InMap, AllFds
  <2>2. ASSUME NEW r \in Requests, Apply(r)
        PROVE  \E q \in Fds : events'[q] # None /\ heap'[events'[q]].parked_fd = fe
    BY <1>2, <2>2, ParkerStep
  <2>3. CASE gc_clean
    <3>1. \A fd \in InMap : heap'[events[fd]] = heap[events[fd]]
      BY <1>2, <2>3, GcKeepsMapped
    <3>2. events' = events
      BY <2>3 DEF gc_clean
    <3>3. QED BY <2>1, <3>1, <3>2 DEF InMap
  <2>4. CASE UNCHANGED <<heap, events>>
    BY <2>1, <2>4 DEF InMap
  <2>5. QED BY <1>2, <2>2, <2>3, <2>4 DEF Next, CloseFd, OpenFd, vars
<1>3. QED BY <1>1, <1>2, KeptOpenStep, TypeCorrect, RegistryIsSound, PTL DEF Spec

-----------------------------------------------------------------------------
(* A box that is Alive or parked is the one in the map under its own        *)
(* descriptor.                                                              *)
MappedSound ==
  \A p \in Objs : heap[p].status \in {"Alive", "Park"} =>
    heap[p].raw_fd \in AllFds /\ events[heap[p].raw_fd] = p

LEMMA MappedStep ==
  ASSUME TypeOK, RegistrySound, MappedSound, NEW r \in Requests, Apply(r),
         NEW o \in Objs, heap'[o].status \in {"Alive", "Park"}
  PROVE  heap'[o].raw_fd \in AllFds /\ events'[heap'[o].raw_fd] = o
<1> DEFINE fo == heap[o].raw_fd
<1>1. r.raw_fd \in AllFds
  BY RequestType DEF AllFds
<1>2. heap[o].status \in {"Alive", "Park"} => fo \in InMap /\ events[fo] = o
  BY RegistryAssumption DEF MappedSound, InMap
<1>3. \A fd \in InMap : events[fd] \in Objs /\ heap[events[fd]].status \in {"Alive", "Park"}
  BY DEF InMap, TypeOK, RegistrySound, MapSound, Registered, Notifier
<1>4. ASSUME heap[o].status \in {"Alive", "Park"}, heap'[o].raw_fd = fo,
             events'[fo] = events[fo]
      PROVE  heap'[o].raw_fd \in AllFds /\ events'[heap'[o].raw_fd] = o
  BY <1>2, <1>4 DEF InMap
<1>5. CASE Quiet
  BY <1>4, <1>5 DEF Quiet, SameNotifier
<1>6. ASSUME NEW s \in {"Alive", "Park"}, Switched(r.raw_fd, s)
      PROVE  heap'[o].raw_fd \in AllFds /\ events'[heap'[o].raw_fd] = o
  BY <1>3, <1>4, <1>6 DEF Switched, SameNotifier, NowIs
<1>7. ASSUME NEW p \in Objs, AddedAs(r, p)
      PROVE  heap'[o].raw_fd \in AllFds /\ events'[heap'[o].raw_fd] = o
  <2>1. events'[r.raw_fd] = p /\ \A fd \in AllFds \ {r.raw_fd} : events'[fd] = events[fd]
    BY <1>1, <1>7 DEF AddedAs, TypeOK
  <2>2. CASE o = p
    BY <1>1, <1>7, <2>1, <2>2 DEF AddedAs
  <2>3. CASE o # p
    <3>1. heap[o].status \in {"Alive", "Park"} /\ heap'[o].raw_fd = fo
      BY <1>3, <1>7, <2>3 DEF AddedAs, SameNotifier, NowIs
    <3>2. fo \in AllFds \ {r.raw_fd}
      BY <1>2, <1>7, <3>1 DEF AddedAs, InMap
    <3>3. QED BY <1>4, <2>1, <3>1, <3>2
  <2>4. QED BY <2>2, <2>3
<1>8. CASE RemovedFrom(r.raw_fd)
  <2>1. /\ o # events[r.raw_fd] /\ r.raw_fd \in InMap
        /\ \A fd \in AllFds \ {r.raw_fd} : events'[fd] = events[fd]
    BY <1>1, <1>8 DEF RemovedFrom, NowIs, TypeOK
  <2>2. heap[o].status \in {"Alive", "Park"} /\ heap'[o].raw_fd = fo
    BY <1>3, <1>8, <2>1 DEF RemovedFrom, SameNotifier, NowIs
  <2>3. fo \in AllFds \ {r.raw_fd}
    BY <1>2, <2>1, <2>2 DEF InMap
  <2>4. QED BY <1>4, <2>1, <2>2, <2>3
<1>9. QED BY <1>5, <1>6, <1>7, <1>8, RequestEffect

LEMMA BoxesAreMapped == Spec => []MappedSound
<1>1. Init => MappedSound
  BY RegistryAssumption DEF Init, MappedSound, NewNotifier, FreeObj, KickRequest, AllFds
<1>2. ASSUME TypeOK, RegistrySound, MappedSound, [Next]_vars PROVE MappedSound'
  <2>1. ASSUME NEW r \in Requests, Apply(r) PROVE MappedSound'
    BY <1>2, <2>1, MappedStep DEF MappedSound
  <2>2. CASE gc_clean
    <3>1. events' = events /\ \A p \in Objs : heap'[p] \in {heap[p], FreeObj}
      BY <2>2 DEF gc_clean
    <3>2. QED BY <1>2, <3>1 DEF MappedSound, FreeObj
  <2>3. CASE UNCHANGED <<heap, events>>
    BY <1>2, <2>3 DEF MappedSound
  <2>4. QED BY <1>2, <2>1, <2>2, <2>3 DEF Next, CloseFd, OpenFd, vars
<1>3. QED BY <1>1, <1>2, TypeCorrect, RegistryIsSound, PTL DEF Spec

(* A request frees no box.                                                  *)
LEMMA RequestFreesNone ==
  ASSUME TypeOK, RegistrySound, NEW r \in Requests, Apply(r),
         NEW o \in Objs, heap[o].status # "Free"
  PROVE  heap'[o].status # "Free"
<1>1. CASE Quiet
  BY <1>1 DEF Quiet, SameNotifier
<1>2. ASSUME NEW s \in {"Alive", "Park"}, Switched(r.raw_fd, s)
      PROVE  heap'[o].status # "Free"
  BY <1>2 DEF Switched, SameNotifier, NowIs
<1>3. ASSUME NEW p \in Objs, AddedAs(r, p) PROVE heap'[o].status # "Free"
  BY <1>3 DEF AddedAs, SameNotifier, NowIs
<1>4. CASE RemovedFrom(r.raw_fd)
  BY <1>4 DEF RemovedFrom, SameNotifier, NowIs
<1>5. QED BY <1>1, <1>2, <1>3, <1>4, RequestEffect
=============================================================================
