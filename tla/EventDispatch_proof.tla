------------------------ MODULE EventDispatch_proof ------------------------
(***************************************************************************)
(* Proofs about EventDispatch, for every set of descriptors and addresses. *)
(*                                                                         *)
(* A step of the rounds is a step of EventRegistry, or does not touch the  *)
(* registry at all, so that what is proved of EventRegistry holds here.    *)
(* What the list and the handlers rely on is proved on top of it: boxes    *)
(* are only freed when nothing is in use, and a request that would take    *)
(* the notifier under dispatch out of the map needs the lock the loop has. *)
(***************************************************************************)
EXTENDS EventDispatch, EventRegistry_proof

LEMMA RoundIsStep == [RoundNext]_dispatchVars => [Next]_vars
<1> SUFFICES ASSUME [RoundNext]_dispatchVars PROVE [Next]_vars
  OBVIOUS
<1>1. ASSUME NEW r \in Requests, Apply(r) PROVE Next
  BY <1>1 DEF Next
<1>2. CASE Call \/ CallResumes \/ Update(TRUE) \/ Update(FALSE)
  BY <1>1, <1>2 DEF Call, CallResumes, Update, Perform
<1>3. CASE CallWaits \/ EpollWait \/ DispatchNext \/ HandlersReturn
  BY <1>3 DEF CallWaits, EpollWait, DispatchNext, HandlersReturn
<1>4. CASE EndRound
  BY <1>4 DEF EndRound, Next
<1>5. ASSUME NEW fd \in Fds, OwnerCloses(fd) \/ OwnerOpens(fd) PROVE Next
  BY <1>5 DEF OwnerCloses, OwnerOpens, Next
<1>6. CASE UNCHANGED dispatchVars
  BY <1>6 DEF dispatchVars
<1>7. QED BY <1>2, <1>3, <1>4, <1>5, <1>6 DEF RoundNext, Loop

(* The registry, under the rounds and the callers that wait for them, does  *)
(* nothing that EventRegistry does not do.                                  *)
THEOREM DispatchImplementsRegistry == DispatchSpec => Spec
<1>1. DispatchInit => Init
  BY DEF DispatchInit
<1>2. QED BY <1>1, RoundIsStep, PTL DEF DispatchSpec, Spec

(* So every theorem about Spec is one about DispatchSpec.                   *)
Sound == TypeOK /\ RegistrySound /\ MappedSound /\ KernelPointersAlive

LEMMA SoundInRounds == DispatchSpec => []Sound
<1>1. Spec => []Sound
  BY TypeCorrect, RegistryIsSound, BoxesAreMapped, KernelPointersAreAlive, PTL DEF Sound
<1>2. QED BY <1>1, DispatchImplementsRegistry

(* KernelPointersAlive: whatever a round and the calls between its steps do, *)
(* the kernel holds only addresses of Alive notifiers.                      *)
THEOREM PointersAliveInRounds == DispatchSpec => []KernelPointersAlive
BY SoundInRounds, PTL DEF Sound

(* ParkedHasParker: nor does a round lose the one that parked a descriptor. *)
THEOREM ParkersInRounds == DispatchSpec => []ParkedHasParker
BY ParkedOnesHaveParkers, DispatchImplementsRegistry, PTL

(* The rounds' variables have their types.                                  *)
LEMMA LocksType ==
  ASSUME TypeOK, NEW r \in Requests
  PROVE  Locks(r) \subseteq Objs
<1>1. \A fd \in AllFds : Registered(fd) => events[fd] \in Objs
  BY DEF TypeOK, Registered
<1>2. \A fd \in AllFds : Registered(fd) => heap[events[fd]].parked_fd \in AllFds \cup {None}
  BY <1>1 DEF TypeOK, Notifiers
<1>3. r.raw_fd \in AllFds /\ r.parked_fd \in AllFds \cup {None}
      /\ r.op \in AddOps \cup {"Modify", "Park", "Resume", "Delete"}
  BY RequestType DEF AllFds
<1>4. CASE r.op \in AddOps
  BY <1>1, <1>3, <1>4 DEF Locks, AddOps
<1>5. CASE r.op = "Delete"
  BY <1>1, <1>2, <1>3, <1>5 DEF Locks, AddOps
<1>6. CASE r.op \in {"Modify", "Park", "Resume"}
  BY <1>1, <1>3, <1>6 DEF Locks, AddOps
<1>7. QED BY <1>3, <1>4, <1>5, <1>6

LEMMA PerformKeepsOwners ==
  ASSUME retired \subseteq Closable, NEW r \in Requests, Perform(r)
  PROVE  retired' \subseteq Closable /\ late' \subseteq Fds
BY DEF Perform

THEOREM DispatchTypeCorrect == DispatchSpec => []DispatchTypeOK
<1>1. DispatchInit => DispatchTypeOK
  BY DEF DispatchInit, DispatchTypeOK
<1> DEFINE LoopType == /\ pc \in {"wait", "dispatch", "handlers", "update"}
                       /\ ready \subseteq Objs /\ (pc = "wait" => ready = {})
                       /\ cur \in Objs \cup {None}
                       /\ cur # None <=> pc \in {"handlers", "update"}
                       /\ waiting \subseteq Objs
           OwnerType == retired \subseteq Closable /\ late \subseteq Fds
<1>2. DispatchTypeOK <=> LoopType /\ OwnerType
  BY DEF DispatchTypeOK
<1>3. ASSUME Sound, LoopType, [RoundNext]_dispatchVars PROVE LoopType'
  <2>1. ASSUME UNCHANGED <<pc, ready, cur>>, waiting' \subseteq Objs PROVE LoopType'
    BY <1>3, <2>1
  <2>2. CASE Call
    BY <1>3, <2>1, <2>2 DEF Call, loopVars
  <2>3. CASE CallWaits
    BY <1>3, <2>1, <2>3, LocksType DEF CallWaits, Sound
  <2>4. CASE CallResumes
    BY <1>3, <2>1, <2>4 DEF CallResumes
  <2>5. CASE EpollWait
    <3>1. KernelHolds \subseteq Objs
      BY <1>3 DEF KernelHolds, Watched, Sound, TypeOK, Entries
    <3>2. QED BY <1>3, <2>5, <3>1, RegistryAssumption DEF EpollWait
  <2>6. CASE DispatchNext
    BY <1>3, <2>6, RegistryAssumption DEF DispatchNext, LockStatus
  <2>7. CASE HandlersReturn
    BY <1>3, <2>7 DEF HandlersReturn
  <2>8. CASE Update(TRUE) \/ Update(FALSE)
    BY <1>3, <2>8 DEF Update
  <2>9. CASE EndRound
    BY <1>3, <2>9 DEF EndRound
  <2>10. ASSUME NEW fd \in Fds, OwnerCloses(fd) \/ OwnerOpens(fd) PROVE LoopType'
    BY <1>3, <2>1, <2>10 DEF OwnerCloses, OwnerOpens, loopVars
  <2>11. CASE UNCHANGED dispatchVars
    BY <1>3, <2>1, <2>11 DEF dispatchVars, loopVars
  <2>12. QED
    BY <1>3, <2>2, <2>3, <2>4, <2>5, <2>6, <2>7, <2>8, <2>9, <2>10, <2>11
       DEF RoundNext, Loop
<1>4. ASSUME OwnerType, [RoundNext]_dispatchVars PROVE OwnerType'
  <2>1. CASE Call \/ CallResumes \/ Update(TRUE) \/ Update(FALSE)
    BY <1>4, <2>1, PerformKeepsOwners DEF Call, CallResumes, Update
  <2>2. CASE UNCHANGED ownerVars
    BY <1>4, <2>2 DEF ownerVars
  <2>3. ASSUME NEW fd \in Fds, OwnerOpens(fd) PROVE OwnerType'
    BY <1>4, <2>3 DEF OwnerOpens
  <2>4. QED
    BY <1>4, <2>1, <2>2, <2>3
       DEF RoundNext, Loop, CallWaits, EpollWait, DispatchNext, HandlersReturn, EndRound,
           OwnerCloses, dispatchVars
<1>5. QED
  BY <1>1, <1>2, <1>3, <1>4, SoundInRounds, PTL DEF DispatchSpec

-----------------------------------------------------------------------------
(* Whatever other threads and the handlers remove, the boxes that the round *)
(* will still dereference are there: gc_clean only runs when none is left.  *)
THEOREM ReadyOnesAreBoxed == DispatchSpec => []ReadyIsBoxed
<1>1. DispatchInit => ReadyIsBoxed
  BY DEF DispatchInit, ReadyIsBoxed, InUse
<1>2. ASSUME Sound, DispatchTypeOK, ReadyIsBoxed, [RoundNext]_dispatchVars
      PROVE  ReadyIsBoxed'
  <2> SUFFICES ASSUME CheckedPark, NEW o \in InUse' PROVE heap'[o].status # "Free"
    BY DEF ReadyIsBoxed
  <2>1. InUse \subseteq Objs /\ \A p \in InUse : heap[p].status # "Free"
    BY <1>2 DEF InUse, ReadyIsBoxed, DispatchTypeOK
  <2>2. ASSUME NEW r \in Requests, Apply(r), InUse' \subseteq InUse
        PROVE  heap'[o].status # "Free"
    BY <1>2, <2>1, <2>2, RequestFreesNone DEF Sound
  <2>3. ASSUME heap' = heap, InUse' \subseteq InUse PROVE heap'[o].status # "Free"
    BY <2>1, <2>3
  <2>4. CASE Call \/ CallResumes \/ Update(TRUE) \/ Update(FALSE)
    BY <2>2, <2>4 DEF Call, CallResumes, Update, Perform, InUse, loopVars
  <2>5. CASE CallWaits \/ DispatchNext \/ HandlersReturn
    BY <2>3, <2>5 DEF CallWaits, DispatchNext, LockStatus, HandlersReturn, InUse, vars
  <2>6. CASE EpollWait
    <3>1. o \in KernelHolds /\ heap' = heap
      BY <1>2, <2>6 DEF EpollWait, InUse, DispatchTypeOK, vars
    <3>2. PICK fd \in AllFds : Watched(fd) /\ interest[fd].ptr = o
      BY <3>1 DEF KernelHolds
    <3>3. QED BY <1>2, <3>1, <3>2 DEF Sound, KernelPointersAlive, Notifier
  <2>7. CASE EndRound
    BY <1>2, <2>7 DEF EndRound, InUse, DispatchTypeOK
  <2>8. ASSUME NEW fd \in Fds, OwnerCloses(fd) \/ OwnerOpens(fd)
        PROVE  heap'[o].status # "Free"
    BY <2>3, <2>8 DEF OwnerCloses, OwnerOpens, CloseFd, OpenFd, InUse, loopVars
  <2>9. CASE UNCHANGED dispatchVars
    BY <2>3, <2>9 DEF dispatchVars, vars, loopVars, InUse
  <2>10. QED BY <1>2, <2>4, <2>5, <2>6, <2>7, <2>8, <2>9 DEF RoundNext, Loop
<1>3. QED BY <1>1, <1>2, SoundInRounds, DispatchTypeCorrect, PTL DEF DispatchSpec

-----------------------------------------------------------------------------
(* What owners that delete first can rely on: a descriptor in the map is     *)
(* open and not deleted for a close, unless it was added after that Delete. *)
OpenInMap ==
  DeleteFirst => \A fd \in InMap \ late : fd \in open /\ fd \notin retired

(* A descriptor is not in the map when its Delete returns.                  *)
LEMMA DeleteForgets ==
  ASSUME TypeOK, NEW r \in Requests, Apply(r), r.op = "Delete"
  PROVE  events'[r.raw_fd] = None
<1>1. r.raw_fd \in AllFds
  BY RequestType DEF AllFds
<1>2. Refuse(r) \/ RemoveRegistered(r)
  BY DEF Apply, add_event, modify_event, park_event, resume_event, rm_event, AddOps
<1>3. CASE Refuse(r)
  BY <1>3 DEF Refuse, Registered
<1>4. CASE RemoveRegistered(r)
  BY <1>1, <1>4 DEF RemoveRegistered, TypeOK
<1>5. QED BY <1>2, <1>3, <1>4

LEMMA PerformKeepsOpen ==
  ASSUME Sound, DispatchTypeOK, NEW r \in Requests, Perform(r),
         NEW fe \in AllFds, events'[fe] # None, fe \notin late',
         fe \in InMap \ late => fe \in open /\ fe \notin retired
  PROVE  fe \in open' /\ fe \notin retired'
<1>1. Apply(r) /\ open' = open /\ r.raw_fd \in Fds
  BY RequestType DEF Perform, Apply
<1>2. fe \in open /\ fe \notin retired
  <2>1. CASE fe \in InMap
    <3>1. fe \notin late
      BY <2>1 DEF Perform, DispatchTypeOK
    <3>2. QED BY <2>1, <3>1
  <2>2. CASE fe \notin InMap
    <3>1. r.op \in AddOps /\ \E p \in Objs : AddedAs(r, p)
      BY <1>1, <2>2, RequestEffect DEF Quiet, Switched, RemovedFrom, InMap, Sound, TypeOK
    <3>2. fe = r.raw_fd /\ CanWatch(fe)
      BY <2>2, <3>1 DEF AddedAs, InMap, Sound, TypeOK
    <3>3. fe \in Fds /\ ~Registered(fe)
      BY <1>1, <2>2, <3>2 DEF InMap, Registered
    <3>4. QED BY <3>2, <3>3 DEF Perform, CanWatch
  <2>3. QED BY <2>1, <2>2
<1>3. CASE r.op = "Delete"
  <2>1. fe # r.raw_fd
    BY <1>1, <1>3, DeleteForgets DEF Sound
  <2>2. QED BY <1>1, <1>2, <1>3, <2>1 DEF Perform
<1>4. CASE r.op # "Delete"
  BY <1>1, <1>2, <1>4 DEF Perform
<1>5. QED BY <1>3, <1>4

LEMMA RegisteredAreOpen == DispatchSpec => []OpenInMap
<1>1. DispatchInit => OpenInMap
  BY DEF DispatchInit, Init, OpenInMap, InMap
<1>2. ASSUME Sound, DispatchTypeOK, OpenInMap, [RoundNext]_dispatchVars
      PROVE  OpenInMap'
  <2> SUFFICES ASSUME DeleteFirst, NEW fe \in AllFds, events'[fe] # None, fe \notin late'
               PROVE  fe \in open' /\ fe \notin retired'
    BY DEF OpenInMap, InMap
  <2>1. fe \in InMap \ late => fe \in open /\ fe \notin retired
    BY <1>2 DEF OpenInMap
  <2>2. ASSUME NEW r \in Requests, Perform(r) PROVE fe \in open' /\ fe \notin retired'
    BY <1>2, <2>1, <2>2, PerformKeepsOpen
  <2>3. CASE Call \/ CallResumes \/ Update(TRUE) \/ Update(FALSE)
    BY <2>2, <2>3 DEF Call, CallResumes, Update
  <2>4. CASE CallWaits \/ EpollWait \/ DispatchNext \/ HandlersReturn
    BY <2>1, <2>4 DEF CallWaits, EpollWait, DispatchNext, HandlersReturn, vars,
                      ownerVars, InMap
  <2>5. CASE EndRound
    BY <2>1, <2>5 DEF EndRound, gc_clean, vars, ownerVars, InMap
  <2>6. ASSUME NEW fd \in Fds, OwnerCloses(fd) PROVE fe \in open' /\ fe \notin retired'
    <3>1. fd \in retired /\ open' = open \ {fd} /\ UNCHANGED <<events, retired, late>>
      BY <2>6 DEF OwnerCloses, CloseFd, ownerVars
    <3>2. QED BY <2>1, <3>1 DEF InMap
  <2>7. ASSUME NEW fd \in Fds, OwnerOpens(fd) PROVE fe \in open' /\ fe \notin retired'
    BY <2>1, <2>7 DEF OwnerOpens, OpenFd, InMap
  <2>8. CASE UNCHANGED dispatchVars
    BY <2>1, <2>8 DEF dispatchVars, vars, ownerVars, InMap
  <2>9. QED BY <1>2, <2>3, <2>4, <2>5, <2>6, <2>7, <2>8 DEF RoundNext, Loop
<1>3. QED
  BY <1>1, <1>2, SoundInRounds, DispatchTypeCorrect, PTL DEF DispatchSpec

(* A request that leaves out the lock of an Alive notifier leaves it Alive  *)
(* and in the map.                                                          *)
Served(o) ==
  LET fd == heap[o].raw_fd
  IN  heap[o].status = "Alive" /\ fd \in InMap /\ events[fd] = o

LEMMA LocksNeeded ==
  ASSUME NEW r \in Requests
  PROVE  /\ r.op = "Park" /\ Registered(r.raw_fd) /\ Watched(r.raw_fd) =>
              events[r.raw_fd] \in Locks(r)
         /\ r.op = "Delete" /\ Registered(r.raw_fd) => events[r.raw_fd] \in Locks(r)
         /\ /\ r.op \in AddOps /\ ~Registered(r.raw_fd) /\ CanWatch(r.raw_fd)
            /\ r.parked_fd # None /\ Registered(r.parked_fd)
            => events[r.parked_fd] \in Locks(r)
BY DEF Locks, AddOps

LEMMA ServedStep ==
  ASSUME Sound, NEW r \in Requests, Apply(r), NEW o \in Objs, o \notin Locks(r), Served(o)
  PROVE  Served(o)'
<1> DEFINE fo == heap[o].raw_fd
<1>1. r.raw_fd \in AllFds /\ fo \in InMap /\ fo \in AllFds /\ events[fo] = o
      /\ heap[o].status = "Alive"
  BY RequestType DEF AllFds, Served, InMap
<1>2. ASSUME heap'[o].status = "Alive", heap'[o].raw_fd = fo, events'[fo] = events[fo]
      PROVE  Served(o)'
  BY <1>1, <1>2 DEF Served, InMap
<1>3. CASE Quiet
  BY <1>1, <1>2, <1>3 DEF Quiet, SameNotifier
<1>4. CASE r.op = "Park" /\ Watched(r.raw_fd) /\ Switched(r.raw_fd, "Park")
  <2>1. o # events[r.raw_fd]
    BY <1>4, LocksNeeded DEF Switched, Registered, InMap
  <2>2. QED BY <1>1, <1>2, <1>4, <2>1 DEF Switched, SameNotifier
<1>5. CASE Switched(r.raw_fd, "Alive")
  BY <1>1, <1>2, <1>5 DEF Switched, SameNotifier, NowIs
<1>6. ASSUME NEW p \in Objs, r.op \in AddOps, AddedAs(r, p) PROVE Served(o)'
  <2>1. \A fd \in AllFds \ {r.raw_fd} : events'[fd] = events[fd]
    BY <1>1, <1>6 DEF AddedAs, Sound, TypeOK
  <2>2. fo # r.raw_fd /\ o # p
    BY <1>1, <1>6 DEF AddedAs
  <2>3. r.parked_fd # None => o # events[r.parked_fd]
    <3>1. ~Registered(r.raw_fd) /\ CanWatch(r.raw_fd)
      BY <1>1, <1>6 DEF AddedAs, Registered, InMap
    <3>2. r.parked_fd # None => Registered(r.parked_fd)
      BY <1>6 DEF AddedAs, Registered, InMap
    <3>3. QED BY <1>6, <3>1, <3>2, LocksNeeded
  <2>4. SameNotifier(o)
    BY <1>6, <2>2, <2>3 DEF AddedAs
  <2>5. QED BY <1>1, <1>2, <2>1, <2>2, <2>4 DEF SameNotifier
<1>7. CASE r.op = "Delete" /\ RemovedFrom(r.raw_fd)
  <2>1. o # events[r.raw_fd]
    BY <1>7, LocksNeeded DEF RemovedFrom, Registered, InMap
  <2>2. fo # r.raw_fd /\ \A fd \in AllFds \ {r.raw_fd} : events'[fd] = events[fd]
    BY <1>1, <1>7, <2>1 DEF RemovedFrom, Sound, TypeOK
  <2>3. heap'[o].status = "Alive" /\ heap'[o].raw_fd = fo
    BY <1>1, <1>7, <2>1 DEF RemovedFrom, SameNotifier, NowIs
  <2>4. QED BY <1>1, <1>2, <2>2, <2>3
<1>8. QED BY <1>3, <1>4, <1>5, <1>6, <1>7, RequestEffect DEF Sound

(* While the handlers of a notifier run, its descriptor is registered,       *)
(* whatever other threads ask for, and open, unless it was added after the  *)
(* Delete of an owner that closes it: how far read_fd's comment is true.    *)
THEOREM HandlersHaveTheirFd == DispatchSpec => []HandlerFdIsValid
<1> DEFINE Inv == pc = "handlers" => Served(cur)
<1>1. DispatchInit => Inv
  BY DEF DispatchInit
<1>2. ASSUME Sound, DispatchTypeOK, Inv, [RoundNext]_dispatchVars PROVE Inv'
  <2> SUFFICES ASSUME pc' = "handlers" PROVE Served(cur)'
    OBVIOUS
  <2>1. pc = "handlers" => cur \in Objs /\ Held = cur /\ Served(cur)
    BY <1>2 DEF DispatchTypeOK, Held
  <2>2. CASE Call
    BY <1>2, <2>1, <2>2, ServedStep DEF Call, Perform, loopVars, Served
  <2>3. CASE CallResumes
    BY <1>2, <2>1, <2>3, ServedStep DEF CallResumes, Perform, Served
  <2>4. CASE CallWaits
    BY <2>1, <2>4 DEF CallWaits, vars, Served, InMap
  <2>5. CASE DispatchNext
    BY <1>2, <2>5, RegistryAssumption
       DEF DispatchNext, LockStatus, Served, Sound, MappedSound, DispatchTypeOK, vars, InMap
  <2>6. CASE EpollWait \/ HandlersReturn \/ Update(TRUE) \/ Update(FALSE) \/ EndRound
    BY <2>6 DEF EpollWait, HandlersReturn, Update, EndRound
  <2>7. ASSUME NEW fd \in Fds, OwnerCloses(fd) \/ OwnerOpens(fd) PROVE Served(cur)'
    BY <2>1, <2>7 DEF OwnerCloses, OwnerOpens, CloseFd, OpenFd, loopVars, Served, InMap
  <2>8. CASE UNCHANGED dispatchVars
    BY <2>1, <2>8 DEF dispatchVars, vars, loopVars, Served, InMap
  <2>9. QED BY <1>2, <2>2, <2>3, <2>4, <2>5, <2>6, <2>7, <2>8 DEF RoundNext, Loop
<1>3. Inv /\ OpenInMap => HandlerFdIsValid
  BY DEF HandlerFdIsValid, OpenInMap, Served
<1>4. QED
  BY <1>1, <1>2, <1>3, SoundInRounds, DispatchTypeCorrect, RegisteredAreOpen, PTL
     DEF DispatchSpec

(* With such owners every Alive notifier in the map is watched, also under  *)
(* a descriptor that was closed and opened again; deaf can only be one that *)
(* was added between its owner's Delete and the close.                      *)
THEOREM AliveOnesAreHeard == DispatchSpec => []AliveIsHeard
<1>1. DispatchInit => AliveIsHeard
  <2> SUFFICES ASSUME DispatchInit, NEW fd \in AllFds, Registered(fd) PROVE Watched(fd)
    BY DEF AliveIsHeard
  <2>1. fd = KickFd
    BY RegistryAssumption DEF DispatchInit, Init, Registered
  <2>2. QED BY <2>1, RegistryAssumption DEF DispatchInit, Init, Watched, Watch, AllFds
<1>2. ASSUME Sound, DispatchTypeOK, OpenInMap, AliveIsHeard, [RoundNext]_dispatchVars
      PROVE  AliveIsHeard'
  <2> SUFFICES ASSUME DeleteFirst, NEW fe \in AllFds, events'[fe] # None, fe \notin late',
                      heap'[events'[fe]].status = "Alive"
               PROVE  interest'[fe].ptr # None
    BY DEF AliveIsHeard, Registered, Notifier, Watched
  <2>1. fe \notin late /\ fe \in InMap /\ heap[events[fe]].status = "Alive"
        => interest[fe].ptr # None
    BY <1>2 DEF AliveIsHeard, Registered, Notifier, Watched, InMap
  <2>2. ASSUME NEW r \in Requests, Perform(r) PROVE interest'[fe].ptr # None
    <3>1. Apply(r) /\ fe \notin late
      BY <1>2, <2>2 DEF Perform, DispatchTypeOK
    <3>2. QED BY <1>2, <2>1, <3>1, AliveWatchedStep DEF Sound
  <2>3. CASE Call \/ CallResumes \/ Update(TRUE) \/ Update(FALSE)
    BY <2>2, <2>3 DEF Call, CallResumes, Update
  <2>4. CASE UNCHANGED <<heap, events, interest, late>>
    BY <2>1, <2>4 DEF InMap
  <2>5. CASE gc_clean /\ late' = late
    <3>1. UNCHANGED <<events, interest, late>>
      BY <2>5 DEF gc_clean
    <3>2. fe \in InMap /\ heap'[events[fe]] = heap[events[fe]]
      BY <1>2, <2>5, <3>1, GcKeepsMapped DEF InMap, Sound
    <3>3. QED BY <2>1, <3>1, <3>2
  <2>6. ASSUME NEW fd \in Fds, OwnerCloses(fd) PROVE interest'[fe].ptr # None
    <3>1. UNCHANGED <<heap, events, late>> /\ interest' = [interest EXCEPT ![fd] = Unwatched]
          /\ fd \in retired
      BY <2>6 DEF OwnerCloses, CloseFd, ownerVars
    <3>2. fe \in InMap \ late
      BY <3>1 DEF InMap
    <3>3. fe # fd /\ interest'[fe] = interest[fe]
      BY <1>2, <3>1, <3>2 DEF OpenInMap, Sound, TypeOK
    <3>4. QED BY <2>1, <3>1, <3>2, <3>3
  <2>7. QED
    BY <1>2, <2>3, <2>4, <2>5, <2>6
       DEF RoundNext, Loop, CallWaits, EpollWait, DispatchNext, HandlersReturn, EndRound,
           OwnerOpens, OpenFd, dispatchVars, vars, ownerVars
<1>3. QED
  BY <1>1, <1>2, SoundInRounds, DispatchTypeCorrect, RegisteredAreOpen, PTL
     DEF DispatchSpec
=============================================================================
