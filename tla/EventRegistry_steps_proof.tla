--------------------- MODULE EventRegistry_steps_proof ---------------------
(***************************************************************************)
(* The steps of EventRegistry, for every set of descriptors, addresses,    *)
(* masks and handlers, and every choice of operations: its action          *)
(* properties, and that it implements FdRegistry.                          *)
(***************************************************************************)
EXTENDS EventRegistry_proof

-----------------------------------------------------------------------------
(* A request does not touch the kernel's entry of a watched descriptor that *)
(* is not in the map, nor puts it there.                                    *)
LEMMA OrphanStep ==
  ASSUME NEW r \in Requests, Apply(r), TypeOK, NEW fe \in AllFds,
         events[fe] = None, interest[fe].ptr # None
  PROVE  events'[fe] = None /\ interest'[fe] = interest[fe]
<1>1. r.raw_fd \in AllFds
  BY RequestType DEF AllFds
<1>2. CASE Refuse(r)
  BY <1>2 DEF Refuse
<1>3. CASE AddToRegistered(r)
  BY <1>1, <1>3 DEF AddToRegistered, Registered, TypeOK
<1>4. ASSUME NEW p \in Objs, AddNew(r, p)
      PROVE  events'[fe] = None /\ interest'[fe] = interest[fe]
  <2>1. CASE ~CanWatch(r.raw_fd)
    BY <1>4, <2>1 DEF AddNew
  <2>2. CASE CanWatch(r.raw_fd)
    <3>1. fe # r.raw_fd
      BY <2>2 DEF CanWatch, Watched
    <3>2. QED BY <1>1, <1>4, <2>2, <3>1 DEF AddNew, Registered, TypeOK
  <2>3. QED BY <2>1, <2>2
<1>5. CASE ~Refuse(r) /\ (modify_event(r) \/ park_event(r) \/ resume_event(r))
  BY <1>1, <1>5 DEF modify_event, park_event, resume_event, Registered, TypeOK
<1>6. CASE RemoveRegistered(r)
  <2>1. fe # r.raw_fd
    BY <1>6 DEF RemoveRegistered, Registered
  <2>2. events' = [events EXCEPT ![r.raw_fd] = None]
    BY <1>6 DEF RemoveRegistered
  <2>3. events'[fe] = None
    BY <1>1, <2>1, <2>2 DEF TypeOK
  <2>4. interest'[fe] = interest[fe]
    BY <1>1, <1>6, <2>1, <2>3 DEF RemoveRegistered, StopWatching, TypeOK
  <2>5. QED BY <2>3, <2>4
<1>7. QED
  BY <1>2, <1>3, <1>4, <1>5, <1>6
  DEF Apply, add_event, modify_event, park_event, resume_event, rm_event

(* No call repairs an orphan: what the kernel watches for a notifier that   *)
(* is not in the map it watches until the descriptor is closed.             *)
THEOREM OrphansAreKept == Spec => OrphansStay
<1>1. ASSUME TypeOK, [Next]_vars
      PROVE  \A fd \in Orphans : fd \in open' => fd \in Orphans'
  <2> SUFFICES ASSUME NEW fe \in AllFds, events[fe] = None, interest[fe].ptr # None,
                      fe \in open'
               PROVE  events'[fe] = None /\ interest'[fe].ptr # None
    BY DEF Orphans, Registered, Watched
  <2>1. ASSUME NEW r \in Requests, Apply(r)
        PROVE  events'[fe] = None /\ interest'[fe].ptr # None
    BY <1>1, <2>1, OrphanStep
  <2>2. CASE gc_clean
    BY <2>2 DEF gc_clean
  <2>3. ASSUME NEW fd \in Fds, CloseFd(fd) \/ OpenFd(fd)
        PROVE  events'[fe] = None /\ interest'[fe].ptr # None
    BY <1>1, <2>3 DEF CloseFd, OpenFd, TypeOK, AllFds
  <2>4. CASE UNCHANGED vars
    BY <2>4 DEF vars
  <2>5. QED BY <1>1, <2>1, <2>2, <2>3, <2>4 DEF Next
<1>2. QED BY <1>1, TypeCorrect, PTL DEF Spec, OrphansStay

-----------------------------------------------------------------------------
(* A request makes an orphan only of the descriptor of a failed add.        *)
LEMMA NewOrphanStep ==
  ASSUME TypeOK, RegistrySound, NEW r \in Requests, Apply(r), NEW fe \in AllFds,
         ~(events[fe] = None /\ interest[fe].ptr # None),
         events'[fe] = None, interest'[fe].ptr # None
  PROVE  /\ r.op \in AddOps /\ fe = r.raw_fd
         /\ result' = [op |-> r.op, fd |-> r.raw_fd, res |-> result'.res]
         /\ result'.res \in {"NoParkedFd", "Syscall"}
<1>1. r.raw_fd \in AllFds
  BY RequestType DEF AllFds
<1>2. ~Refuse(r)
  BY DEF Refuse
<1>3. ~AddToRegistered(r)
  BY <1>1 DEF AddToRegistered, Registered, Watch, TypeOK
<1>4. ASSUME NEW p \in Objs, AddNew(r, p)
      PROVE  /\ fe = r.raw_fd
             /\ result' = [op |-> r.op, fd |-> r.raw_fd, res |-> result'.res]
             /\ result'.res \in {"NoParkedFd", "Syscall"}
  <2>1. events[fe] = None
    BY <1>1, <1>4, RegistryAssumption DEF AddNew, TypeOK
  <2>2. interest[fe].ptr = None /\ interest'[fe] # interest[fe]
    BY <2>1
  <2>3. CASE result'.res = "Ok"
    <3>1. events' = [events EXCEPT ![r.raw_fd] = p]
      BY <1>4, <2>3 DEF AddNew, Return
    <3>2. fe # r.raw_fd
      BY <1>1, <3>1, RegistryAssumption DEF TypeOK
    <3>3. QED BY <1>1, <1>4, <2>2, <3>2 DEF AddNew, Unwatched, TypeOK
  <2>4. CASE result'.res # "Ok"
    BY <1>1, <1>4, <2>2, <2>4 DEF AddNew, Return, TypeOK
  <2>5. QED BY <2>3, <2>4
<1>5. ~(modify_event(r) \/ park_event(r) \/ resume_event(r))
  BY <1>1, <1>2 DEF modify_event, park_event, resume_event, Registered, Unwatched, TypeOK
<1>6. ~RemoveRegistered(r)
  <2> SUFFICES ASSUME RemoveRegistered(r) PROVE FALSE
    OBVIOUS
  <2>1. /\ events' = [events EXCEPT ![r.raw_fd] = None]
        /\ Registered(r.raw_fd)
    BY DEF RemoveRegistered
  <2>2. \/ interest'[fe] = StopWatching(r.raw_fd)[fe]
        \/ events'[fe] # None
    BY <1>1, <2>1 DEF RemoveRegistered, StopWatching, TypeOK
  <2>3. StopWatching(r.raw_fd)[fe] \in {interest[fe], Unwatched}
    BY <1>1 DEF StopWatching, TypeOK
  <2>4. events[fe] # None /\ Watched(fe)
    BY <2>2, <2>3 DEF Unwatched, Watched
  <2>5. fe = r.raw_fd /\ Notifier(fe).status = "Alive"
    BY <1>1, <2>1, <2>4 DEF RegistrySound, WatchSound, Registered, TypeOK
  <2>6. StopWatching(r.raw_fd)[fe] = Unwatched
    BY <1>1, <2>5 DEF StopWatching, TypeOK
  <2>7. QED BY <2>2, <2>6 DEF Unwatched
<1>7. QED
  BY <1>2, <1>3, <1>4, <1>5, <1>6
  DEF Apply, add_event, modify_event, park_event, resume_event, rm_event

(* An orphan appears only when an add is refused.                           *)
THEOREM OrphansComeFromAdds == Spec => OrphanOrigin
<1>1. ASSUME TypeOK, RegistrySound, [Next]_vars
      PROVE  UNCHANGED vars \/ \A fd \in Orphans' \ Orphans :
                                 /\ result'.op \in AddOps /\ result'.fd = fd
                                 /\ result'.res \in {"NoParkedFd", "Syscall"}
  <2> SUFFICES ASSUME NEW fe \in AllFds, ~(events[fe] = None /\ interest[fe].ptr # None),
                      events'[fe] = None, interest'[fe].ptr # None
               PROVE  /\ result'.op \in AddOps /\ result'.fd = fe
                      /\ result'.res \in {"NoParkedFd", "Syscall"}
    BY DEF Orphans, Registered, Watched
  <2>1. ASSUME NEW r \in Requests, Apply(r)
        PROVE  /\ result'.op \in AddOps /\ result'.fd = fe
               /\ result'.res \in {"NoParkedFd", "Syscall"}
    BY <1>1, <2>1, NewOrphanStep
  <2>2. ~gc_clean
    BY DEF gc_clean
  <2>3. \A fd \in Fds : ~CloseFd(fd) /\ ~OpenFd(fd)
    BY <1>1 DEF CloseFd, OpenFd, Unwatched, TypeOK, AllFds
  <2>4. ~UNCHANGED vars
    BY DEF vars
  <2>5. QED BY <1>1, <2>1, <2>2, <2>3, <2>4 DEF Next
<1>2. QED BY <1>1, TypeCorrect, RegistryIsSound, PTL DEF Spec, OrphanOrigin

-----------------------------------------------------------------------------
(* What a request that fails may change of a registered descriptor.         *)
Kept(fd) ==
  /\ events'[fd] = events[fd] /\ interest'[fd] = interest[fd]
  /\ heap'[events[fd]] = heap[events[fd]]

LEMMA FailureStep ==
  ASSUME TypeOK, RegistrySound, NEW r \in Requests, Apply(r),
         result'.res # "Ok", NEW fe \in AllFds, Registered(fe),
         ~(r.op = "Delete" /\ fe = r.raw_fd)
  PROVE  Kept(fe)
<1>1. r.raw_fd \in AllFds
  BY RequestType DEF AllFds
<1>2. CASE UNCHANGED <<heap, events, interest>>
  BY <1>2 DEF Kept
<1>3. ASSUME NEW p \in Objs, AddNew(r, p) PROVE Kept(fe)
  <2>1. UNCHANGED <<heap, events>> /\ ~Registered(r.raw_fd)
    BY <1>3 DEF AddNew, Return
  <2>2. interest'[fe] = interest[fe]
    BY <1>1, <1>3, <2>1 DEF AddNew, Return, TypeOK
  <2>3. QED BY <2>1, <2>2 DEF Kept
<1>4. CASE RemoveRegistered(r) /\ r.op = "Delete"
  <2> DEFINE gone == [heap EXCEPT ![events[r.raw_fd]].status = "Removed"]
             done == heap' = gone /\ interest' = StopWatching(r.raw_fd)
  <2>a. /\ Registered(r.raw_fd)
        /\ events' = [events EXCEPT ![r.raw_fd] = None]
        /\ done \/ Return(r, "Ok")
    BY <1>4, Zenon DEF RemoveRegistered
  <2>b. ~Return(r, "Ok")
    BY DEF Return
  <2>1. /\ Registered(r.raw_fd)
        /\ events' = [events EXCEPT ![r.raw_fd] = None]
        /\ heap' = [heap EXCEPT ![events[r.raw_fd]].status = "Removed"]
        /\ interest' = StopWatching(r.raw_fd)
    BY <2>a, <2>b
  <2>2. events[fe] \in Objs /\ events[fe] # events[r.raw_fd]
    BY <1>1, <1>4, <2>1, MapInjective DEF RegistrySound, Registered, TypeOK
  <2>3. events'[fe] = events[fe] /\ heap'[events[fe]] = heap[events[fe]]
    BY <1>1, <1>4, <2>1, <2>2 DEF TypeOK
  <2>4. interest'[fe] = interest[fe]
    BY <1>1, <1>4, <2>1 DEF StopWatching, TypeOK
  <2>5. QED BY <2>3, <2>4 DEF Kept
<1>5. CASE AddToRegistered(r) \/ Refuse(r)
  <2>1. ~Return(r, "Ok")
    BY DEF Return
  <2>2. UNCHANGED <<heap, events, interest>>
    BY <1>5, <2>1, Zenon DEF AddToRegistered, Refuse
  <2>3. QED BY <1>2, <2>2
<1>6. CASE modify_event(r) \/ park_event(r) \/ resume_event(r)
  BY <1>2, <1>6 DEF modify_event, park_event, resume_event, Refuse, Return
<1>7. QED
  BY <1>3, <1>4, <1>5, <1>6 DEF Apply, add_event, rm_event

(* A call that fails changes nothing of a registered descriptor whose owner *)
(* did not close it, unless it is the target of a Delete.                   *)
THEOREM FailuresAreLocal == Spec => FailureIsLocal
<1>1. ASSUME TypeOK, RegistrySound, [Next]_vars,
             NEW fd \in AllFds, Registered(fd), fd \in open', ~Kept(fd)
      PROVE  \/ result'.res = "Ok"
             \/ result'.op = "Delete" /\ result'.fd = fd
  <2>1. ASSUME NEW r \in Requests, Apply(r)
        PROVE  \/ result'.res = "Ok"
               \/ result'.op = "Delete" /\ result'.fd = fd
    <3>1. result' = [op |-> r.op, fd |-> r.raw_fd, res |-> result'.res]
      <4>1. \E res : Return(r, res)
        <5>1. ASSUME AddToRegistered(r) \/ \E p \in Objs : AddNew(r, p)
              PROVE  \E res : Return(r, res)
          BY <5>1, Zenon DEF AddToRegistered, AddNew
        <5>2. ASSUME modify_event(r) \/ park_event(r) \/ resume_event(r) \/ Refuse(r)
              PROVE  \E res : Return(r, res)
          BY <5>2, Zenon DEF modify_event, park_event, resume_event, Refuse
        <5>3. ASSUME RemoveRegistered(r) PROVE \E res : Return(r, res)
          BY <5>3, Zenon DEF RemoveRegistered
        <5>4. QED BY <2>1, <5>1, <5>2, <5>3 DEF Apply, add_event, rm_event
      <4>2. QED BY <4>1 DEF Return
    <3>2. QED BY <1>1, <2>1, <3>1, FailureStep
  <2>2. ~gc_clean
    BY <1>1, GcKeepsMapped DEF gc_clean, Kept, InMap, Registered
  <2>3. ASSUME NEW g \in Fds, CloseFd(g) \/ OpenFd(g) PROVE FALSE
    BY <1>1, <2>3 DEF CloseFd, OpenFd, Kept, TypeOK, AllFds
  <2>4. ~UNCHANGED vars
    BY <1>1 DEF vars, Kept
  <2>5. QED BY <1>1, <2>1, <2>2, <2>3, <2>4 DEF Next
<1>2. ASSUME TypeOK, RegistrySound, [Next]_vars
      PROVE  [\A fd \in AllFds :
                /\ Registered(fd) /\ fd \in open'
                /\ \/ events'[fd] # events[fd]
                   \/ interest'[fd] # interest[fd]
                   \/ heap'[events[fd]] # heap[events[fd]]
                => \/ result'.res = "Ok"
                   \/ result'.op = "Delete" /\ result'.fd = fd]_vars
  BY <1>1, <1>2 DEF Kept
<1>3. QED BY <1>2, TypeCorrect, RegistryIsSound, PTL DEF Spec, FailureIsLocal

-----------------------------------------------------------------------------
(* The refinement.  Each request is one step of FdRegistry, with the same   *)
(* answer; gc_clean and what owners do to their descriptors are stutters,   *)
(* because RegistrySound keeps what is freed apart from what is in the map. *)
Reg == {fd \in AllFds : Registered(fd)}
Par == {fd \in AllFds : Registered(fd) /\ Notifier(fd).parked_fd # None}

-----------------------------------------------------------------------------
(* What FdOutcomes allows, one request at a time.                           *)
LEMMA AddNewOutcomes ==
  ASSUME NEW op \in AddOps, NEW fd, NEW parks \in BOOLEAN, NEW reg, NEW park, fd \notin reg
  PROVE  /\ [res |-> "Ok", registered |-> reg \cup {fd},
             parking |-> IF parks THEN park \cup {fd} ELSE park]
              \in Registry!Outcomes(op, fd, parks, reg, park)
         /\ [res |-> "Syscall", registered |-> reg, parking |-> park]
              \in Registry!Outcomes(op, fd, parks, reg, park)
         /\ parks => [res |-> "NoParkedFd", registered |-> reg, parking |-> park]
                       \in Registry!Outcomes(op, fd, parks, reg, park)
<1>1. Registry!Outcomes(op, fd, parks, reg, park)
        = Registry!AddOutcomes(op, fd, parks, reg, park)
  BY DEF Registry!Outcomes, Registry!AddOps, AddOps
<1>2. Registry!AddOutcomes(op, fd, parks, reg, park)
        = Registry!Returns({"Ok"}, reg \cup {fd}, IF parks THEN park \cup {fd} ELSE park)
          \cup Registry!Returns(IF parks THEN Registry!ParkingFails ELSE {"Syscall"}, reg, park)
  BY DEF Registry!AddOutcomes
<1>3. QED BY <1>1, <1>2 DEF Registry!Returns, Registry!ParkingFails

LEMMA AddAgainOutcomes ==
  ASSUME NEW fd, NEW parks \in BOOLEAN, NEW reg, NEW park, fd \in reg
  PROVE  /\ [res |-> "BadNotifierOperation", registered |-> reg, parking |-> park]
              \in Registry!Outcomes("AddExclusion", fd, parks, reg, park)
         /\ \A res \in {"Ok", "Syscall"} :
              [res |-> res, registered |-> reg, parking |-> park]
                \in Registry!Outcomes("AddShared", fd, parks, reg, park)
BY DEF Registry!Outcomes, Registry!AddOutcomes, Registry!AddOps, Registry!Returns

LEMMA ChangeOutcomes ==
  ASSUME NEW op \in {"Modify", "Park", "Resume", "Delete"}, NEW fd,
         NEW parks \in BOOLEAN, NEW reg, NEW park
  PROVE  /\ fd \notin reg =>
              [res |-> "NoRegisterFd", registered |-> reg, parking |-> park]
                \in Registry!Outcomes(op, fd, parks, reg, park)
         /\ fd \in reg /\ op # "Delete" =>
              [res |-> "Ok", registered |-> reg, parking |-> park]
                \in Registry!Outcomes(op, fd, parks, reg, park)
         /\ fd \in reg /\ op \in {"Park", "Resume"} =>
              [res |-> "Syscall", registered |-> reg, parking |-> park]
                \in Registry!Outcomes(op, fd, parks, reg, park)
         /\ fd \in reg /\ op = "Delete" =>
              \A res \in {"Ok"} \cup (IF fd \in park THEN {"NoParkedFd", "Syscall"} ELSE {}) :
                [res |-> res, registered |-> reg \ {fd}, parking |-> park \ {fd}]
                  \in Registry!Outcomes(op, fd, parks, reg, park)
<1>1. op \notin Registry!AddOps
  BY DEF Registry!AddOps
<1>2. CASE fd \notin reg
  BY <1>1, <1>2 DEF Registry!Outcomes, Registry!Returns
<1>3. CASE fd \in reg /\ op = "Modify"
  BY <1>1, <1>3 DEF Registry!Outcomes, Registry!Returns
<1>4. CASE fd \in reg /\ op \in {"Park", "Resume"}
  BY <1>1, <1>4 DEF Registry!Outcomes, Registry!Returns
<1>5. CASE fd \in reg /\ op = "Delete"
  BY <1>1, <1>5 DEF Registry!Outcomes, Registry!Returns, Registry!ParkingFails
<1>6. QED BY <1>2, <1>3, <1>4, <1>5

(* A request whose outcome is allowed is a step of FdRegistry.              *)
LEMMA StepAnswers ==
  ASSUME NEW r \in Requests, NEW res, Return(r, res), NEW parks \in BOOLEAN,
         [res |-> res, registered |-> Reg', parking |-> Par']
           \in Registry!Outcomes(r.op, r.raw_fd, parks, Reg, Par)
  PROVE  Registry!Next
<1> DEFINE o == [res |-> res, registered |-> Reg', parking |-> Par']
<1>1. r.op \in Registry!RequestOps /\ r.raw_fd \in AllFds
  BY RequestType DEF Registry!RequestOps, Registry!AddOps, AddOps, AllFds
<1>2. /\ o \in Registry!Outcomes(r.op, r.raw_fd, parks, Reg, Par)
      /\ o.registered = Reg' /\ o.parking = Par'
      /\ result' = [op |-> r.op, fd |-> r.raw_fd, res |-> o.res]
  BY DEF Return
<1>3. Registry!Answer(r.op, r.raw_fd)
  BY <1>2 DEF Registry!Answer, Reg, Par
<1>4. QED BY <1>1, <1>3 DEF Registry!Next

-----------------------------------------------------------------------------
(* A step that keeps the map, and the parked_fd of what is in it, keeps     *)
(* what FdRegistry sees.                                                    *)
LEMMA SameRegistry ==
  ASSUME events' = events,
         \A fd \in AllFds : Registered(fd) =>
           heap'[events[fd]].parked_fd = heap[events[fd]].parked_fd
  PROVE  Reg' = Reg /\ Par' = Par
BY DEF Reg, Par, Registered, Notifier

LEMMA AddRegisteredAnswers ==
  ASSUME TypeOK, NEW r \in Requests, r.op \in AddOps, AddToRegistered(r)
  PROVE  Registry!Next
<1>1. r.raw_fd \in Reg /\ events[r.raw_fd] \in Objs
  BY RequestType DEF AddToRegistered, Registered, Reg, AllFds, TypeOK
<1>2. Reg' = Reg /\ Par' = Par
  <2>1. \A q \in Objs : heap'[q].parked_fd = heap[q].parked_fd
    <3>1. CASE UNCHANGED heap
      BY <3>1
    <3>2. ASSUME NEW m, NEW hs,
                 heap' = [heap EXCEPT ![events[r.raw_fd]].event = m,
                                      ![events[r.raw_fd]].handlers = hs]
          PROVE  \A q \in Objs : heap'[q].parked_fd = heap[q].parked_fd
      BY <1>1, <3>2 DEF TypeOK, Notifiers
    <3>3. QED BY <3>1, <3>2 DEF AddToRegistered
  <2>2. QED BY <2>1, SameRegistry DEF AddToRegistered, Registered, TypeOK
<1>3. CASE r.op = "AddExclusion"
  <2>1. Return(r, "BadNotifierOperation")
    BY <1>3 DEF AddToRegistered
  <2>2. QED BY <1>1, <1>2, <1>3, <2>1, AddAgainOutcomes, StepAnswers
<1>4. CASE r.op = "AddShared"
  <2>1. PICK res \in {"Ok", "Syscall"} : Return(r, res)
    BY <1>4 DEF AddToRegistered
  <2>2. QED BY <1>1, <1>2, <1>4, <2>1, AddAgainOutcomes, StepAnswers
<1>5. QED BY <1>3, <1>4 DEF AddOps

LEMMA AddNewAnswers ==
  ASSUME TypeOK, RegistrySound, NEW r \in Requests, r.op \in AddOps,
         NEW p \in Objs, AddNew(r, p)
  PROVE  Registry!Next
<1> DEFINE fd == r.raw_fd
           parked == r.parked_fd
           parks == parked # None
<1>1. fd \in AllFds /\ fd \notin Reg /\ parked \in AllFds \cup {None}
  BY RequestType DEF AddNew, Reg, AllFds
<1>2. CASE UNCHANGED <<heap, events>>
  <2>1. Reg' = Reg /\ Par' = Par
    BY <1>2, SameRegistry
  <2>2. events' # [events EXCEPT ![fd] = p]
    BY <1>1, <1>2, RegistryAssumption DEF TypeOK, Reg, Registered
  <2>3. ~parks => Return(r, "Syscall")
    BY <2>2 DEF AddNew
  <2>4. parks => Return(r, "Syscall") \/ Return(r, "NoParkedFd")
    BY <2>2 DEF AddNew
  <2>5. QED BY <1>1, <2>1, <2>3, <2>4, AddNewOutcomes, StepAnswers
<1>3. CASE ~UNCHANGED <<heap, events>>
  <2>1. /\ heap[p] = FreeObj /\ events' = [events EXCEPT ![fd] = p] /\ Return(r, "Ok")
        /\ \/ heap' = [heap EXCEPT ![p] = NewNotifier(r)]
           \/ /\ parks /\ Registered(parked)
              /\ heap' = [heap EXCEPT ![p] = NewNotifier(r),
                                      ![events[parked]].status = "Park"]
    BY <1>3 DEF AddNew
  <2>2. \A fo \in Reg : events[fo] \in Objs \ {p} /\ events'[fo] = events[fo] /\ fo # fd
    <3> SUFFICES ASSUME NEW fo \in Reg
                 PROVE  events[fo] \in Objs \ {p} /\ events'[fo] = events[fo] /\ fo # fd
      OBVIOUS
    <3>1. fo \in AllFds /\ Registered(fo) /\ Notifier(fo).status \in {"Alive", "Park"}
      BY DEF Reg, RegistrySound, MapSound
    <3>2. events[fo] # p
      BY <2>1, <3>1 DEF Notifier, FreeObj
    <3>3. QED BY <1>1, <2>1, <3>1, <3>2 DEF TypeOK, Registered
  <2>3. /\ heap'[p].parked_fd = parked
        /\ \A q \in Objs \ {p} : heap'[q].parked_fd = heap[q].parked_fd
    <3>1. CASE heap' = [heap EXCEPT ![p] = NewNotifier(r)]
      BY <3>1 DEF TypeOK, NewNotifier
    <3>2. CASE /\ parks /\ Registered(parked)
               /\ heap' = [heap EXCEPT ![p] = NewNotifier(r),
                                       ![events[parked]].status = "Park"]
      <4>1. events[parked] \in Objs \ {p}
        BY <1>1, <2>2, <3>2 DEF Reg
      <4> DEFINE hp == [heap EXCEPT ![p] = NewNotifier(r)]
      <4>2. hp \in [Objs -> Notifiers] /\ heap' = [hp EXCEPT ![events[parked]].status = "Park"]
        BY <3>2, NewNotifierType DEF TypeOK
      <4>3. \A q \in Objs : heap'[q].parked_fd = hp[q].parked_fd
        BY <4>1, <4>2 DEF Notifiers
      <4>4. hp[p].parked_fd = parked /\ \A q \in Objs \ {p} : hp[q] = heap[q]
        BY DEF TypeOK, NewNotifier
      <4>5. QED BY <4>3, <4>4
    <3>3. QED BY <2>1, <3>1, <3>2
  <2>4. events'[fd] = p /\ p # None /\ \A fo \in AllFds \ {fd} : events'[fo] = events[fo]
    BY <1>1, <2>1, RegistryAssumption DEF TypeOK
  <2>5. Reg' = Reg \cup {fd}
    BY <1>1, <2>4 DEF Reg, Registered
  <2>6. Par' = IF parks THEN Par \cup {fd} ELSE Par
    <3>1. \A fo \in AllFds \ {fd} : fo \in Par' <=> fo \in Par
      BY <2>2, <2>3, <2>4 DEF Par, Reg, Registered, Notifier
    <3>2. fd \in Par' <=> parks
      BY <1>1, <2>3, <2>4 DEF Par, Registered, Notifier
    <3>3. fd \notin Par
      BY <1>1 DEF Par, Reg
    <3>4. QED BY <1>1, <3>1, <3>2, <3>3 DEF Par
  <2>7. QED BY <1>1, <2>1, <2>5, <2>6, AddNewOutcomes, StepAnswers
<1>4. QED BY <1>2, <1>3

LEMMA RefuseAnswers ==
  ASSUME TypeOK, NEW r \in Requests, r.op \in {"Modify", "Park", "Resume", "Delete"},
         Refuse(r)
  PROVE  Registry!Next
<1>1. Reg' = Reg /\ Par' = Par /\ r.raw_fd \notin Reg /\ Return(r, "NoRegisterFd")
  BY SameRegistry DEF Refuse, Reg
<1>2. QED BY <1>1, ChangeOutcomes, StepAnswers

LEMMA ChangeAnswers ==
  ASSUME TypeOK, NEW r \in Requests, modify_event(r) \/ park_event(r) \/ resume_event(r)
  PROVE  Registry!Next
<1>1. CASE Refuse(r)
  BY <1>1, RefuseAnswers DEF modify_event, park_event, resume_event
<1>2. CASE ~Refuse(r)
  <2>1. r.raw_fd \in Reg /\ events[r.raw_fd] \in Objs /\ events' = events
    BY <1>2, RequestType DEF modify_event, park_event, resume_event, Registered, Reg,
                             AllFds, TypeOK
  <2>2. \A q \in Objs : heap'[q].parked_fd = heap[q].parked_fd
    <3>1. CASE UNCHANGED heap
      BY <3>1
    <3>2. CASE \E hs : heap' = [heap EXCEPT ![events[r.raw_fd]].handlers = hs]
      BY <2>1, <3>2 DEF TypeOK, Notifiers
    <3>3. CASE \E st : heap' = [heap EXCEPT ![events[r.raw_fd]].status = st]
      BY <2>1, <3>3 DEF TypeOK, Notifiers
    <3>4. QED BY <1>2, <3>1, <3>2, <3>3 DEF modify_event, park_event, resume_event
  <2>3. Reg' = Reg /\ Par' = Par
    BY <2>1, <2>2, SameRegistry DEF Registered, TypeOK
  <2>4. CASE modify_event(r)
    <3>1. r.op = "Modify" /\ Return(r, "Ok")
      BY <1>2, <2>4 DEF modify_event
    <3>2. QED BY <2>1, <2>3, <3>1, ChangeOutcomes, StepAnswers
  <2>5. CASE park_event(r) \/ resume_event(r)
    <3>1. r.op \in {"Park", "Resume"} /\ (Return(r, "Ok") \/ Return(r, "Syscall"))
      BY <1>2, <2>5 DEF park_event, resume_event
    <3>2. QED BY <2>1, <2>3, <3>1, ChangeOutcomes, StepAnswers
  <2>6. QED BY <2>4, <2>5
<1>3. QED BY <1>1, <1>2

LEMMA RemoveAnswers ==
  ASSUME TypeOK, RegistrySound, NEW r \in Requests, r.op = "Delete", RemoveRegistered(r)
  PROVE  Registry!Next
<1> DEFINE fd     == r.raw_fd
           p      == events[fd]
           parked == heap[p].parked_fd
           q      == events[parked]
           gone   == [heap EXCEPT ![p].status = "Removed"]
<1>1. fd \in Reg /\ p \in Objs
  BY RequestType DEF RemoveRegistered, Registered, Reg, AllFds, TypeOK
<1>2. events' = [events EXCEPT ![fd] = None]
  BY DEF RemoveRegistered
<1>3. gone \in [Objs -> Notifiers] /\ \A o \in Objs : gone[o].parked_fd = heap[o].parked_fd
  <2>1. gone \in [Objs -> Notifiers]
    BY <1>1, SetStatusType DEF TypeOK, Statuses
  <2>2. \A o \in Objs : gone[o].parked_fd = heap[o].parked_fd
    BY <1>1 DEF TypeOK, Notifiers
  <2>3. QED BY <2>1, <2>2
<1>4. \A o \in Objs : heap'[o].parked_fd = heap[o].parked_fd
  <2>1. CASE heap' = gone
    BY <1>3, <2>1
  <2>2. CASE heap' = [gone EXCEPT ![q].status = "Alive"]
    BY <1>3, <2>2 DEF Notifiers
  <2>3. QED BY <2>1, <2>2 DEF RemoveRegistered
<1>5. Reg' = Reg \ {fd} /\ Par' = Par \ {fd}
  <2>1. events'[fd] = None /\ \A fo \in AllFds \ {fd} : events'[fo] = events[fo]
    BY <1>1, <1>2 DEF TypeOK, Reg
  <2>2. \A fo \in AllFds : Registered(fo) => events[fo] \in Objs
    BY DEF TypeOK, Registered
  <2>3. Reg' = Reg \ {fd}
    BY <1>1, <2>1 DEF Reg, Registered
  <2>4. \A fo \in AllFds \ {fd} : fo \in Par' <=> fo \in Par
    BY <1>4, <2>1, <2>2 DEF Par, Registered, Notifier
  <2>5. fd \notin Par'
    BY <2>1 DEF Par, Registered
  <2>6. QED BY <2>3, <2>4, <2>5 DEF Par
<1>6. PICK res \in {"Ok"} \cup (IF fd \in Par THEN {"NoParkedFd", "Syscall"} ELSE {}) :
        Return(r, res)
  BY <1>1 DEF RemoveRegistered, Par, Reg, Notifier
<1>7. QED BY <1>1, <1>5, <1>6, ChangeOutcomes, StepAnswers

(* Freeing the removed boxes is not seen: none of them is in the map.       *)
LEMMA GcCleanStutters ==
  ASSUME TypeOK, RegistrySound, gc_clean
  PROVE  Reg' = Reg /\ Par' = Par /\ result' = result
<1>1. \A fd \in AllFds : Registered(fd) => heap'[events[fd]] = heap[events[fd]]
  BY GcKeepsMapped DEF InMap, Registered
<1>2. QED BY <1>1, SameRegistry DEF gc_clean

(* Every answer that EventRegistry gives, and every change of what is       *)
(* registered, is one that FdRegistry allows.                               *)
THEOREM RegistryImplementsFdRegistry == Spec => ImplementsFdRegistry
<1>1. Init => Registry!Init
  <2> SUFFICES ASSUME Init PROVE Registry!Init
    OBVIOUS
  <2>1. \A fd \in AllFds : Registered(fd) <=> fd = KickFd
    BY RegistryAssumption DEF Init, Registered, AllFds
  <2>2. KickFd \in AllFds /\ Notifier(KickFd).parked_fd = None
    BY DEF Init, Notifier, NewNotifier, KickRequest, AllFds
  <2>3. Reg = {KickFd} /\ Par = {}
    BY <2>1, <2>2 DEF Reg, Par
  <2>4. QED BY <2>2, <2>3 DEF Registry!Init, Init, Reg, Par
<1>2. ASSUME TypeOK, RegistrySound, [Next]_vars PROVE [Registry!Next]_(Registry!fdVars)
  <2>1. ASSUME NEW r \in Requests, Apply(r) PROVE Registry!Next
    <3>1. CASE add_event(r)
      BY <1>2, <3>1, AddRegisteredAnswers, AddNewAnswers DEF add_event
    <3>2. CASE modify_event(r) \/ park_event(r) \/ resume_event(r)
      BY <1>2, <3>2, ChangeAnswers
    <3>3. CASE rm_event(r)
      BY <1>2, <3>3, RefuseAnswers, RemoveAnswers DEF rm_event
    <3>4. QED BY <2>1, <3>1, <3>2, <3>3 DEF Apply
  <2>2. ASSUME Reg' = Reg, Par' = Par, result' = result
        PROVE  UNCHANGED Registry!fdVars
    BY <2>2 DEF Registry!fdVars, Reg, Par
  <2>3. CASE gc_clean
    BY <1>2, <2>2, <2>3, GcCleanStutters
  <2>4. ASSUME NEW fd \in Fds, CloseFd(fd) \/ OpenFd(fd) PROVE UNCHANGED Registry!fdVars
    <3>1. UNCHANGED <<heap, events, result>>
      BY <2>4 DEF CloseFd, OpenFd
    <3>2. QED BY <2>2, <3>1, SameRegistry
  <2>5. CASE UNCHANGED vars
    BY <2>2, <2>5, SameRegistry DEF vars
  <2>6. QED BY <1>2, <2>1, <2>3, <2>4, <2>5 DEF Next
<1>3. QED
  BY <1>1, <1>2, TypeCorrect, RegistryIsSound, PTL DEF Spec, Registry!Spec, ImplementsFdRegistry
=============================================================================
