-------------------------- MODULE EventLoop_proof --------------------------
(***************************************************************************)
(* Proofs about EventLoop, for any threads, devices, batches and contexts. *)
(*                                                                         *)
(* The records of a device need more than themselves: while it is in a     *)
(* helper, what is registered for it is told by what is left of its batch, *)
(* a suffix of it (SimpleInv); and that a second register of the same      *)
(* batch fails at its first request, because the first descriptor of the   *)
(* batch is registered whenever any of them is, keeps apart what is on     *)
(* record and what was left.                                               *)
(***************************************************************************)
EXTENDS EventLoop, TLAPS

-----------------------------------------------------------------------------
(* Suffixes of sequences.                                                   *)
SuffixOf(t, s) ==
  /\ Len(t) <= Len(s)
  /\ \A i \in 1..Len(t) : t[i] = s[i + Len(s) - Len(t)]

LEMMA ToSetOf ==
  ASSUME NEW S, NEW s \in Seq(S)
  PROVE  ToSet(s) = {s[i] : i \in 1..Len(s)} /\ ToSet(s) \subseteq S
BY DEF ToSet

LEMMA WholeSuffix ==
  ASSUME NEW S, NEW s \in Seq(S)
  PROVE  SuffixOf(s, s) /\ SuffixOf(<<>>, s) /\ ToSet(<<>>) = {}
BY DEF SuffixOf, ToSet

LEMMA ConcatElements ==
  ASSUME NEW S, NEW s \in Seq(S), NEW t \in Seq(S)
  PROVE  ToSet(s \o t) \subseteq ToSet(s) \cup ToSet(t)
<1> DEFINE st == s \o t
<1>a. st \in Seq(S)
  OBVIOUS
<1>b. ToSet(st) = {st[i] : i \in 1..Len(st)}
  <2> HIDE DEF st
  <2>1. QED BY <1>a, ToSetOf
<1> SUFFICES ASSUME NEW i \in 1..Len(st) PROVE st[i] \in ToSet(s) \cup ToSet(t)
  BY <1>b
<1>1. CASE i <= Len(s)
  BY <1>1, ToSetOf
<1>2. CASE i > Len(s)
  <2>1. i - Len(s) \in 1..Len(t) /\ st[i] = t[i - Len(s)]
    BY <1>2
  <2>2. QED BY <2>1, ToSetOf
<1>3. QED BY <1>1, <1>2

LEMMA SuffixLen ==
  ASSUME NEW S, NEW s \in Seq(S), NEW t \in Seq(S), SuffixOf(t, s)
  PROVE  /\ ToSet(t) \subseteq ToSet(s)
         /\ Len(t) = Len(s) => t = s
<1>1. ToSet(t) \subseteq ToSet(s)
  <2> SUFFICES ASSUME NEW i \in 1..Len(t) PROVE \E j \in 1..Len(s) : s[j] = t[i]
    BY ToSetOf
  <2>1. i + Len(s) - Len(t) \in 1..Len(s) /\ t[i] = s[i + Len(s) - Len(t)]
    BY DEF SuffixOf
  <2>2. QED BY <2>1
<1>2. ASSUME Len(t) = Len(s) PROVE t = s
  <2>1. \A i \in 1..Len(t) : t[i] = s[i]
    BY <1>2 DEF SuffixOf
  <2>2. QED BY <1>2, <2>1
<1>3. QED BY <1>1, <1>2

LEMMA SuffixTail ==
  ASSUME NEW S, NEW s \in Seq(S), NEW t \in Seq(S), SuffixOf(t, s), t # <<>>
  PROVE  /\ Tail(t) \in Seq(S) /\ Len(Tail(t)) = Len(t) - 1
         /\ SuffixOf(Tail(t), s)
         /\ Head(t) \in ToSet(t) /\ Head(t) \in S
         /\ ToSet(t) = ToSet(Tail(t)) \cup {Head(t)}
<1>1. /\ Tail(t) \in Seq(S) /\ Len(Tail(t)) = Len(t) - 1 /\ Len(t) \in Nat \ {0}
      /\ Head(t) = t[1] /\ \A i \in 1..(Len(t) - 1) : Tail(t)[i] = t[i + 1]
  OBVIOUS
<1>2. SuffixOf(Tail(t), s)
  <2> SUFFICES ASSUME NEW i \in 1..(Len(t) - 1)
               PROVE  Tail(t)[i] = s[i + Len(s) - (Len(t) - 1)]
    BY <1>1 DEF SuffixOf
  <2>1. i + 1 \in 1..Len(t) /\ Tail(t)[i] = t[i + 1]
    BY <1>1
  <2>2. t[i + 1] = s[(i + 1) + Len(s) - Len(t)]
    BY <2>1 DEF SuffixOf
  <2>3. (i + 1) + Len(s) - Len(t) = i + Len(s) - (Len(t) - 1)
    BY <1>1
  <2>4. QED BY <2>1, <2>2, <2>3
<1>3. /\ ToSet(t) = {t[i] : i \in 1..Len(t)}
      /\ ToSet(Tail(t)) = {Tail(t)[i] : i \in 1..(Len(t) - 1)}
  BY <1>1, ToSetOf
<1>4. Head(t) \in ToSet(t) /\ Head(t) \in S
  BY <1>1, <1>3
<1>5. ToSet(Tail(t)) \subseteq ToSet(t)
  BY <1>1, <1>3
<1>6. ASSUME NEW i \in 1..Len(t) PROVE t[i] \in ToSet(Tail(t)) \cup {Head(t)}
  <2>1. CASE i = 1
    BY <1>1, <2>1
  <2>2. CASE i # 1
    <3>1. i - 1 \in 1..(Len(t) - 1) /\ Tail(t)[i - 1] = t[i]
      BY <1>1, <2>2
    <3>2. QED BY <1>3, <3>1
  <2>3. QED BY <2>1, <2>2
<1>7. QED BY <1>1, <1>2, <1>3, <1>4, <1>5, <1>6

(* A batch that names no descriptor twice.                                  *)
LEMMA SuffixOnce ==
  ASSUME NEW S, NEW s \in Seq(S), NEW t \in Seq(S), SuffixOf(t, s), IsInjective(s)
  PROVE  /\ t # <<>> => Head(t) \notin ToSet(Tail(t))
         /\ Len(t) < Len(s) => s[1] \in ToSet(s) \ ToSet(t)
<1>1. ASSUME t # <<>>, Head(t) \in ToSet(Tail(t)) PROVE FALSE
  <2>1. /\ Len(Tail(t)) = Len(t) - 1 /\ Len(t) \in Nat \ {0} /\ Tail(t) \in Seq(S)
        /\ Head(t) = t[1] /\ \A i \in 1..(Len(t) - 1) : Tail(t)[i] = t[i + 1]
    BY <1>1
  <2>2. PICK i \in 1..(Len(t) - 1) : t[i + 1] = t[1]
    <3>1. ToSet(Tail(t)) = {Tail(t)[i] : i \in 1..(Len(t) - 1)}
      BY <2>1, ToSetOf
    <3>2. PICK i \in 1..(Len(t) - 1) : Tail(t)[i] = Head(t)
      BY <1>1, <3>1
    <3>3. QED BY <2>1, <3>2
  <2>3. i \in Nat /\ i >= 1 /\ i + 1 \in 1..Len(t) /\ 1 \in 1..Len(t)
    BY <2>1
  <2>4. t[i + 1] = s[(i + 1) + Len(s) - Len(t)] /\ t[1] = s[1 + Len(s) - Len(t)]
    BY <2>3 DEF SuffixOf
  <2>5. Len(s) \in Nat /\ Len(t) <= Len(s)
    BY DEF SuffixOf
  <2>6. /\ (i + 1) + Len(s) - Len(t) \in 1..Len(s) /\ 1 + Len(s) - Len(t) \in 1..Len(s)
        /\ DOMAIN s = 1..Len(s)
    BY <2>1, <2>3, <2>5
  <2>7. (i + 1) + Len(s) - Len(t) = 1 + Len(s) - Len(t)
    BY <2>2, <2>4, <2>6 DEF IsInjective
  <2>8. QED BY <2>1, <2>3, <2>5, <2>7
<1>2. ASSUME Len(t) < Len(s), s[1] \in ToSet(t) PROVE FALSE
  <2>1. PICK i \in 1..Len(t) : t[i] = s[1]
    BY <1>2, ToSetOf
  <2>2. t[i] = s[i + Len(s) - Len(t)] /\ i + Len(s) - Len(t) \in 1..Len(s)
    BY DEF SuffixOf
  <2>3. 1 \in DOMAIN s /\ i + Len(s) - Len(t) \in DOMAIN s
    BY <1>2, <2>2
  <2>4. i + Len(s) - Len(t) = 1
    BY <2>1, <2>2, <2>3 DEF IsInjective
  <2>5. QED BY <1>2, <2>4
<1>3. Len(t) < Len(s) => s[1] \in ToSet(s)
  BY ToSetOf
<1>4. QED BY <1>1, <1>2, <1>3

-----------------------------------------------------------------------------
(* What a request of a helper may do to a context.                          *)
LEMMA AnyOutcome ==
  ASSUME NEW op \in AddOps \cup {"Delete"}, NEW fd, NEW parks \in BOOLEAN,
         NEW reg, NEW park, NEW o \in Outcomes(op, fd, parks, reg, park)
  PROVE  /\ o.registered \in {reg, reg \cup {fd}, reg \ {fd}}
         /\ \/ o.parking \in {park, park \ {fd}}
            \/ parks /\ o.parking = park \cup {fd}
<1>1. CASE op \in AddOps
  <2>1. o \in AddOutcomes(op, fd, parks, reg, park)
    BY <1>1 DEF Outcomes, AddOps
  <2>2. CASE fd \notin reg
    <3>1. o \in Returns({"Ok"}, reg \cup {fd}, IF parks THEN park \cup {fd} ELSE park)
                \cup Returns(IF parks THEN ParkingFails ELSE {"Syscall"}, reg, park)
      BY <2>1, <2>2 DEF AddOutcomes
    <3>2. QED BY <3>1 DEF Returns
  <2>3. CASE fd \in reg
    <3>1. \E results : o \in Returns(results, reg, park)
      BY <1>1, <2>1, <2>3 DEF AddOutcomes, AddOps
    <3>2. QED BY <3>1 DEF Returns
  <2>4. QED BY <2>2, <2>3
<1>2. CASE op = "Delete"
  <2>1. op \notin AddOps
    BY <1>2 DEF AddOps
  <2>2. CASE fd \notin reg
    <3>1. o \in Returns({"NoRegisterFd"}, reg, park)
      BY <2>1, <2>2 DEF Outcomes
    <3>2. QED BY <3>1 DEF Returns
  <2>3. CASE fd \in reg
    <3>1. \E results : o \in Returns(results, reg \ {fd}, park \ {fd})
      BY <1>2, <2>1, <2>3 DEF Outcomes
    <3>2. QED BY <3>1 DEF Returns
  <2>4. QED BY <2>2, <2>3
<1>3. QED BY <1>1, <1>2

LEMMA ExclusiveOutcome ==
  ASSUME NEW fd, NEW parks \in BOOLEAN, ~parks, NEW reg, NEW park,
         NEW o \in Outcomes("AddExclusion", fd, parks, reg, park)
  PROVE  /\ o.res # "Ok" => o.registered = reg
         /\ o.res = "Ok" => fd \notin reg /\ o.registered = reg \cup {fd}
<1>1. o \in AddOutcomes("AddExclusion", fd, parks, reg, park)
  BY DEF Outcomes, AddOps
<1>2. CASE fd \notin reg
  <2>1. o \in Returns({"Ok"}, reg \cup {fd}, park) \cup Returns({"Syscall"}, reg, park)
    BY <1>1, <1>2 DEF AddOutcomes
  <2>2. QED BY <1>2, <2>1 DEF Returns
<1>3. CASE fd \in reg
  <2>1. o \in Returns({"BadNotifierOperation"}, reg, park)
    BY <1>1, <1>3 DEF AddOutcomes
  <2>2. QED BY <2>1 DEF Returns
<1>4. QED BY <1>2, <1>3

LEMMA DeleteOutcome ==
  ASSUME NEW fd, NEW parks, NEW reg, NEW park, fd \in reg, fd \notin park,
         NEW o \in Outcomes("Delete", fd, parks, reg, park)
  PROVE  o.res = "Ok" /\ o.registered = reg \ {fd}
<1>1. o \in Returns({"Ok"}, reg \ {fd}, park \ {fd})
  BY DEF Outcomes, AddOps
<1>2. QED BY <1>1 DEF Returns

-----------------------------------------------------------------------------
(* Types, and that a device handles only the descriptors of its batch.      *)
OwnBatch ==
  \A d \in Devices : /\ ToSet(todo[d]) \subseteq ToSet(BatchOf[d])
                     /\ ToSet(record[d]) \subseteq ToSet(BatchOf[d])
TypeInv == TypeOK /\ OwnBatch

LEMMA InitType == Init => TypeInv
<1> SUFFICES ASSUME Init PROVE TypeInv
  OBVIOUS
<1>1. \A d \in Devices : ToSet(todo[d]) = {} /\ ToSet(record[d]) = {}
  <2>1. ToSet(<<>>) = {}
    BY DEF ToSet
  <2>2. QED BY <2>1 DEF Init
<1>2. TypeOK
  BY DEF Init, TypeOK
<1>3. QED BY <1>1, <1>2 DEF TypeInv, OwnBatch

(* What a step outside of the helpers keeps.                                *)
LEMMA LoopType ==
  ASSUME TypeInv, InitFirst \/ InitAgain \/ SpawnNext \/ RunMain \/ SetManager \/ Round
  PROVE  TypeInv'
<1> USE LoopAssumption DEF TypeInv, TypeOK
<1>1. UNCHANGED deviceVars /\ UNCHANGED fdVars
  BY DEF InitFirst, InitAgain, SpawnNext, RunMain, SetManager, Round
<1>2. OwnBatch'
  BY <1>1 DEF OwnBatch, deviceVars
<1>3. CASE InitFirst \/ InitAgain
  BY <1>1, <1>2, <1>3
  DEF InitFirst, InitAgain, InitOk, Ctxs, threadVars, fdVars, deviceVars
<1>4. CASE SpawnNext
  BY <1>1, <1>2, <1>4
  DEF SpawnNext, SpawnStarts, SpawnFails, InitOk, fdVars, deviceVars
<1>5. CASE RunMain \/ SetManager \/ Round
  BY <1>1, <1>2, <1>5
  DEF RunMain, SetManager, get_ctx, Round, Asked, RoundFails, initVars, fdVars, deviceVars
<1>6. QED BY <1>3, <1>4, <1>5

LEMMA BatchTyped ==
  ASSUME NEW d \in Devices
  PROVE  /\ BatchOf[d] \in Seq(Fds) /\ OpOf[d] \in AddOps /\ CtxOf[d] \in Ctxs
         /\ ToSet(BatchOf[d]) \subseteq Fds
BY LoopAssumption, ToSetOf

LEMMA BeginType ==
  ASSUME TypeInv, NEW d \in Devices,
         register_event_helper(d) \/ unregister_event_helper(d)
  PROVE  TypeInv'
<1>1. PICK op \in {"register", "unregister"}, fds \in {BatchOf[d], record[d]} :
        Begin(d, op, fds)
  BY DEF register_event_helper, unregister_event_helper
<1>2. fds \in Seq(Fds) /\ ToSet(fds) \subseteq ToSet(BatchOf[d])
  BY BatchTyped DEF TypeInv, TypeOK, OwnBatch
<1>3. ToSet(<<>>) = {}
  BY DEF ToSet
<1>4. TypeOK'
  BY <1>1, <1>2 DEF Begin, TypeInv, TypeOK, initVars, threadVars, fdVars
<1>5. OwnBatch'
  BY <1>1, <1>2, <1>3 DEF Begin, TypeInv, TypeOK, OwnBatch
<1>6. QED BY <1>4, <1>5 DEF TypeInv

LEMMA UpdateType ==
  ASSUME TypeInv, NEW d \in Devices, UpdateNext(d)
  PROVE  TypeInv'
<1> DEFINE c  == CtxOf[d]
           fd == Head(todo[d])
           op == IF doing[d] = "register" THEN OpOf[d] ELSE "Delete"
<1>1. /\ todo[d] \in Seq(Fds) /\ todo[d] # <<>>
      /\ doing[d] \in {"register", "unregister"}
      /\ UNCHANGED <<initVars, threadVars>>
  BY DEF UpdateNext, TypeInv, TypeOK
<1>2. /\ fd \in Fds /\ Tail(todo[d]) \in Seq(Fds)
      /\ ToSet(Tail(todo[d])) \subseteq ToSet(todo[d])
  BY <1>1, WholeSuffix, SuffixTail
<1>3. PICK o \in Outcomes(op, fd, fd \in Parking, registered[c], parking[c]) :
        /\ registered' = [registered EXCEPT ![c] = o.registered]
        /\ parking' = [parking EXCEPT ![c] = o.parking]
        /\ IF o.res = "Ok"
           THEN /\ todo' = [todo EXCEPT ![d] = Tail(@)]
                /\ UNCHANGED <<doing, record, stuck, left>>
           ELSE UpdateFails(d)
  BY DEF UpdateNext
<1>4. op \in AddOps \cup {"Delete"} /\ c \in Ctxs
  BY BatchTyped
<1>5. /\ o.registered \in {registered[c], registered[c] \cup {fd}, registered[c] \ {fd}}
      /\ \/ o.parking \in {parking[c], parking[c] \ {fd}}
         \/ fd \in Parking /\ o.parking = parking[c] \cup {fd}
  <2> DEFINE parks == fd \in Parking
  <2>1. parks \in BOOLEAN /\ (parks => fd \in Parking)
    OBVIOUS
  <2>2. o \in Outcomes(op, fd, parks, registered[c], parking[c])
    OBVIOUS
  <2> HIDE DEF op, fd, c, parks
  <2>3. QED BY <1>4, <2>1, <2>2, AnyOutcome
<1>6. o.registered \in SUBSET Fds /\ o.parking \in SUBSET Parking
  BY <1>2, <1>4, <1>5 DEF TypeInv, TypeOK
<1>7. registered' \in [Ctxs -> SUBSET Fds] /\ parking' \in [Ctxs -> SUBSET Parking]
  BY <1>3, <1>4, <1>6 DEF TypeInv, TypeOK
<1>8. Added(d) \subseteq Fds
  BY BatchTyped DEF Added
<1>9. ToSet(<<>>) = {}
  BY DEF ToSet
<1>10. /\ doing' \in [Devices -> {"idle", "register", "unregister", "panicked"}]
       /\ todo' \in [Devices -> Seq(Fds)] /\ record' \in [Devices -> Seq(Fds)]
       /\ stuck' \subseteq Devices /\ left' \in [Devices -> SUBSET Fds]
       /\ OwnBatch'
  <2>1. CASE o.res = "Ok"
    BY <1>2, <1>3, <2>1 DEF TypeInv, TypeOK, OwnBatch
  <2>2. CASE o.res # "Ok"
    <3>1. /\ doing' = [doing EXCEPT ![d] = "idle"]
          /\ todo' = [todo EXCEPT ![d] = <<>>] /\ record' = record
          /\ stuck' \in {stuck, stuck \cup {d}}
          /\ left' = [left EXCEPT ![d] = left[d] \cup Added(d)]
      BY <1>3, <2>2 DEF UpdateFails
    <3>2. <<>> \in Seq(Fds)
      OBVIOUS
    <3>3. QED BY <1>8, <1>9, <3>1, <3>2 DEF TypeInv, TypeOK, OwnBatch
  <2>3. QED BY <2>1, <2>2
<1>11. QED
  BY <1>1, <1>7, <1>10 DEF TypeInv, TypeOK, initVars, threadVars

LEMMA ReturnsType ==
  ASSUME TypeInv, NEW d \in Devices, HelperReturns(d)
  PROVE  TypeInv'
<1>1. Recorded(d) \in Seq(Fds) /\ ToSet(Recorded(d)) \subseteq ToSet(BatchOf[d])
  <2>1. record[d] \in Seq(Fds) /\ ToSet(record[d]) \subseteq ToSet(BatchOf[d])
    BY DEF TypeInv, TypeOK, OwnBatch
  <2>2. record[d] \o BatchOf[d] \in Seq(Fds)
    BY <2>1, BatchTyped
  <2>3. ToSet(record[d] \o BatchOf[d]) \subseteq ToSet(record[d]) \cup ToSet(BatchOf[d])
    BY <2>1, BatchTyped, ConcatElements
  <2>4. ToSet(<<>>) = {}
    BY DEF ToSet
  <2>5. QED BY <2>1, <2>2, <2>3, <2>4 DEF Recorded
<1>2. OwnBatch'
  BY <1>1 DEF HelperReturns, TypeInv, TypeOK, OwnBatch
<1>3. TypeOK'
  BY <1>1 DEF HelperReturns, TypeInv, TypeOK, initVars, threadVars, fdVars
<1>4. QED BY <1>2, <1>3 DEF TypeInv

LEMMA TypeStep == TypeInv /\ [Next]_vars => TypeInv'
<1> SUFFICES ASSUME TypeInv, [Next]_vars PROVE TypeInv'
  OBVIOUS
<1>1. CASE UNCHANGED vars
  BY <1>1 DEF vars, initVars, threadVars, fdVars, deviceVars, TypeInv, TypeOK, OwnBatch
<1>2. QED
  BY <1>1, LoopType, BeginType, UpdateType, ReturnsType DEF Next

(* Every variable has its type, for any threads, devices and batches.       *)
THEOREM TypeCorrect == Spec => []TypeOK
<1>1. TypeInv => TypeOK
  BY DEF TypeInv
<1>2. QED BY <1>1, InitType, TypeStep, PTL DEF Spec

-----------------------------------------------------------------------------
(* Every context is served, or its thread has still to be started, as long  *)
(* as no loop_init has failed; and none returns before its threads are      *)
(* started.                                                                 *)
ServeInv ==
  /\ contexts = {} => spawning = {} /\ inits = {}
  /\ spawning # {} => inits = {}
  /\ "Err" \notin inits => \A c \in contexts \ {Main} : c \in spawning \/ thread[c] # "none"

LEMMA ServeStep == TypeOK /\ ServeInv /\ [Next]_vars => ServeInv'
<1> SUFFICES ASSUME TypeOK, ServeInv, [Next]_vars PROVE ServeInv'
  OBVIOUS
<1>1. CASE InitFirst
  BY <1>1 DEF InitFirst, InitOk, ServeInv, threadVars
<1>2. CASE InitAgain
  BY <1>2 DEF InitAgain, InitOk, ServeInv, threadVars
<1>3. CASE SpawnNext
  <2>1. PICK c \in spawning : SpawnStarts(c) \/ SpawnFails(c)
    BY <1>3 DEF SpawnNext
  <2>2. contexts' = contexts /\ contexts # {} /\ inits = {} /\ c \in Ctxs
    BY <1>3, <2>1 DEF SpawnNext, ServeInv, TypeOK
  <2>3. CASE SpawnFails(c)
    BY <2>2, <2>3 DEF SpawnFails, ServeInv
  <2>4. CASE SpawnStarts(c)
    <3>1. \A k \in Ctxs : thread'[k] = IF k = c THEN "running" ELSE thread[k]
      BY <2>4 DEF SpawnStarts, TypeOK
    <3>2. spawning' = spawning \ {c} /\ (spawning' # {} => inits' = {})
      BY <2>2, <2>4 DEF SpawnStarts, InitOk
    <3>3. contexts \subseteq Ctxs
      BY DEF TypeOK
    <3>4. QED BY <2>2, <3>1, <3>2, <3>3 DEF ServeInv
  <2>5. QED BY <2>1, <2>3, <2>4
<1>4. CASE RunMain \/ SetManager \/ Round
  <2>1. UNCHANGED initVars
    BY <1>4 DEF RunMain, SetManager, Round
  <2>2. \A k \in Ctxs \ {Main} : thread[k] # "none" => thread'[k] # "none"
    BY <1>4 DEF RunMain, SetManager, Round, Asked, RoundFails, TypeOK
  <2>3. contexts \subseteq Ctxs
    BY DEF TypeOK
  <2>4. QED BY <2>1, <2>2, <2>3 DEF ServeInv, initVars
<1>5. CASE UNCHANGED <<initVars, threadVars>>
  BY <1>5 DEF ServeInv, initVars, threadVars
<1>6. QED
  BY <1>1, <1>2, <1>3, <1>4, <1>5
  DEF Next, vars, register_event_helper, unregister_event_helper, Begin, UpdateNext,
      HelperReturns

(* When every loop_init has returned Ok, each io context has had a thread.  *)
THEOREM InitsServe == Spec => []InitServes
<1>1. Init => ServeInv
  BY DEF Init, ServeInv
<1>2. ServeInv => InitServes
  BY DEF ServeInv, InitServes
<1>3. QED BY <1>1, <1>2, ServeStep, TypeCorrect, PTL DEF Spec

-----------------------------------------------------------------------------
(* The records of the devices that share nothing, add exclusively and park  *)
(* nothing.  Of(d) is what is registered for such a device.                 *)
Of(d) == registered[CtxOf[d]] \cap ToSet(BatchOf[d])

RecordOrLeft(d) ==
  /\ record[d] \in {<<>>, BatchOf[d]} /\ left[d] \subseteq ToSet(BatchOf[d])
  /\ record[d] # <<>> => left[d] = {}
  /\ left[d] # {} => BatchOf[d] # <<>> /\ BatchOf[d][1] \in left[d]

RegisterInv(d) ==
  /\ SuffixOf(todo[d], BatchOf[d])
  /\ \/ /\ todo[d] = BatchOf[d]
        /\ Of(d) = ToSet(record[d]) \cup left[d]
     \/ /\ Len(todo[d]) < Len(BatchOf[d])
        /\ record[d] = <<>> /\ left[d] = {}
        /\ Of(d) = ToSet(BatchOf[d]) \ ToSet(todo[d])

UnregisterInv(d) ==
  SuffixOf(todo[d], record[d]) /\ Of(d) = ToSet(todo[d]) \cup left[d]

SimpleInv(d) ==
  /\ RecordOrLeft(d)
  /\ doing[d] = "idle" => Of(d) = ToSet(record[d]) \cup left[d]
  /\ doing[d] = "register" => RegisterInv(d)
  /\ doing[d] = "unregister" => UnregisterInv(d)
  /\ d \notin stuck

RecordInv == \A d \in Devices : Simple(d) => SimpleInv(d)

LEMMA RecordInit == Init => RecordInv
<1> SUFFICES ASSUME Init, NEW d \in Devices PROVE SimpleInv(d)
  BY DEF RecordInv
<1>1. Of(d) = {} /\ ToSet(<<>>) = {}
  BY BatchTyped DEF Init, Of, ToSet
<1>2. QED BY <1>1 DEF Init, SimpleInv, RecordOrLeft

(* A device's own invariant is about its own part of the state.             *)
LEMMA SimpleFrame ==
  ASSUME NEW d \in Devices, SimpleInv(d), Of(d)' = Of(d),
         todo'[d] = todo[d], record'[d] = record[d], left'[d] = left[d],
         doing'[d] = doing[d], d \notin stuck'
  PROVE  SimpleInv(d)'
BY DEF SimpleInv, RecordOrLeft, RegisterInv, UnregisterInv

(* Another device does not touch the descriptors of a simple one.           *)
LEMMA OthersKeep ==
  ASSUME TypeInv, NEW d \in Devices, Own(d), NEW e \in Devices \ {d}, UpdateNext(e)
  PROVE  Of(d)' = Of(d)
<1> DEFINE c  == CtxOf[e]
           fd == Head(todo[e])
           op == IF doing[e] = "register" THEN OpOf[e] ELSE "Delete"
           parks == fd \in Parking
<1>1. PICK o \in Outcomes(op, fd, parks, registered[c], parking[c]) :
        registered' = [registered EXCEPT ![c] = o.registered]
  BY DEF UpdateNext
<1>2. op \in AddOps \cup {"Delete"} /\ c \in Ctxs /\ parks \in BOOLEAN
  BY BatchTyped
<1>3. o.registered \in {registered[c], registered[c] \cup {fd}, registered[c] \ {fd}}
  <2>1. o \in Outcomes(op, fd, parks, registered[c], parking[c])
    OBVIOUS
  <2> HIDE DEF op, fd, c, parks
  <2>2. QED BY <1>2, <2>1, AnyOutcome
<1>4. fd \in ToSet(BatchOf[e])
  <2>1. todo[e] \in Seq(Fds) /\ todo[e] # <<>>
    BY DEF UpdateNext, TypeInv, TypeOK
  <2>2. fd \in ToSet(todo[e])
    BY <2>1, WholeSuffix, SuffixTail
  <2>3. QED BY <2>2 DEF TypeInv, OwnBatch
<1>5. CASE CtxOf[d] = c
  <2>1. fd \notin ToSet(BatchOf[d])
    BY <1>4, <1>5 DEF Own
  <2>2. registered'[c] = o.registered
    BY <1>1, <1>2 DEF TypeInv, TypeOK
  <2>3. QED BY <1>3, <1>5, <2>1, <2>2 DEF Of
<1>6. CASE CtxOf[d] # c
  BY <1>1, <1>6, BatchTyped DEF Of, TypeInv, TypeOK
<1>7. QED BY <1>5, <1>6

LEMMA SimpleBatch ==
  ASSUME NEW d \in Devices, Simple(d)
  PROVE  /\ BatchOf[d] \in Seq(Fds) /\ IsInjective(BatchOf[d]) /\ Own(d)
         /\ OpOf[d] = "AddExclusion" /\ ToSet(BatchOf[d]) \cap Parking = {}
BY BatchTyped DEF Simple

LEMMA SimpleBegins ==
  ASSUME TypeInv, NEW d \in Devices, Simple(d), SimpleInv(d),
         register_event_helper(d) \/ unregister_event_helper(d)
  PROVE  SimpleInv(d)'
<1>1. CASE register_event_helper(d)
  <2>1. /\ doing[d] = "idle" /\ UNCHANGED <<registered, record, stuck, left>>
        /\ doing'[d] \in {"register", "panicked"}
        /\ doing'[d] = "register" => todo'[d] = BatchOf[d]
    BY <1>1 DEF register_event_helper, Begin, TypeInv, TypeOK, fdVars
  <2>2. Of(d)' = Of(d) /\ Of(d) = ToSet(record[d]) \cup left[d] /\ RecordOrLeft(d)'
    BY <2>1 DEF Of, SimpleInv, RecordOrLeft
  <2>3. doing'[d] = "register" => RegisterInv(d)'
    BY <2>1, <2>2, SimpleBatch, WholeSuffix DEF RegisterInv
  <2>4. QED BY <2>1, <2>2, <2>3 DEF SimpleInv
<1>2. CASE unregister_event_helper(d)
  <2>1. /\ doing[d] = "idle" /\ UNCHANGED <<registered, record, stuck, left>>
        /\ doing'[d] \in {"unregister", "panicked"}
        /\ doing'[d] = "unregister" => todo'[d] = record[d]
    BY <1>2 DEF unregister_event_helper, Begin, TypeInv, TypeOK, fdVars
  <2>2. Of(d)' = Of(d) /\ Of(d) = ToSet(record[d]) \cup left[d] /\ RecordOrLeft(d)'
    BY <2>1 DEF Of, SimpleInv, RecordOrLeft
  <2>3. doing'[d] = "unregister" => UnregisterInv(d)'
    BY <2>1, <2>2, WholeSuffix DEF UnregisterInv, TypeInv, TypeOK
  <2>4. QED BY <2>1, <2>2, <2>3 DEF SimpleInv
<1>3. QED BY <1>1, <1>2

(* A request of a register: it succeeds only on a descriptor that is not    *)
(* registered, so a batch gets on only if nothing of it is.                 *)
LEMMA SimpleRegisters ==
  ASSUME TypeInv, NEW d \in Devices, Simple(d), SimpleInv(d),
         doing[d] = "register", UpdateNext(d)
  PROVE  SimpleInv(d)'
<1> DEFINE c == CtxOf[d]
           B == BatchOf[d]
           t == todo[d]
           fd == Head(t)
           parks == fd \in Parking
<1>1. /\ B \in Seq(Fds) /\ t \in Seq(Fds) /\ t # <<>> /\ SuffixOf(t, B) /\ c \in Ctxs
      /\ IsInjective(B) /\ RecordOrLeft(d) /\ RegisterInv(d) /\ d \notin stuck
  BY SimpleBatch, BatchTyped DEF UpdateNext, TypeInv, TypeOK, SimpleInv, RegisterInv
<1>2. /\ Tail(t) \in Seq(Fds) /\ Len(Tail(t)) = Len(t) - 1 /\ SuffixOf(Tail(t), B)
      /\ fd \in ToSet(t) /\ ToSet(t) = ToSet(Tail(t)) \cup {fd}
      /\ ToSet(t) \subseteq ToSet(B) /\ fd \notin ToSet(Tail(t))
      /\ Len(t) < Len(B) => B[1] \in ToSet(B) \ ToSet(t)
  BY <1>1, SuffixTail, SuffixLen, SuffixOnce
<1>3. parks \in BOOLEAN /\ ~parks
  BY <1>2, SimpleBatch
<1>4. PICK o \in Outcomes("AddExclusion", fd, parks, registered[c], parking[c]) :
        /\ registered' = [registered EXCEPT ![c] = o.registered]
        /\ IF o.res = "Ok"
           THEN /\ todo' = [todo EXCEPT ![d] = Tail(@)]
                /\ UNCHANGED <<doing, record, stuck, left>>
           ELSE UpdateFails(d)
  BY SimpleBatch DEF UpdateNext
<1>5. /\ registered'[c] = o.registered
      /\ o.res # "Ok" => o.registered = registered[c]
      /\ o.res = "Ok" => fd \notin registered[c] /\ o.registered = registered[c] \cup {fd}
  <2>1. registered'[c] = o.registered
    BY <1>1, <1>4 DEF TypeInv, TypeOK
  <2>2. o \in Outcomes("AddExclusion", fd, parks, registered[c], parking[c])
    OBVIOUS
  <2> HIDE DEF c, fd, parks
  <2>3. /\ o.res # "Ok" => o.registered = registered[c]
        /\ o.res = "Ok" => fd \notin registered[c] /\ o.registered = registered[c] \cup {fd}
    BY <1>3, <2>2, ExclusiveOutcome
  <2>4. QED BY <2>1, <2>3
<1>6. CASE o.res = "Ok"
  <2>1. /\ fd \notin registered[c] /\ registered'[c] = registered[c] \cup {fd}
        /\ todo'[d] = Tail(t) /\ UNCHANGED <<doing, record, stuck, left>>
    BY <1>4, <1>5, <1>6 DEF TypeInv, TypeOK
  <2>2. fd \notin Of(d) /\ Of(d)' = Of(d) \cup {fd}
    BY <1>2, <2>1 DEF Of
  <2>3. record[d] = <<>> /\ left[d] = {} /\ Of(d) = ToSet(B) \ ToSet(t)
    <3>1. CASE t = B
      <4>1. record[d] # B
        BY <1>1, <1>2, <2>2, <3>1 DEF RegisterInv
      <4>2. B[1] = fd
        BY <1>1, <3>1
      <4>3. left[d] = {} /\ record[d] = <<>>
        BY <1>1, <2>2, <3>1, <4>1, <4>2 DEF RegisterInv, RecordOrLeft
      <4>4. Of(d) = {}
        BY <1>1, <3>1, <4>3, WholeSuffix DEF RegisterInv
      <4>5. QED BY <3>1, <4>3, <4>4
    <3>2. CASE t # B
      BY <1>1, <3>2 DEF RegisterInv
    <3>3. QED BY <3>1, <3>2
  <2>4. Of(d)' = ToSet(B) \ ToSet(Tail(t))
    BY <1>2, <2>2, <2>3
  <2>5. Len(Tail(t)) < Len(B)
    BY <1>1, <1>2 DEF SuffixOf
  <2>6. RegisterInv(d)'
    BY <1>2, <2>1, <2>3, <2>4, <2>5 DEF RegisterInv
  <2>7. RecordOrLeft(d)'
    BY <1>1, <2>1 DEF RecordOrLeft
  <2>8. QED BY <1>1, <2>1, <2>6, <2>7 DEF SimpleInv
<1>7. CASE o.res # "Ok"
  <2>1. /\ registered'[c] = registered[c] /\ UpdateFails(d)
    BY <1>4, <1>5, <1>7
  <2>2. /\ Of(d)' = Of(d) /\ record' = record /\ stuck' = stuck /\ doing'[d] = "idle"
        /\ left'[d] = left[d] \cup (ToSet(B) \ ToSet(t))
    BY <2>1 DEF Of, UpdateFails, Added, TypeInv, TypeOK
  <2>3. CASE t = B
    <3>1. left'[d] = left[d] /\ Of(d) = ToSet(record[d]) \cup left[d]
      BY <1>1, <2>2, <2>3 DEF RegisterInv
    <3>2. QED BY <1>1, <2>2, <3>1 DEF SimpleInv, RecordOrLeft
  <2>4. CASE t # B
    <3>1. /\ record[d] = <<>> /\ left'[d] = ToSet(B) \ ToSet(t)
          /\ Of(d) = left'[d] /\ Len(t) < Len(B)
      BY <1>1, <2>2, <2>4 DEF RegisterInv
    <3>2. B[1] \in left'[d] /\ B # <<>> /\ ToSet(<<>>) = {}
      BY <1>1, <1>2, <3>1, WholeSuffix
    <3>3. QED BY <1>1, <2>2, <3>1, <3>2 DEF SimpleInv, RecordOrLeft
  <2>5. QED BY <2>3, <2>4
<1>8. QED BY <1>6, <1>7

(* A request of an unregister takes back what is on record, and succeeds.   *)
LEMMA SimpleUnregisters ==
  ASSUME TypeInv, NEW d \in Devices, Simple(d), SimpleInv(d),
         doing[d] = "unregister", UpdateNext(d)
  PROVE  SimpleInv(d)'
<1> DEFINE c == CtxOf[d]
           B == BatchOf[d]
           t == todo[d]
           fd == Head(t)
           parks == fd \in Parking
<1>1. /\ B \in Seq(Fds) /\ t \in Seq(Fds) /\ t # <<>> /\ c \in Ctxs
      /\ record[d] \in Seq(Fds) /\ SuffixOf(t, record[d]) /\ RecordOrLeft(d)
      /\ Of(d) = ToSet(t) \cup left[d] /\ d \notin stuck
  BY SimpleBatch, BatchTyped DEF UpdateNext, TypeInv, TypeOK, SimpleInv, UnregisterInv
<1>2. record[d] # <<>>
  BY <1>1 DEF SuffixOf
<1>3. record[d] = B /\ left[d] = {} /\ IsInjective(record[d])
  BY <1>1, <1>2, SimpleBatch DEF RecordOrLeft
<1>4. /\ Tail(t) \in Seq(Fds) /\ SuffixOf(Tail(t), record[d])
      /\ fd \in ToSet(t) /\ ToSet(t) = ToSet(Tail(t)) \cup {fd}
      /\ fd \notin ToSet(Tail(t))
  BY <1>1, <1>3, SuffixTail, SuffixOnce
<1>5. fd \in registered[c] /\ fd \in ToSet(B)
  BY <1>1, <1>3, <1>4 DEF Of
<1>6. fd \notin parking[c]
  BY <1>1, <1>5, SimpleBatch DEF TypeInv, TypeOK
<1>7. PICK o \in Outcomes("Delete", fd, parks, registered[c], parking[c]) :
        /\ registered' = [registered EXCEPT ![c] = o.registered]
        /\ IF o.res = "Ok"
           THEN /\ todo' = [todo EXCEPT ![d] = Tail(@)]
                /\ UNCHANGED <<doing, record, stuck, left>>
           ELSE UpdateFails(d)
  BY DEF UpdateNext
<1>8. o.res = "Ok" /\ o.registered = registered[c] \ {fd}
  <2>1. o \in Outcomes("Delete", fd, parks, registered[c], parking[c])
    OBVIOUS
  <2> HIDE DEF c, fd, parks
  <2>2. QED BY <1>5, <1>6, <2>1, DeleteOutcome
<1>9. /\ registered'[c] = registered[c] \ {fd} /\ todo'[d] = Tail(t)
      /\ UNCHANGED <<doing, record, stuck, left>>
  BY <1>1, <1>7, <1>8 DEF TypeInv, TypeOK
<1>10. Of(d)' = Of(d) \ {fd}
  BY <1>9 DEF Of
<1>11. UnregisterInv(d)'
  BY <1>1, <1>3, <1>4, <1>9, <1>10 DEF UnregisterInv
<1>12. RecordOrLeft(d)'
  BY <1>1, <1>9 DEF RecordOrLeft
<1>13. QED BY <1>1, <1>9, <1>11, <1>12 DEF SimpleInv

(* A helper that returns leaves the record of what is registered.           *)
LEMMA SimpleReturns ==
  ASSUME TypeInv, NEW d \in Devices, Simple(d), SimpleInv(d), HelperReturns(d)
  PROVE  SimpleInv(d)'
<1> DEFINE B == BatchOf[d]
<1>1. /\ B \in Seq(Fds) /\ todo[d] = <<>> /\ record[d] \in Seq(Fds) /\ RecordOrLeft(d)
      /\ doing'[d] = "idle" /\ record'[d] = Recorded(d) /\ d \notin stuck
      /\ UNCHANGED <<registered, stuck, left>> /\ Of(d)' = Of(d)
  BY SimpleBatch DEF HelperReturns, SimpleInv, Of, TypeInv, TypeOK, fdVars
<1>2. ToSet(<<>>) = {} /\ Len(<<>>) = 0
  BY DEF ToSet
<1>3. CASE doing[d] = "register"
  <2>1. RegisterInv(d) /\ record'[d] = record[d] \o B
    BY <1>1, <1>3 DEF SimpleInv, Recorded
  <2>2. CASE B = <<>>
    <3>1. record[d] = <<>> /\ record'[d] = <<>>
      BY <1>1, <2>1, <2>2 DEF RecordOrLeft
    <3>2. left[d] = {} /\ Of(d) = {}
      BY <1>1, <1>2, <2>1, <2>2, <3>1 DEF RecordOrLeft, RegisterInv
    <3>3. QED BY <1>1, <1>2, <3>1, <3>2 DEF SimpleInv, RecordOrLeft
  <2>3. CASE B # <<>>
    <3>1. record[d] = <<>> /\ left[d] = {} /\ Of(d) = ToSet(B)
      BY <1>1, <1>2, <2>1, <2>3 DEF RegisterInv
    <3>2. record'[d] = B
      BY <1>1, <2>1, <3>1
    <3>3. QED BY <1>1, <3>1, <3>2 DEF SimpleInv, RecordOrLeft
  <2>4. QED BY <2>2, <2>3
<1>4. CASE doing[d] = "unregister"
  <2>1. record'[d] = <<>> /\ Of(d) = left[d]
    BY <1>1, <1>2, <1>4 DEF SimpleInv, UnregisterInv, Recorded
  <2>2. QED BY <1>1, <1>2, <2>1 DEF SimpleInv, RecordOrLeft
<1>5. QED BY <1>3, <1>4 DEF HelperReturns

(* What the helpers of other devices do leaves the invariant of a simple    *)
(* device alone.                                                            *)
LEMMA OthersStep ==
  ASSUME TypeInv, NEW d \in Devices, Simple(d), SimpleInv(d), NEW e \in Devices \ {d},
         \/ register_event_helper(e) \/ unregister_event_helper(e)
         \/ UpdateNext(e) \/ HelperReturns(e)
  PROVE  SimpleInv(d)'
<1>1. CASE register_event_helper(e) \/ unregister_event_helper(e) \/ HelperReturns(e)
  <2>1. Of(d)' = Of(d)
    BY <1>1 DEF register_event_helper, unregister_event_helper, Begin, HelperReturns, Of, fdVars
  <2>2. /\ todo'[d] = todo[d] /\ record'[d] = record[d] /\ left'[d] = left[d]
        /\ doing'[d] = doing[d] /\ stuck' = stuck
    BY <1>1 DEF register_event_helper, unregister_event_helper, Begin, HelperReturns,
                TypeInv, TypeOK
  <2>3. QED BY <2>1, <2>2, SimpleFrame DEF SimpleInv
<1>2. CASE UpdateNext(e)
  <2>1. Of(d)' = Of(d)
    BY <1>2, SimpleBatch, OthersKeep
  <2>2. /\ todo'[d] = todo[d] /\ record'[d] = record[d] /\ left'[d] = left[d]
        /\ doing'[d] = doing[d] /\ stuck' \subseteq stuck \cup {e}
    BY <1>2 DEF UpdateNext, UpdateFails, TypeInv, TypeOK
  <2>3. QED BY <2>1, <2>2, SimpleFrame DEF SimpleInv
<1>3. QED BY <1>1, <1>2

LEMMA RecordStep == TypeInv /\ RecordInv /\ [Next]_vars => RecordInv'
<1> SUFFICES ASSUME TypeInv, [Next]_vars, NEW d \in Devices, Simple(d), SimpleInv(d)
             PROVE  SimpleInv(d)'
  BY DEF RecordInv, Simple, Own
<1>1. ASSUME UNCHANGED fdVars, UNCHANGED deviceVars PROVE SimpleInv(d)'
  BY <1>1, SimpleFrame DEF fdVars, deviceVars, Of, SimpleInv
<1>2. CASE \/ InitFirst \/ InitAgain \/ SpawnNext \/ RunMain \/ SetManager \/ Round
           \/ UNCHANGED vars
  BY <1>1, <1>2
  DEF InitFirst, InitAgain, SpawnNext, RunMain, SetManager, Round, vars
<1>3. CASE register_event_helper(d) \/ unregister_event_helper(d)
  BY <1>3, SimpleBegins
<1>4. CASE UpdateNext(d)
  BY <1>4, SimpleRegisters, SimpleUnregisters DEF UpdateNext
<1>5. CASE HelperReturns(d)
  BY <1>5, SimpleReturns
<1>6. ASSUME NEW e \in Devices \ {d},
             \/ register_event_helper(e) \/ unregister_event_helper(e)
             \/ UpdateNext(e) \/ HelperReturns(e)
      PROVE  SimpleInv(d)'
  BY <1>6, OthersStep
<1>7. QED BY <1>2, <1>3, <1>4, <1>5, <1>6 DEF Next

LEMMA RecordAlways == Spec => [](TypeInv /\ RecordInv)
BY InitType, TypeStep, RecordInit, RecordStep, PTL DEF Spec

(* What is registered for a simple device that is in no helper is on its    *)
(* record, or was left by a register of its own that failed.                *)
THEOREM RecordsStayTrue == Spec => []RecordsAreTrue
<1>1. TypeInv /\ RecordInv => RecordsAreTrue
  <2> SUFFICES ASSUME TypeInv, RecordInv, NEW d \in Devices, Simple(d), doing[d] = "idle"
               PROVE  /\ Of(d) = ToSet(record[d]) \cup left[d]
                      /\ ToSet(record[d]) \cap left[d] = {}
    BY DEF RecordsAreTrue, Of
  <2>1. ToSet(<<>>) = {}
    BY DEF ToSet
  <2>2. QED BY <2>1 DEF RecordInv, SimpleInv, RecordOrLeft
<1>2. QED BY <1>1, RecordAlways, PTL

(* A simple device's unregister never fails.                                *)
THEOREM UnregistersSucceed == Spec => []UnregisterSucceeds
<1>1. TypeInv /\ RecordInv => UnregisterSucceeds
  BY DEF TypeInv, TypeOK, RecordInv, SimpleInv, UnregisterSucceeds
<1>2. QED BY <1>1, RecordAlways, PTL
=============================================================================
