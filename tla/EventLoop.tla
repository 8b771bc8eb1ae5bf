----------------------------- MODULE EventLoop -----------------------------
(***************************************************************************)
(* The global event loop (epoll/src/event_loop.rs): loop_init, the threads *)
(* of its contexts and their managers; and the devices that register their *)
(* descriptors with a context through register_event_helper and take them  *)
(* back with unregister_event_helper (epoll/src/utils.rs).                 *)
(*                                                                         *)
(* A context is what FdOutcomes says of it.  A batch is applied request by *)
(* request, and requests of other devices come in between; it ends with    *)
(* its first failure.                                                      *)
(*                                                                         *)
(* GLOBAL_EVENT_LOOP is a static mut: loop_init is called by one thread at *)
(* a time, as two at once have no defined meaning.                         *)
(***************************************************************************)
EXTENDS FdOutcomes, Naturals, Sequences, SequencesExt

CONSTANTS
  Names,      (* ids of io threads                                          *)
  Main,       (* the main loop's context                                    *)
  Devices,    (* callers of the helpers                                     *)
  Fds,        (* the descriptors of the devices                             *)
  BatchOf,    (* device -> the descriptors it registers, in order           *)
  OpOf,       (* device -> the operation it registers them with             *)
  CtxOf,      (* device -> the context it names                             *)
  Parking,    (* descriptors whose request names a parked_fd                *)
  MaxRecord   (* bounds the descriptors a device has on record              *)

Ctxs == Names \cup {Main}

ASSUME LoopAssumption ==
  /\ Main \notin Names
  /\ BatchOf \in [Devices -> Seq(Fds)]
  /\ OpOf \in [Devices -> AddOps]
  /\ CtxOf \in [Devices -> Ctxs]
  /\ Parking \subseteq Fds
  /\ MaxRecord \in Nat

VARIABLES
  contexts,    (* contexts in GLOBAL_EVENT_LOOP, {} while it is None        *)
  spawning,    (* threads that a loop_init under way has still to start     *)
  inits,       (* what the calls of loop_init have returned so far          *)
  thread,      (* the thread that runs a context                            *)
  managed,     (* contexts that have a manager                              *)
  registered, parking,   (* of each context, as in FdOutcomes               *)
  doing,       (* the helper a device is in                                 *)
  todo,        (* descriptors of its batch that are still to be applied     *)
  record,      (* its record_evts                                           *)
  stuck,       (* history: devices an unregister of which has failed        *)
  left         (* history: what the failed registers of a device had added  *)

initVars   == <<contexts, spawning, inits>>
threadVars == <<thread, managed>>
fdVars     == <<registered, parking>>
deviceVars == <<doing, todo, record, stuck, left>>
vars       == <<initVars, threadVars, fdVars, deviceVars>>

Init ==
  /\ contexts = {} /\ spawning = {} /\ inits = {}
  /\ thread = [c \in Ctxs |-> "none"] /\ managed = {}
  /\ registered = [c \in Ctxs |-> {}] /\ parking = [c \in Ctxs |-> {}]
  /\ doing = [d \in Devices |-> "idle"] /\ todo = [d \in Devices |-> <<>>]
  /\ record = [d \in Devices |-> <<>>]
  /\ stuck = {} /\ left = [d \in Devices |-> {}]

-----------------------------------------------------------------------------
(* loop_init, when there is no loop yet: all contexts are in place before   *)
(* the first thread is started, and a thread that does not start ends the   *)
(* call.  When there is a loop, Ok is returned and the contexts made for    *)
(* the names are dropped.                                                   *)
InitOk(rest) == inits' = IF rest = {} THEN inits \cup {"Ok"} ELSE inits

InitFirst ==
  /\ contexts = {}
  /\ \E names \in SUBSET Names :
       contexts' = names \cup {Main} /\ spawning' = names /\ InitOk(names)
  /\ UNCHANGED <<threadVars, fdVars, deviceVars>>

InitAgain ==
  /\ contexts # {} /\ spawning = {}
  /\ InitOk({})
  /\ UNCHANGED <<contexts, spawning, threadVars, fdVars, deviceVars>>

SpawnFailsOrSkips(c) ==            \* faulty: a thread that does not start is skipped
  /\ spawning' = spawning \ {c} /\ InitOk(spawning')
  /\ UNCHANGED thread
SpawnFails(c) ==
  /\ spawning' = {} /\ inits' = inits \cup {"Err"}
  /\ UNCHANGED thread

SpawnStarts(c) ==
  /\ spawning' = spawning \ {c} /\ InitOk(spawning')
  /\ thread' = [thread EXCEPT ![c] = "running"]

SpawnNext ==
  /\ \E c \in spawning : SpawnStarts(c) \/ SpawnFails(c)
  /\ UNCHANGED <<contexts, managed, fdVars, deviceVars>>

(* loop_run, on the thread that called loop_init.                           *)
RunMain ==
  /\ contexts # {} /\ spawning = {} /\ thread[Main] # "running"
  /\ thread' = [thread EXCEPT ![Main] = "running"]
  /\ UNCHANGED <<initVars, managed, fdVars, deviceVars>>

(* set_manager: a name that no context has is ignored.                      *)
get_ctx_any(c) == {c}              \* faulty: an unknown name gets a context
get_ctx(c) == {c} \cap contexts

SetManager ==
  /\ contexts # {}
  /\ \E c \in Ctxs : managed' = managed \cup get_ctx(c)
  /\ UNCHANGED <<initVars, thread, fdVars, deviceVars>>

(* run and io_thread_run, as their callers use them: the manager, if there  *)
(* is one, may ask for the end; otherwise a round is made (EventDispatch).  *)
(* Ok(false) and any error end the loop.                                    *)
Asked(c)      == c \in managed /\ thread' = [thread EXCEPT ![c] = "asked"]
RoundFails(c) == thread' = [thread EXCEPT ![c] = "failed"]
                                   (* loop_cleanup, ppoll or epoll_wait     *)

Round ==
  /\ \E c \in Ctxs :
       /\ thread[c] = "running"
       /\ Asked(c) \/ RoundFails(c)
  /\ UNCHANGED <<initVars, managed, fdVars, deviceVars>>

-----------------------------------------------------------------------------
(* The helpers.  A device does one at a time.  update_event panics while    *)
(* there is no loop, and fails, with nothing changed, when it has no        *)
(* context of the given name.                                               *)
Begin(d, op, fds) ==
  /\ doing[d] = "idle"
  /\ contexts # {} => get_ctx(CtxOf[d]) # {}
  /\ doing' = [doing EXCEPT ![d] = IF contexts = {} THEN "panicked" ELSE op]
  /\ todo' = [todo EXCEPT ![d] = IF contexts = {} THEN <<>> ELSE fds]
  /\ UNCHANGED <<initVars, threadVars, fdVars, record, stuck, left>>

register_event_helper(d) ==
  /\ Len(record[d]) + Len(BatchOf[d]) <= MaxRecord
  /\ Begin(d, "register", BatchOf[d])
unregister_event_helper(d) == Begin(d, "unregister", record[d])

(* update_events: the next request, or the end of the batch at its first    *)
(* failure, which the helper returns at once.                               *)
Added(d) ==
  IF doing[d] = "register" THEN ToSet(BatchOf[d]) \ ToSet(todo[d]) ELSE {}

Recorded(d) == IF doing[d] = "register" THEN record[d] \o BatchOf[d] ELSE <<>>

UpdateFailsRecorded(d) ==          \* faulty: the record is changed before the `?`
  /\ doing' = [doing EXCEPT ![d] = "idle"]
  /\ todo' = [todo EXCEPT ![d] = <<>>]
  /\ record' = [record EXCEPT ![d] = Recorded(d)]
  /\ stuck' = IF doing[d] = "unregister" THEN stuck \cup {d} ELSE stuck
  /\ left' = [left EXCEPT ![d] = @ \cup Added(d)]
UpdateFails(d) ==
  /\ doing' = [doing EXCEPT ![d] = "idle"]
  /\ todo' = [todo EXCEPT ![d] = <<>>]
  /\ UNCHANGED record
  /\ stuck' = IF doing[d] = "unregister" THEN stuck \cup {d} ELSE stuck
  /\ left' = [left EXCEPT ![d] = @ \cup Added(d)]

UpdateNext(d) ==
  LET c  == CtxOf[d]
      fd == Head(todo[d])
      op == IF doing[d] = "register" THEN OpOf[d] ELSE "Delete"
  IN  /\ doing[d] \in {"register", "unregister"} /\ todo[d] # <<>>
      /\ \E o \in Outcomes(op, fd, fd \in Parking, registered[c], parking[c]) :
           /\ registered' = [registered EXCEPT ![c] = o.registered]
           /\ parking' = [parking EXCEPT ![c] = o.parking]
           /\ IF o.res = "Ok"
              THEN /\ todo' = [todo EXCEPT ![d] = Tail(@)]
                   /\ UNCHANGED <<doing, record, stuck, left>>
              ELSE UpdateFails(d)
      /\ UNCHANGED <<initVars, threadVars>>

(* The batch is done: only now is the record changed.                       *)
HelperReturnsKeeping(d) ==         \* faulty: the record is not cleared
  /\ doing[d] \in {"register", "unregister"} /\ todo[d] = <<>>
  /\ record' = IF doing[d] = "register" THEN [record EXCEPT ![d] = Recorded(d)] ELSE record
  /\ doing' = [doing EXCEPT ![d] = "idle"]
  /\ UNCHANGED <<initVars, threadVars, fdVars, todo, stuck, left>>
HelperReturns(d) ==
  /\ doing[d] \in {"register", "unregister"} /\ todo[d] = <<>>
  /\ record' = [record EXCEPT ![d] = Recorded(d)]
  /\ doing' = [doing EXCEPT ![d] = "idle"]
  /\ UNCHANGED <<initVars, threadVars, fdVars, todo, stuck, left>>

Next ==
  \/ InitFirst \/ InitAgain \/ SpawnNext
  \/ RunMain \/ SetManager \/ Round
  \/ \E d \in Devices : \/ register_event_helper(d) \/ unregister_event_helper(d)
                        \/ UpdateNext(d) \/ HelperReturns(d)

Spec == Init /\ [][Next]_vars

-----------------------------------------------------------------------------
(* Every variable has its type.                                             *)
TypeOK ==
  /\ contexts \subseteq Ctxs /\ spawning \subseteq contexts \ {Main}
  /\ inits \subseteq {"Ok", "Err"}
  /\ thread \in [Ctxs -> {"none", "running", "asked", "failed"}]
  /\ managed \subseteq contexts
  /\ registered \in [Ctxs -> SUBSET Fds] /\ parking \in [Ctxs -> SUBSET Parking]
  /\ doing \in [Devices -> {"idle", "register", "unregister", "panicked"}]
  /\ todo \in [Devices -> Seq(Fds)] /\ record \in [Devices -> Seq(Fds)]
  /\ stuck \subseteq Devices /\ left \in [Devices -> SUBSET Fds]

(* When every loop_init has returned Ok, each context that update_event can *)
(* reach has had a thread of its own to serve it: what is registered there  *)
(* is not registered in vain.  After a failed call a later one returns Ok   *)
(* all the same and starts nothing.                                         *)
InitServes ==
  inits = {"Ok"} => \A c \in contexts \ {Main} : thread[c] # "none"

(* The devices whose descriptors no other device of their context names.    *)
Own(d) ==
  \A e \in Devices \ {d} :
    CtxOf[e] = CtxOf[d] => ToSet(BatchOf[e]) \cap ToSet(BatchOf[d]) = {}

(* Of these, the ones that add exclusively and park nothing.                *)
Simple(d) ==
  /\ Own(d) /\ OpOf[d] = "AddExclusion"
  /\ ToSet(BatchOf[d]) \cap Parking = {} /\ IsInjective(BatchOf[d])

(* Whenever such a device is in none of its helpers, what is registered for *)
(* it is on its record, or was left by a register of its own that failed in *)
(* the middle of the batch; and what was left stays, off the record,        *)
(* whatever the helpers are called for next.                                *)
RecordsAreTrue ==
  \A d \in Devices : Simple(d) /\ doing[d] = "idle" =>
    /\ registered[CtxOf[d]] \cap ToSet(BatchOf[d]) = ToSet(record[d]) \cup left[d]
    /\ ToSet(record[d]) \cap left[d] = {}

(* Such a device can always take back what it has on record, also after a   *)
(* register that failed in the middle of its batch.                         *)
UnregisterSucceeds == \A d \in stuck : ~Simple(d)
=============================================================================
