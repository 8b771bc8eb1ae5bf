----------------------------- MODULE FdRegistry -----------------------------
(***************************************************************************)
(* What EventLoopContext (epoll/src/event_context.rs) promises those who   *)
(* call update_events, request by request, without boxes, kernel entries   *)
(* or statuses: which descriptors are registered, and what each request    *)
(* answers.  EventRegistry implements it; EventLoop puts threads, batches  *)
(* and the records of the devices on top of the same outcomes.             *)
(***************************************************************************)
EXTENDS FdOutcomes

CONSTANT Fds    (* the descriptors, the loop's own included                 *)

VARIABLES
  registered,   (* descriptors in the map                                   *)
  parking,      (* those whose notifier names a parked_fd                   *)
  answer        (* the last request and what it returned                    *)

fdVars == <<registered, parking, answer>>

(* The loop's own eventfd is registered by EventLoopContext::new.           *)
Init ==
  /\ \E kick \in Fds :
       /\ registered = {kick}
       /\ answer = [op |-> "AddExclusion", fd |-> kick, res |-> "Ok"]
  /\ parking = {}

Answer(op, fd) ==
  \E parks \in BOOLEAN :
    \E o \in Outcomes(op, fd, parks, registered, parking) :
      /\ registered' = o.registered
      /\ parking' = o.parking
      /\ answer' = [op |-> op, fd |-> fd, res |-> o.res]

Next == \E op \in RequestOps, fd \in Fds : Answer(op, fd)

Spec == Init /\ [][Next]_fdVars
=============================================================================
