----------------------------- MODULE FdOutcomes -----------------------------
(***************************************************************************)
(* What one request to an EventLoopContext (epoll/src/event_context.rs)    *)
(* may return, and which descriptors are registered after it: the view of  *)
(* those who call update_events.  reg is the set of registered descriptors *)
(* and park the set of those whose notifier names a parked_fd; parks says  *)
(* whether the request, if it is an add, names one.                        *)
(***************************************************************************)
AddOps     == {"AddExclusion", "AddShared"}
RequestOps == AddOps \cup {"Modify", "Park", "Resume", "Delete"}

Returns(results, reg, park) ==
  {[res |-> res, registered |-> reg, parking |-> park] : res \in results}

(* The failures of a request that meets, or had to change, a parked_fd.     *)
ParkingFails == {"NoParkedFd", "Syscall"}

AddOutcomes(op, fd, parks, reg, park) ==
  CASE fd \notin reg ->
         Returns({"Ok"}, reg \cup {fd}, IF parks THEN park \cup {fd} ELSE park)
         \cup Returns(IF parks THEN ParkingFails ELSE {"Syscall"}, reg, park)
    [] fd \in reg /\ op = "AddShared"    -> Returns({"Ok", "Syscall"}, reg, park)
    [] fd \in reg /\ op = "AddExclusion" -> Returns({"BadNotifierOperation"}, reg, park)

Outcomes(op, fd, parks, reg, park) ==
  CASE op \in AddOps -> AddOutcomes(op, fd, parks, reg, park)
    [] op \notin AddOps /\ fd \notin reg -> Returns({"NoRegisterFd"}, reg, park)
    [] op = "Modify" /\ fd \in reg -> Returns({"Ok"}, reg, park)
    [] op \in {"Park", "Resume"} /\ fd \in reg -> Returns({"Ok", "Syscall"}, reg, park)
    [] op = "Delete" /\ fd \in reg ->
         Returns({"Ok"} \cup (IF fd \in park THEN ParkingFails ELSE {}),
                 reg \ {fd}, park \ {fd})
=============================================================================
