------------------------------- MODULE BitSet -------------------------------
(***************************************************************************)
(* What a Bitmap promises (utils/src/bitmap.rs): a set of numbers below    *)
(* its volume.  A number out of range is refused.  A range is applied as   *)
(* far as the bitmap goes, and refused as well if it goes on beyond.       *)
(***************************************************************************)
EXTENDS Integers

CONSTANTS
  Vols,    (* the volumes that a new bitmap may have                        *)
  Numbers  (* the numbers callers pass                                      *)

VARIABLES
  bits,    (* the numbers that are set                                      *)
  vol,     (* the volume; get_data leaves none                              *)
  result   (* what the last call returned                                   *)

vars == <<bits, vol, result>>

Init == bits = {} /\ vol \in Vols /\ result = "Ok"

Return(ok) == result' = (IF ok THEN "Ok" ELSE "Err")

(* One number is set, cleared or changed.                                   *)
ToOne(num, new) ==
  /\ bits' = IF num < vol THEN new ELSE bits
  /\ Return(num < vol)
  /\ vol' = vol

Set(num)    == ToOne(num, bits \cup {num})
Clear(num)  == ToOne(num, bits \ {num})
Change(num) == ToOne(num, (bits \ {num}) \cup ({num} \ bits))

(* len numbers from start on are set or cleared.                            *)
Range(start, len) == start..(start + len - 1) \cap 0..(vol - 1)

ToRange(start, len, new) ==
  /\ bits' = new
  /\ Return(len = 0 \/ start + len <= vol)
  /\ vol' = vol

SetRange(start, len)   == ToRange(start, len, bits \cup Range(start, len))
ClearRange(start, len) == ToRange(start, len, bits \ Range(start, len))

ClearAll == bits' = {} /\ UNCHANGED <<vol, result>>

(* The contents are handed out and none are left behind.                    *)
GetData == bits' = {} /\ vol' = 0 /\ UNCHANGED result

Next ==
  \/ \E num \in Numbers : Set(num) \/ Clear(num) \/ Change(num)
  \/ \E start, len \in Numbers : SetRange(start, len) \/ ClearRange(start, len)
  \/ ClearAll
  \/ GetData

Spec == Init /\ [][Next]_vars
=============================================================================
