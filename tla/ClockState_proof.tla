-------------------------- MODULE ClockState_proof --------------------------
(***************************************************************************)
(* Proofs about ClockState, for every bound of the clock and every order   *)
(* of calls.                                                               *)
(*                                                                         *)
(* What a running clock shows says nothing of `paused`, which a repeated   *)
(* enable goes back to, and what a disabled one keeps says nothing of      *)
(* `elapsed`, which a repeated disable reads again.  IInv bounds the value *)
(* that is not in use as well.                                             *)
(***************************************************************************)
EXTENDS ClockState, TLAPS

Typed == /\ now \in 0..MaxTime /\ enabled \in BOOLEAN
         /\ paused \in Nat /\ elapsed \in Nat /\ ran \in 0..now
         /\ twice \subseteq {"enable", "disable"}

FastKept == "disable" \notin twice => paused <= ran /\ Kept <= ran
SlowKept == "enable" \notin twice => (~enabled => paused <= now - elapsed) /\ Kept >= ran

IInv == Typed /\ NoUnderflow /\ FastKept /\ SlowKept

LEMMA InitInductive == Init => IInv
<1>a. Init => enabled \in BOOLEAN
  BY DEF Init
<1>b. Init => /\ now \in 0..MaxTime /\ paused \in 0..now /\ elapsed \in 0..now
              /\ ran \in 0..now /\ twice \subseteq {"enable", "disable"}
  BY ClockAssumption DEF Init
<1>1. Init => Typed /\ NoUnderflow
  BY <1>a, <1>b DEF Typed, NoUnderflow
<1>2. Init => FastKept /\ SlowKept
  BY DEF Init, FastKept, SlowKept, Kept
<1>3. QED BY <1>1, <1>2 DEF IInv

LEMMA Inductive ==
  ASSUME IInv, [Next]_vars
  PROVE  IInv'
<1>1. CASE enable
  <2>a. now' = now /\ ran' = ran /\ paused' \in 0..now /\ elapsed' \in 0..now
    BY <1>1 DEF enable, IInv, Typed, NoUnderflow
  <2>b. enabled' \in BOOLEAN /\ twice' \subseteq {"enable", "disable"}
    BY <1>1 DEF enable, IInv, Typed
  <2>1. Typed' /\ NoUnderflow'
    BY <2>a, <2>b DEF IInv, Typed, NoUnderflow
  <2>2. Kept' = paused
    BY <1>1 DEF enable, IInv, Typed, Kept
  <2>3. FastKept'
    BY <1>1, <2>2 DEF enable, IInv, FastKept
  <2>4. SlowKept'
    <3>1. CASE enabled
      BY <1>1, <3>1 DEF enable, SlowKept
    <3>2. CASE ~enabled
      BY <1>1, <2>2, <3>2 DEF enable, IInv, Typed, SlowKept, Kept
    <3>3. QED BY <3>1, <3>2
  <2>5. QED BY <2>1, <2>3, <2>4 DEF IInv
<1>2. CASE disable
  <2>a. now' = now /\ ran' = ran /\ paused' \in 0..now /\ elapsed' \in 0..now
    BY <1>2 DEF disable, IInv, Typed, NoUnderflow
  <2>b. enabled' \in BOOLEAN /\ twice' \subseteq {"enable", "disable"}
    BY <1>2 DEF disable, IInv, Typed
  <2>1. Typed' /\ NoUnderflow'
    BY <2>a, <2>b DEF IInv, Typed, NoUnderflow
  <2>2. Kept' = now - elapsed /\ paused' = now - elapsed
    BY <1>2 DEF disable, IInv, Typed, Kept
  <2>3. FastKept'
    BY <1>2, <2>2 DEF disable, IInv, FastKept, Kept
  <2>4. SlowKept'
    BY <1>2, <2>2 DEF disable, IInv, Typed, NoUnderflow, SlowKept, Kept
  <2>5. QED BY <2>1, <2>3, <2>4 DEF IInv
<1>3. CASE TimePasses
  <2>1. Typed' /\ NoUnderflow'
    BY <1>3, ClockAssumption DEF TimePasses, IInv, Typed, NoUnderflow
  <2>2. FastKept' /\ SlowKept'
    BY <1>3 DEF TimePasses, IInv, Typed, FastKept, SlowKept, Kept
  <2>3. QED BY <2>1, <2>2 DEF IInv
<1>4. CASE UNCHANGED vars
  BY <1>4 DEF vars, IInv, Typed, NoUnderflow, FastKept, SlowKept, Kept
<1>5. QED BY <1>1, <1>2, <1>3, <1>4 DEF Next

(* Every variable has its type in every reachable state, so that every      *)
(* Duration the clock computes is one.                                      *)
THEOREM TypeCorrect == Spec => []TypeOK
<1>1. IInv => TypeOK
  BY ClockAssumption DEF IInv, Typed, NoUnderflow, TypeOK
<1>2. QED BY <1>1, Inductive, InitInductive, PTL DEF Spec

(* No order of calls makes a subtraction of the clock underflow.            *)
THEOREM NeverUnderflows == Spec => []NoUnderflow
<1>1. IInv => NoUnderflow
  BY DEF IInv
<1>2. QED BY <1>1, Inductive, InitInductive, PTL DEF Spec

(* Only a repeated disable can make the clock gain time, and only a         *)
(* repeated enable can make it lose time.                                   *)
THEOREM KeptTimeIsTrue == Spec => []OnlyRepeatsDistort
<1>1. IInv => OnlyRepeatsDistort
  BY DEF IInv, FastKept, SlowKept, OnlyRepeatsDistort
<1>2. QED BY <1>1, Inductive, InitInductive, PTL DEF Spec
=============================================================================
