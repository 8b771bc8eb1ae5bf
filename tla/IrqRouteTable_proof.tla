------------------------ MODULE IrqRouteTable_proof ------------------------
(***************************************************************************)
(* Proofs about IrqRouteTable, for any number of devices and pins and any  *)
(* answer of KVM.                                                          *)
(*                                                                         *)
(* GsiAccounted says nothing of a table whose initialisation panicked, and *)
(* of one device after the other: IInv keeps that what devices hold is     *)
(* taken in every state, without which an allocation could give out a GSI  *)
(* twice.  RouteInv adds that a route is always of a taken GSI.            *)
(*                                                                         *)
(* Routes are filtered entry by entry.  What holds of every entry is       *)
(* proved by looking at the least one of which it does not: FromZeroUp.    *)
(***************************************************************************)
EXTENDS IrqRouteTable, WellFoundedInduction, TLAPS

Typed ==
  /\ gsi_count \in Nat
  /\ gsi_bitmap \subseteq Gsis
  /\ own \in [Devices -> SUBSET Gsis]

HeldIsTaken == \A d \in Devices : own[d] \subseteq gsi_bitmap
OneHolder   == \A d, e \in Devices : d # e => own[d] \cap own[e] = {}
OnlyHeld    == ~pinned => gsi_bitmap = Held
Settled     == /\ gsi_bitmap \subseteq Held \cup Pins
               /\ Pins \ gsi_bitmap \subseteq early /\ Held \cap Pins \subseteq early
HeldOrPin   == Initialised => Settled

IInv == /\ Typed /\ HeldIsTaken /\ OneHolder /\ OnlyHeld /\ HeldOrPin
        /\ RefusedWhenFull

(* A set of numbers that is not empty has a least member.                   *)
LEMMA LeastNumber ==
  ASSUME NEW S \in SUBSET Nat, S # {}
  PROVE  \E g \in S : \A f \in S : g <= f
<1> DEFINE R == OpToRel(<, Nat)
<1>1. IsWellFoundedOn(R, Nat)
  BY NatLessThanWellFounded
<1>2. \A x, y \in Nat : y < x => <<y, x>> \in R
  BY DEF OpToRel
<1> HIDE DEF R
<1>3. PICK g \in S : \A f \in S : <<f, g>> \notin R
  BY <1>1, WFMin
<1>4. ASSUME NEW f \in S PROVE g <= f
  <2>1. ~(f < g)
    BY <1>2, <1>3
  <2>2. QED BY <2>1
<1>5. QED BY <1>4

LEMMA VolIsNat == gsi_count \in Nat => vol \in Nat
BY IrqAssumption DEF vol

(* What allocate_gsi finds: a free GSI, or the volume if there is none.     *)
LEMMA NextFreeIsFree ==
  ASSUME Typed
  PROVE  /\ FreeGsis # {} => NextFree \in Gsis \ gsi_bitmap /\ NextFree < vol
         /\ FreeGsis = {} => NextFree = vol /\ gsi_bitmap = Gsis
<1>1. vol \in Nat
  BY VolIsNat DEF Typed
<1>2. FreeGsis = Gsis \ gsi_bitmap /\ Gsis = 0..(vol - 1)
  BY DEF FreeGsis, Gsis
<1>3. ASSUME FreeGsis # {} PROVE NextFree \in FreeGsis
  <2>1. FreeGsis \in SUBSET Nat
    BY <1>1, <1>2
  <2>2. \E g \in FreeGsis : \A f \in FreeGsis : g <= f
    BY <1>3, <2>1, LeastNumber
  <2>3. QED BY <1>3, <2>2 DEF NextFree
<1>4. FreeGsis # {} => NextFree < vol
  BY <1>1, <1>2, <1>3
<1>5. FreeGsis = {} => NextFree = vol
  BY DEF NextFree
<1>6. FreeGsis = {} => gsi_bitmap = Gsis
  BY <1>2 DEF Typed
<1>7. QED BY <1>2, <1>3, <1>4, <1>5, <1>6

LEMMA InitInductive == Init => IInv
<1> SUFFICES ASSUME Init PROVE IInv
  OBVIOUS
<1>1. gsi_count \in Nat
  BY IrqAssumption DEF Init, get_maximum_gsi_cnt
<1>2. gsi_bitmap = {} /\ ~pinned /\ result = "Ok" /\ own = [d \in Devices |-> {}]
  BY DEF Init
<1>3. Held = {}
  BY <1>2 DEF Held
<1>4. Typed
  BY <1>1, <1>2 DEF Typed
<1>5. HeldIsTaken /\ OneHolder /\ OnlyHeld
  BY <1>2, <1>3 DEF HeldIsTaken, OneHolder, OnlyHeld
<1>6. HeldOrPin /\ RefusedWhenFull
  BY <1>2 DEF HeldOrPin, Initialised, RefusedWhenFull
<1>7. QED BY <1>4, <1>5, <1>6 DEF IInv

LEMMA PinsInductive ==
  ASSUME IInv, init_irq_route_table
  PROVE  IInv'
<1>0. Typed /\ HeldIsTaken /\ OneHolder /\ ~pinned /\ gsi_bitmap = Held
  BY DEF IInv, OnlyHeld, init_irq_route_table
<1>1. own' = own /\ gsi_count' = gsi_count /\ Held' = Held /\ vol' = vol /\ Gsis' = Gsis
      /\ pinned' /\ early' = Held
  BY DEF init_irq_route_table, Held, vol, Gsis
<1>2. OneHolder'
  BY <1>0, <1>1 DEF OneHolder
<1>3. CASE IoapicPins <= vol
  <2>1. gsi_bitmap' = gsi_bitmap \cup Pins /\ result' = "Ok"
    BY <1>3 DEF init_irq_route_table, PinBits
  <2>2. Pins \subseteq Gsis
    BY <1>0, <1>3, VolIsNat, IrqAssumption DEF Pins, Gsis, Typed
  <2>3. Typed' /\ HeldIsTaken'
    BY <1>0, <1>1, <2>1, <2>2 DEF Typed, HeldIsTaken
  <2>4. HeldOrPin' /\ OnlyHeld'
    BY <1>0, <1>1, <2>1 DEF HeldOrPin, Settled, Initialised, OnlyHeld, Pins
  <2>5. RefusedWhenFull'
    BY <2>1 DEF RefusedWhenFull
  <2>6. QED BY <1>2, <2>3, <2>4, <2>5 DEF IInv
<1>4. CASE ~(IoapicPins <= vol)
  <2>1. gsi_bitmap' = gsi_bitmap \cup 0..(vol - 1) /\ result' = "Panic"
    BY <1>4 DEF init_irq_route_table
  <2>2. Typed' /\ HeldIsTaken'
    BY <1>0, <1>1, <2>1 DEF Typed, HeldIsTaken, Gsis
  <2>3. HeldOrPin' /\ OnlyHeld' /\ RefusedWhenFull'
    BY <1>1, <2>1 DEF HeldOrPin, Initialised, OnlyHeld, RefusedWhenFull
  <2>4. QED BY <1>2, <2>2, <2>3 DEF IInv
<1>5. QED BY <1>3, <1>4

LEMMA AllocateInductive ==
  ASSUME IInv, result # "Panic", NEW d \in Devices, allocate_gsi(d)
  PROVE  IInv'
<1> DEFINE g == NextFree
<1>0. Typed /\ HeldIsTaken /\ OneHolder /\ OnlyHeld /\ HeldOrPin
  BY DEF IInv
<1>1. gsi_count' = gsi_count /\ vol' = vol /\ Gsis' = Gsis /\ pinned' = pinned /\ early' = early
  BY DEF allocate_gsi, vol, Gsis
<1>a. /\ gsi_bitmap' = IF g < vol THEN gsi_bitmap \cup {g} ELSE gsi_bitmap
      /\ result' = IF g < vol THEN "Ok" ELSE "Err"
      /\ own' = [own EXCEPT ![d] = IF g < vol THEN @ \cup {g} ELSE @]
  BY DEF allocate_gsi, Bits!Set, Bits!ToOne, Bits!Return
<1>2. CASE FreeGsis # {}
  <2>1. g \in Gsis \ gsi_bitmap /\ g < vol
    BY <1>0, <1>2, NextFreeIsFree
  <2> HIDE DEF g
  <2>2. /\ gsi_bitmap' = gsi_bitmap \cup {g} /\ result' = "Ok"
        /\ own' = [own EXCEPT ![d] = @ \cup {g}]
    BY <1>a, <2>1
  <2>3. /\ own'[d] = own[d] \cup {g}
        /\ \A e \in Devices \ {d} : own'[e] = own[e]
    BY <1>0, <2>2 DEF Typed
  <2>4. Held' = Held \cup {g}
    BY <2>3 DEF Held
  <2>5. Typed'
    BY <1>0, <1>1, <2>1, <2>2 DEF Typed
  <2>6. HeldIsTaken' /\ OneHolder'
    BY <1>0, <2>1, <2>2, <2>3 DEF HeldIsTaken, OneHolder
  <2>7. OnlyHeld'
    BY <1>0, <1>1, <2>2, <2>4 DEF OnlyHeld
  <2>8. HeldOrPin'
    <3>1. SUFFICES ASSUME Initialised' PROVE Settled'
      BY DEF HeldOrPin
    <3>2. Settled
      BY <1>0, <1>1, <3>1 DEF HeldOrPin, Initialised
    <3>3. QED BY <1>1, <2>1, <2>2, <2>4, <3>2 DEF Settled, Pins
  <2>9. RefusedWhenFull'
    BY <2>2 DEF RefusedWhenFull
  <2>10. QED BY <2>5, <2>6, <2>7, <2>8, <2>9 DEF IInv
<1>3. CASE FreeGsis = {}
  <2>1. g = vol /\ gsi_bitmap = Gsis /\ vol \in Nat
    BY <1>0, <1>3, NextFreeIsFree, VolIsNat DEF Typed
  <2> HIDE DEF g
  <2>2. gsi_bitmap' = gsi_bitmap /\ result' = "Err" /\ own' = own
    BY <1>0, <1>a, <2>1 DEF Typed
  <2>3. Held' = Held
    BY <2>2 DEF Held
  <2>4. Typed' /\ HeldIsTaken' /\ OneHolder' /\ OnlyHeld'
    BY <1>0, <1>1, <2>2, <2>3 DEF Typed, HeldIsTaken, OneHolder, OnlyHeld
  <2>5. RefusedWhenFull'
    BY <1>1, <2>1, <2>2 DEF RefusedWhenFull
  <2>6. HeldOrPin'
    BY <1>0, <1>1, <2>2, <2>3 DEF HeldOrPin, Settled, Initialised, Pins
  <2>7. QED BY <2>4, <2>5, <2>6 DEF IInv
<1>4. QED BY <1>2, <1>3

LEMMA ReleaseInductive ==
  ASSUME IInv, result # "Panic", NEW d \in Devices, NEW gsi \in own[d], release_gsi(d, gsi)
  PROVE  IInv'
<1>0. Typed /\ HeldIsTaken /\ OneHolder /\ OnlyHeld /\ HeldOrPin
  BY DEF IInv
<1>1. gsi_count' = gsi_count /\ vol' = vol /\ Gsis' = Gsis /\ pinned' = pinned /\ early' = early
  BY DEF release_gsi, vol, Gsis
<1>2. gsi \in Gsis /\ gsi < vol
  BY <1>0, VolIsNat DEF Typed, Gsis
<1>3. /\ gsi_bitmap' = gsi_bitmap \ {gsi} /\ result' = "Ok"
      /\ own' = [own EXCEPT ![d] = @ \ {gsi}]
  BY <1>2 DEF release_gsi, Bits!Clear, Bits!ToOne, Bits!Return
<1>4. /\ own'[d] = own[d] \ {gsi}
      /\ \A e \in Devices \ {d} : own'[e] = own[e] /\ gsi \notin own[e]
  BY <1>0, <1>3 DEF Typed, OneHolder
<1>5. Held' = Held \ {gsi} /\ gsi \in Held
  BY <1>4 DEF Held
<1>6. Typed'
  BY <1>0, <1>1, <1>3 DEF Typed
<1>7. HeldIsTaken' /\ OneHolder'
  BY <1>0, <1>3, <1>4 DEF HeldIsTaken, OneHolder
<1>8. OnlyHeld'
  BY <1>0, <1>1, <1>3, <1>5 DEF OnlyHeld
<1>9. HeldOrPin'
  <2>1. SUFFICES ASSUME Initialised' PROVE Settled'
    BY DEF HeldOrPin
  <2>2. Settled
    BY <1>0, <1>1, <2>1 DEF HeldOrPin, Initialised
  <2>3. QED BY <1>1, <1>3, <1>5, <2>2 DEF Settled, Pins
<1>10. RefusedWhenFull'
  BY <1>3 DEF RefusedWhenFull
<1>11. QED BY <1>6, <1>7, <1>8, <1>9, <1>10 DEF IInv

LEMMA Inductive ==
  ASSUME IInv, [Next]_vars
  PROVE  IInv'
<1>1. ASSUME NEW d \in Devices, NEW gsi \in own[d], NEW v \in Vectors, result # "Panic",
             add_msi_route(d, gsi, v) \/ update_msi_route(d, gsi, v)
      PROVE  IInv'
  <2>1. UNCHANGED <<gsi_count, gsi_bitmap, pinned, own, early>> /\ result' = "Ok"
    BY <1>1 DEF add_msi_route, update_msi_route
  <2>2. QED
    BY <1>1, <2>1
       DEF IInv, Typed, HeldIsTaken, OneHolder, OnlyHeld, HeldOrPin, Settled, Initialised, Held, Pins,
           Gsis, vol, RefusedWhenFull
<1>2. CASE UNCHANGED vars
  BY <1>2
     DEF vars, IInv, Typed, HeldIsTaken, OneHolder, OnlyHeld, HeldOrPin, Settled, Initialised, Held, Pins,
         Gsis, vol, RefusedWhenFull
<1>3. QED BY <1>1, <1>2, PinsInductive, AllocateInductive, ReleaseInductive DEF Next

-----------------------------------------------------------------------------
(* The routes of some GSIs, entry by entry.                                 *)
LEMMA FromZeroUp ==
  ASSUME NEW n \in Nat, NEW S, 0 \in S, \A i \in 0..(n - 1) : i \in S => i + 1 \in S
  PROVE  \A i \in 0..n : i \in S
<1> DEFINE Bad == {i \in 0..n : i \notin S}
<1> SUFFICES ASSUME Bad # {} PROVE FALSE
  OBVIOUS
<1>1. Bad \in SUBSET Nat
  OBVIOUS
<1>2. PICK g \in Bad : \A f \in Bad : g <= f
  <2> HIDE DEF Bad
  <2>1. QED BY <1>1, LeastNumber
<1>3. g # 0 /\ g - 1 \in 0..(n - 1)
  OBVIOUS
<1>4. g - 1 \in S
  BY <1>2, <1>3
<1>5. QED BY <1>3, <1>4

KeptFrom(k, routes, gsis, n) ==
  k = [i \in 0..n |-> IF i = 0 THEN <<>>
                      ELSE IF routes[i].gsi \in gsis THEN Append(k[i - 1], routes[i])
                      ELSE k[i - 1]]

KeptStep(k, routes, gsis, i) ==
  k[i] = IF routes[i].gsi \in gsis THEN Append(k[i - 1], routes[i]) ELSE k[i - 1]

LEMMA KeptSteps ==
  ASSUME NEW routes, NEW gsis, NEW n \in Nat, NEW k, KeptFrom(k, routes, gsis, n)
  PROVE  /\ DOMAIN k = 0..n /\ k[0] = <<>>
         /\ \A i \in 1..n : KeptStep(k, routes, gsis, i)
<1> DEFINE F == [i \in 0..n |-> IF i = 0 THEN <<>>
                      ELSE IF routes[i].gsi \in gsis THEN Append(k[i - 1], routes[i])
                      ELSE k[i - 1]]
<1>1. k = F
  BY DEF KeptFrom
<1>2. DOMAIN F = 0..n /\ F[0] = <<>>
  OBVIOUS
<1>3. \A i \in 1..n : F[i] = IF routes[i].gsi \in gsis THEN Append(k[i - 1], routes[i])
                                                     ELSE k[i - 1]
  OBVIOUS
<1> HIDE DEF F
<1>4. QED BY <1>1, <1>2, <1>3 DEF KeptStep

LEMMA KeptExists ==
  ASSUME NEW routes, NEW gsis, NEW n \in Nat
  PROVE  \E k : KeptFrom(k, routes, gsis, n)
<1> DEFINE S == {m \in 0..n : \E k : KeptFrom(k, routes, gsis, m)}
<1>1. 0 \in S
  <2> DEFINE k == [i \in 0..0 |-> <<>>]
  <2>1. KeptFrom(k, routes, gsis, 0)
    BY DEF KeptFrom
  <2>2. QED BY <2>1
<1>2. ASSUME NEW m \in 0..(n - 1), m \in S PROVE m + 1 \in S
  <2>1. PICK k : KeptFrom(k, routes, gsis, m)
    BY <1>2
  <2>2. /\ DOMAIN k = 0..m /\ k[0] = <<>>
        /\ \A i \in 1..m : KeptStep(k, routes, gsis, i)
    BY <2>1, KeptSteps
  <2> DEFINE last == IF routes[m + 1].gsi \in gsis THEN Append(k[m], routes[m + 1]) ELSE k[m]
             f == [i \in 0..(m + 1) |-> IF i = m + 1 THEN last ELSE k[i]]
  <2>3. /\ DOMAIN f = 0..(m + 1) /\ f[m + 1] = last
        /\ \A i \in 0..m : f[i] = k[i]
    OBVIOUS
  <2> HIDE DEF f
  <2>4. ASSUME NEW i \in 0..(m + 1)
        PROVE  f[i] = IF i = 0 THEN <<>>
                      ELSE IF routes[i].gsi \in gsis THEN Append(f[i - 1], routes[i])
                      ELSE f[i - 1]
    <3>1. CASE i = 0
      BY <2>2, <2>3, <3>1
    <3>2. CASE i \in 1..m
      <4>1. i - 1 \in 0..m /\ i \in 0..m /\ i # 0
        BY <3>2
      <4>2. f[i] = k[i] /\ f[i - 1] = k[i - 1]
        BY <2>3, <4>1
      <4>3. QED BY <2>2, <3>2, <4>1, <4>2
    <3>3. CASE i = m + 1
      <4>1. i - 1 = m /\ i # 0 /\ f[m] = k[m]
        BY <2>3, <3>3
      <4>2. QED BY <2>3, <3>3, <4>1
    <3>4. QED BY <3>1, <3>2, <3>3
  <2>5. f = [i \in DOMAIN f |-> f[i]]
    BY DEF f
  <2>6. KeptFrom(f, routes, gsis, m + 1)
    BY <2>3, <2>4, <2>5 DEF KeptFrom
  <2>7. QED BY <2>6
<1>3. n \in S
  <2> HIDE DEF S
  <2>1. QED BY <1>1, <1>2, FromZeroUp
<1>4. QED BY <1>3

LEMMA RoutesOfKept ==
  ASSUME NEW S, NEW routes \in Seq(S), NEW gsis
  PROVE  \E k : KeptFrom(k, routes, gsis, Len(routes)) /\ RoutesOf(routes, gsis) = k[Len(routes)]
<1> DEFINE n == Len(routes)
           k == CHOOSE k : k = [i \in 0..n |-> IF i = 0 THEN <<>>
                      ELSE IF routes[i].gsi \in gsis THEN Append(k[i - 1], routes[i])
                      ELSE k[i - 1]]
<1>1. RoutesOf(routes, gsis) = k[n]
  BY DEF RoutesOf
<1>2. \E f : f = [i \in 0..n |-> IF i = 0 THEN <<>>
                      ELSE IF routes[i].gsi \in gsis THEN Append(f[i - 1], routes[i])
                      ELSE f[i - 1]]
  <2>1. PICK f : KeptFrom(f, routes, gsis, n)
    <3>1. n \in Nat
      OBVIOUS
    <3> HIDE DEF n
    <3>2. QED BY <3>1, KeptExists
  <2>2. QED BY <2>1 DEF KeptFrom
<1>3. k = [i \in 0..n |-> IF i = 0 THEN <<>>
                      ELSE IF routes[i].gsi \in gsis THEN Append(k[i - 1], routes[i])
                      ELSE k[i - 1]]
  BY <1>2
<1>4. KeptFrom(k, routes, gsis, n)
  BY <1>3 DEF KeptFrom
<1>5. QED BY <1>1, <1>4

(* RoutesOf, one entry after the other.                                     *)
LEMMA RoutesOfNone ==
  ASSUME NEW gsis
  PROVE  RoutesOf(<<>>, gsis) = <<>>
<1>1. PICK k : KeptFrom(k, <<>>, gsis, 0) /\ RoutesOf(<<>>, gsis) = k[0]
  <2>1. <<>> \in Seq({}) /\ Len(<<>>) = 0
    OBVIOUS
  <2>2. QED BY <2>1, RoutesOfKept
<1>2. QED BY <1>1, KeptSteps

LEMMA RoutesOfAppend ==
  ASSUME NEW S, NEW routes \in Seq(S), NEW e \in S, NEW gsis
  PROVE  RoutesOf(Append(routes, e), gsis) =
           IF e.gsi \in gsis THEN Append(RoutesOf(routes, gsis), e) ELSE RoutesOf(routes, gsis)
<1> DEFINE n == Len(routes)
           longer == Append(routes, e)
<1>1. /\ longer \in Seq(S) /\ Len(longer) = n + 1 /\ n \in Nat /\ longer[n + 1] = e
      /\ \A i \in 1..n : longer[i] = routes[i]
  OBVIOUS
<1> HIDE DEF longer
<1>2. PICK k : KeptFrom(k, routes, gsis, n) /\ RoutesOf(routes, gsis) = k[n]
  BY RoutesOfKept
<1>3. PICK f : KeptFrom(f, longer, gsis, n + 1) /\ RoutesOf(longer, gsis) = f[n + 1]
  BY <1>1, RoutesOfKept
<1> HIDE DEF n
<1>4. /\ k[0] = <<>>
      /\ \A i \in 1..n : KeptStep(k, routes, gsis, i)
  BY <1>1, <1>2, KeptSteps
<1>5. /\ f[0] = <<>>
      /\ \A i \in 1..(n + 1) : KeptStep(f, longer, gsis, i)
  <2>1. n + 1 \in Nat
    BY <1>1
  <2>2. QED BY <2>1, <1>3, KeptSteps
<1> DEFINE Same == {i \in 0..n : f[i] = k[i]}
<1>6. 0 \in Same
  BY <1>1, <1>4, <1>5
<1>7. ASSUME NEW i \in 0..(n - 1), i \in Same PROVE i + 1 \in Same
  <2>1. i + 1 \in 1..n /\ i + 1 \in 1..(n + 1) /\ (i + 1) - 1 = i /\ i + 1 \in 0..n
    BY <1>1
  <2>2. longer[i + 1] = routes[i + 1] /\ f[i] = k[i]
    BY <1>1, <1>7, <2>1
  <2>3. /\ k[i + 1] = IF routes[i + 1].gsi \in gsis THEN Append(k[i], routes[i + 1]) ELSE k[i]
        /\ f[i + 1] = IF longer[i + 1].gsi \in gsis THEN Append(f[i], longer[i + 1]) ELSE f[i]
    BY <1>4, <1>5, <2>1 DEF KeptStep
  <2>4. QED BY <2>1, <2>2, <2>3
<1>8. n \in Same
  <2>1. n \in Nat /\ n \in 0..n
    BY <1>1
  <2>2. \A i \in 0..(n - 1) : i \in Same => i + 1 \in Same
    BY <1>7
  <2> HIDE DEF Same
  <2>3. QED BY <2>1, <2>2, <1>6, FromZeroUp
<1>9. f[n + 1] = IF e.gsi \in gsis THEN Append(f[n], e) ELSE f[n]
  <2>1. n + 1 \in 1..(n + 1) /\ (n + 1) - 1 = n
    BY <1>1
  <2>2. QED BY <1>1, <1>5, <2>1 DEF KeptStep
<1>10. QED BY <1>2, <1>3, <1>8, <1>9 DEF longer

(* The routes kept are routes of the table, and of these GSIs.              *)
LEMMA RoutesOfType ==
  ASSUME NEW S, NEW routes \in Seq(S), NEW gsis
  PROVE  RoutesOf(routes, gsis) \in Seq({e \in S : e.gsi \in gsis})
<1> DEFINE n == Len(routes)
           T == {e \in S : e.gsi \in gsis}
<1>1. PICK k : KeptFrom(k, routes, gsis, n) /\ RoutesOf(routes, gsis) = k[n]
  BY RoutesOfKept
<1>2. n \in Nat /\ \A i \in 1..n : routes[i] \in S
  OBVIOUS
<1> HIDE DEF n
<1>3. /\ k[0] = <<>>
      /\ \A i \in 1..n : KeptStep(k, routes, gsis, i)
  BY <1>1, <1>2, KeptSteps
<1> DEFINE Good == {i \in 0..n : k[i] \in Seq(T)}
<1>4. 0 \in Good
  <2>1. <<>> \in Seq(T) /\ 0 \in 0..n
    BY <1>2
  <2> HIDE DEF T
  <2>2. QED BY <1>3, <2>1
<1>5. ASSUME NEW i \in 0..(n - 1), i \in Good PROVE i + 1 \in Good
  <2>1. i + 1 \in 1..n /\ i + 1 \in 0..n /\ (i + 1) - 1 = i
    BY <1>2
  <2>2. k[i + 1] = IF routes[i + 1].gsi \in gsis THEN Append(k[i], routes[i + 1]) ELSE k[i]
    BY <1>3, <2>1 DEF KeptStep
  <2>3. routes[i + 1].gsi \in gsis => routes[i + 1] \in T
    BY <1>2, <2>1
  <2>4. k[i] \in Seq(T)
    BY <1>5
  <2> HIDE DEF T
  <2>5. \A t \in Seq(T), r \in T : Append(t, r) \in Seq(T)
    OBVIOUS
  <2>6. k[i + 1] \in Seq(T)
    BY <2>2, <2>3, <2>4, <2>5
  <2>7. QED BY <2>1, <2>6
<1>6. n \in Good
  <2>1. n \in Nat /\ n \in 0..n
    BY <1>2
  <2>2. \A i \in 0..(n - 1) : i \in Good => i + 1 \in Good
    BY <1>5
  <2> HIDE DEF Good
  <2>3. QED BY <2>1, <2>2, <1>4, FromZeroUp
<1>7. QED BY <1>1, <1>6

LEMMA LastApart ==
  ASSUME NEW S, NEW s \in Seq(S), NEW i \in Nat, Len(s) = i + 1
  PROVE  \E t \in Seq(S), e \in S : Len(t) = i /\ s = Append(t, e)
<1> DEFINE t == SubSeq(s, 1, i)
           e == s[i + 1]
<1>1. t \in Seq(S) /\ Len(t) = i /\ e \in S /\ \A j \in 1..i : t[j] = s[j]
  OBVIOUS
<1>2. Append(t, e) \in Seq(S) /\ Len(Append(t, e)) = i + 1
      /\ \A j \in 1..(i + 1) : Append(t, e)[j] = s[j]
  BY <1>1
<1> HIDE DEF t, e
<1>3. s = Append(t, e)
  BY <1>2
<1>4. QED BY <1>1, <1>3

(* To leave out routes of other GSIs first changes nothing.                 *)
LEMMA RoutesOfRoutesOf ==
  ASSUME NEW S, NEW routes \in Seq(S), NEW gsis, NEW fewer, fewer \subseteq gsis
  PROVE  RoutesOf(RoutesOf(routes, gsis), fewer) = RoutesOf(routes, fewer)
<1> DEFINE n == Len(routes)
           Agree == {i \in 0..n : \A s \in Seq(S) : Len(s) = i =>
                       RoutesOf(RoutesOf(s, gsis), fewer) = RoutesOf(s, fewer)}
<1>1. n \in Nat
  OBVIOUS
<1>2. 0 \in Agree
  <2>1. ASSUME NEW s \in Seq(S), Len(s) = 0 PROVE s = <<>>
    BY <2>1
  <2>2. QED BY <1>1, <2>1, RoutesOfNone
<1>3. ASSUME NEW i \in 0..(n - 1), i \in Agree PROVE i + 1 \in Agree
  <2> SUFFICES ASSUME NEW s \in Seq(S), Len(s) = i + 1
               PROVE  RoutesOf(RoutesOf(s, gsis), fewer) = RoutesOf(s, fewer)
    BY <1>1
  <2> DEFINE T == {r \in S : r.gsi \in gsis}
  <2>0. i \in Nat
    BY <1>1
  <2>1. PICK t \in Seq(S), e \in S : Len(t) = i /\ s = Append(t, e)
    BY <2>0, LastApart
  <2>2. RoutesOf(RoutesOf(t, gsis), fewer) = RoutesOf(t, fewer)
    BY <1>3, <2>1
  <2>3. RoutesOf(t, gsis) \in Seq(T)
    BY <2>1, RoutesOfType
  <2>4. CASE e.gsi \in gsis
    <3>1. e \in T
      BY <2>1, <2>4
    <3>2. RoutesOf(s, gsis) = Append(RoutesOf(t, gsis), e)
      BY <2>1, <2>4, RoutesOfAppend
    <3> HIDE DEF T
    <3>3. RoutesOf(Append(RoutesOf(t, gsis), e), fewer) =
            IF e.gsi \in fewer THEN Append(RoutesOf(RoutesOf(t, gsis), fewer), e)
                               ELSE RoutesOf(RoutesOf(t, gsis), fewer)
      BY <2>3, <3>1, RoutesOfAppend
    <3>4. RoutesOf(s, fewer) = IF e.gsi \in fewer THEN Append(RoutesOf(t, fewer), e)
                                                  ELSE RoutesOf(t, fewer)
      BY <2>1, RoutesOfAppend
    <3>5. QED BY <2>2, <3>2, <3>3, <3>4
  <2>5. CASE e.gsi \notin gsis
    <3>1. RoutesOf(s, gsis) = RoutesOf(t, gsis) /\ RoutesOf(s, fewer) = RoutesOf(t, fewer)
      BY <2>1, <2>5, RoutesOfAppend
    <3>2. QED BY <2>2, <3>1
  <2>6. QED BY <2>4, <2>5
<1>4. n \in Agree
  <2>1. n \in Nat /\ n \in 0..n
    BY <1>1
  <2>2. \A i \in 0..(n - 1) : i \in Agree => i + 1 \in Agree
    BY <1>3
  <2> HIDE DEF n, Agree
  <2>3. QED BY <2>1, <2>2, <1>2, FromZeroUp
<1>5. QED BY <1>4

(* Routes of other GSIs in front make no difference.                        *)
LEMMA RoutesOfLater ==
  ASSUME NEW S, NEW routes \in Seq(S), NEW more \in Seq(S), NEW gsis,
         \A i \in DOMAIN routes : routes[i].gsi \notin gsis
  PROVE  RoutesOf(routes \o more, gsis) = RoutesOf(more, gsis)
<1> DEFINE n == Len(more)
           Agree == {i \in 0..n : \A s \in Seq(S) : Len(s) = i =>
                       RoutesOf(routes \o s, gsis) = RoutesOf(s, gsis)}
<1>1. n \in Nat
  OBVIOUS
<1>2. 0 \in Agree
  <2>1. RoutesOf(routes, gsis) = <<>>
    <3> DEFINE T == {e \in S : e.gsi \notin gsis}
               U == {e \in T : e.gsi \in gsis}
    <3>1. routes \in Seq(T)
      OBVIOUS
    <3> HIDE DEF T
    <3>2. RoutesOf(routes, gsis) \in Seq(U)
      BY <3>1, RoutesOfType
    <3>3. U = {}
      BY DEF T
    <3>4. \A s \in Seq({}) : s = <<>>
      OBVIOUS
    <3>5. QED BY <3>2, <3>3, <3>4
  <2>2. ASSUME NEW s \in Seq(S), Len(s) = 0 PROVE s = <<>> /\ routes \o s = routes
    BY <2>2
  <2>3. RoutesOf(<<>>, gsis) = <<>>
    BY RoutesOfNone
  <2>4. \A s \in Seq(S) : Len(s) = 0 => RoutesOf(routes \o s, gsis) = RoutesOf(s, gsis)
    BY <2>1, <2>2, <2>3
  <2>5. QED BY <1>1, <2>4
<1>3. ASSUME NEW i \in 0..(n - 1), i \in Agree PROVE i + 1 \in Agree
  <2> SUFFICES ASSUME NEW s \in Seq(S), Len(s) = i + 1
               PROVE  RoutesOf(routes \o s, gsis) = RoutesOf(s, gsis)
    BY <1>1
  <2>0. i \in Nat
    BY <1>1
  <2>1. PICK t \in Seq(S), e \in S : Len(t) = i /\ s = Append(t, e)
    <3> HIDE DEF Agree, n
    <3>1. QED BY <2>0, LastApart
  <2>2. RoutesOf(routes \o t, gsis) = RoutesOf(t, gsis)
    BY <1>3, <2>1
  <2>3. routes \o t \in Seq(S) /\ routes \o s = Append(routes \o t, e)
    BY <2>1
  <2>4. RoutesOf(s, gsis) = IF e.gsi \in gsis THEN Append(RoutesOf(t, gsis), e)
                                            ELSE RoutesOf(t, gsis)
    BY <2>1, RoutesOfAppend
  <2> DEFINE both == routes \o t
  <2>5. both \in Seq(S)
    BY <2>3
  <2> HIDE DEF both
  <2>6. RoutesOf(Append(both, e), gsis) = IF e.gsi \in gsis THEN Append(RoutesOf(both, gsis), e)
                                                           ELSE RoutesOf(both, gsis)
    BY <2>5, RoutesOfAppend
  <2>7. QED BY <2>2, <2>3, <2>4, <2>6 DEF both
<1>4. n \in Agree
  <2>1. n \in Nat /\ n \in 0..n
    BY <1>1
  <2>2. \A i \in 0..(n - 1) : i \in Agree => i + 1 \in Agree
    BY <1>3
  <2> HIDE DEF n, Agree
  <2>3. QED BY <2>1, <2>2, <1>2, FromZeroUp
<1>5. QED BY <1>4

-----------------------------------------------------------------------------
(* What the table holds.  Every route is of a GSI that is taken: so before  *)
(* the pins are set up the routes are those of GSIs that devices hold, and  *)
(* a GSI that is free has none.                                             *)
RoutesTaken ==
  result # "Panic" => \A i \in DOMAIN irq_routes : irq_routes[i].gsi \in gsi_bitmap

RouteInv ==
  /\ irq_routes \in Seq(Routes) /\ RoutesTaken /\ PinsKeepRoutes
  /\ pinned \in BOOLEAN /\ early \subseteq Gsis /\ result \in {"Ok", "Err", "Panic"}

LEMMA PinsAre ==
  /\ W \in Nat \ {0} /\ MasterPins \in Nat \ {0} /\ SlavePins \in Nat \ {0}
  /\ IoapicPins \in Nat \ {0} /\ MasterPins + SlavePins <= IoapicPins
BY IrqAssumption

(* The routes of the pins, and which GSIs they are of.                      *)
LEMMA PinRoutesType ==
  /\ PinRoutes \in Seq({r \in Routes : r.gsi \in Pins})
  /\ Len(PinRoutes) = MasterPins + SlavePins + IoapicPins
<1> DEFINE T == {r \in Routes : r.gsi \in Pins}
           master == [i \in 1..MasterPins |-> Route(i - 1, "PIC_MASTER", i - 1)]
           slave == [i \in 1..SlavePins |->
             Route(MasterPins + i - 1, "PIC_SLAVE", SlavePin(MasterPins + i - 1))]
           ioapic == [i \in 1..IoapicPins |-> Route(i - 1, "IOAPIC", i - 1)]
<1>1. ASSUME NEW i \in 1..MasterPins PROVE Route(i - 1, "PIC_MASTER", i - 1) \in T
  BY PinsAre DEF Route, Routes, Pins
<1>2. ASSUME NEW i \in 1..SlavePins
      PROVE  Route(MasterPins + i - 1, "PIC_SLAVE", SlavePin(MasterPins + i - 1)) \in T
  <2>1. MasterPins + i - 1 \in Pins /\ MasterPins + i - 1 \in Nat
    BY PinsAre DEF Pins
  <2>2. SlavePin(MasterPins + i - 1) \in 0..(SlavePins - 1)
    BY PinsAre DEF SlavePin
  <2>3. QED BY <2>1, <2>2 DEF Route, Routes
<1>3. ASSUME NEW i \in 1..IoapicPins PROVE Route(i - 1, "IOAPIC", i - 1) \in T
  BY PinsAre DEF Route, Routes, Pins
<1> HIDE DEF T
<1>4. master \in Seq(T) /\ Len(master) = MasterPins
  BY <1>1, PinsAre
<1>5. slave \in Seq(T) /\ Len(slave) = SlavePins
  BY <1>2, PinsAre
<1>6. ioapic \in Seq(T) /\ Len(ioapic) = IoapicPins
  BY <1>3, PinsAre
<1>7. PinRoutes = master \o slave \o ioapic
  BY DEF PinRoutes
<1> HIDE DEF master, slave, ioapic
<1>8. PinRoutes \in Seq(T) /\ Len(PinRoutes) = MasterPins + SlavePins + IoapicPins
  <2>1. \A s, t \in Seq(T) : s \o t \in Seq(T) /\ Len(s \o t) = Len(s) + Len(t)
    OBVIOUS
  <2>2. master \o slave \in Seq(T) /\ Len(master \o slave) = MasterPins + SlavePins
    BY <1>4, <1>5, <2>1
  <2>3. QED BY <1>4, <1>5, <1>6, <1>7, <2>1, <2>2
<1>9. QED BY <1>8 DEF T

LEMMA SeqSubset ==
  ASSUME NEW S, NEW T, S \subseteq T, NEW s \in Seq(S)
  PROVE  s \in Seq(T)
OBVIOUS

LEMMA RoutesInit == Init => RouteInv
<1> SUFFICES ASSUME Init PROVE RouteInv
  OBVIOUS
<1>1. irq_routes = <<>> /\ ~pinned /\ pinned \in BOOLEAN /\ early = {} /\ result = "Ok"
  BY DEF Init
<1>2. irq_routes \in Seq(Routes) /\ DOMAIN irq_routes = {}
  BY <1>1
<1>3. QED BY <1>1, <1>2 DEF RouteInv, RoutesTaken, PinsKeepRoutes, Initialised

LEMMA PinsRoute ==
  ASSUME IInv, IInv', RouteInv, result # "Panic", init_irq_route_table
  PROVE  RouteInv'
<1>1. /\ irq_routes \in Seq(Routes) /\ RoutesTaken /\ gsi_bitmap = Held
      /\ pinned' /\ pinned' \in BOOLEAN /\ early' = Held /\ Gsis' = Gsis
      /\ result' \in {"Ok", "Panic"} /\ Held \subseteq Gsis
  BY DEF RouteInv, IInv, OnlyHeld, Typed, init_irq_route_table, Gsis, vol
<1>2. PinRoutes \in Seq(Routes)
  <2>1. {r \in Routes : r.gsi \in Pins} \subseteq Routes
    OBVIOUS
  <2>2. QED BY <2>1, PinRoutesType, SeqSubset
<1>3. CASE IoapicPins <= vol
  <2>1. /\ irq_routes' = irq_routes \o PinRoutes /\ gsi_bitmap' = gsi_bitmap \cup Pins
        /\ result' = "Ok"
    BY <1>3 DEF init_irq_route_table, PinBits
  <2>2. irq_routes' \in Seq(Routes)
    BY <1>1, <1>2, <2>1
  <2>3. RoutesTaken'
    <3>1. \A i \in DOMAIN irq_routes : irq_routes[i].gsi \in gsi_bitmap
      BY <1>1 DEF RoutesTaken
    <3>2. PinRoutes \in Seq({r \in Routes : r.gsi \in Pins})
      BY PinRoutesType
    <3>3. \A i \in DOMAIN PinRoutes : PinRoutes[i].gsi \in Pins
      BY <3>2
    <3>4. ASSUME NEW i \in DOMAIN irq_routes' PROVE irq_routes'[i].gsi \in gsi_bitmap'
      <4>1. \/ i \in DOMAIN irq_routes /\ irq_routes'[i] = irq_routes[i]
            \/ /\ i - Len(irq_routes) \in DOMAIN PinRoutes
               /\ irq_routes'[i] = PinRoutes[i - Len(irq_routes)]
        BY <1>1, <1>2, <2>1
      <4>2. QED BY <2>1, <3>1, <3>3, <4>1
    <3>5. QED BY <3>4 DEF RoutesTaken
  <2>4. PinsKeepRoutes'
    <3> SUFFICES ASSUME NEW g \in Pins \ early'
                 PROVE  RoutesOf(irq_routes', {g}) = RoutesOf(PinRoutes, {g})
      BY DEF PinsKeepRoutes, get_irq_route_entry, Pins
    <3>1. \A i \in DOMAIN irq_routes : irq_routes[i].gsi \notin {g}
      BY <1>1 DEF RoutesTaken
    <3>2. QED BY <1>1, <1>2, <2>1, <3>1, RoutesOfLater
  <2>5. QED BY <1>1, <2>1, <2>2, <2>3, <2>4 DEF RouteInv
<1>4. CASE ~(IoapicPins <= vol)
  <2>1. /\ irq_routes' = irq_routes \o SubSeq(PinRoutes, 1, MasterPins + SlavePins + vol + 1)
        /\ result' = "Panic"
    BY <1>4 DEF init_irq_route_table
  <2>2. MasterPins + SlavePins + vol + 1 \in 1..Len(PinRoutes)
    BY <1>4, PinsAre, PinRoutesType, VolIsNat DEF IInv, Typed
  <2>3. SubSeq(PinRoutes, 1, MasterPins + SlavePins + vol + 1) \in Seq(Routes)
    BY <1>2, <2>2
  <2>4. irq_routes' \in Seq(Routes)
    BY <1>1, <2>1, <2>3
  <2>5. QED BY <1>1, <2>1, <2>4 DEF RouteInv, RoutesTaken, PinsKeepRoutes, Initialised
<1>5. QED BY <1>3, <1>4

(* What a device does to the table: it may add a route of a GSI it holds,   *)
(* after leaving out those that were there.                                 *)
LEMMA DeviceRoutes ==
  ASSUME IInv, RouteInv, result # "Panic", NEW d \in Devices, NEW gsi \in own[d]
  PROVE  /\ Without(gsi) \in Seq(Routes)
         /\ \A i \in DOMAIN Without(gsi) : Without(gsi)[i].gsi \in gsi_bitmap \ {gsi}
         /\ Initialised => \A g \in Pins \ early :
              gsi # g /\ RoutesOf(Without(gsi), {g}) = RoutesOf(irq_routes, {g})
<1>1. irq_routes \in Seq(Routes) /\ \A i \in DOMAIN irq_routes : irq_routes[i].gsi \in gsi_bitmap
  BY DEF RouteInv, RoutesTaken
<1> DEFINE T == {r \in Routes : r.gsi \in gsi_bitmap}
<1>2. irq_routes \in Seq(T)
  BY <1>1
<1>3. Without(gsi) \in Seq({r \in T : r.gsi \in Nat \ {gsi}})
  BY <1>2, RoutesOfType DEF Without
<1>4. {r \in T : r.gsi \in Nat \ {gsi}} \subseteq Routes
  OBVIOUS
<1>5. Without(gsi) \in Seq(Routes)
  BY <1>3, <1>4, SeqSubset
<1>6. \A i \in DOMAIN Without(gsi) : Without(gsi)[i].gsi \in gsi_bitmap \ {gsi}
  BY <1>3
<1>7. ASSUME Initialised, NEW g \in Pins \ early
      PROVE  gsi # g /\ RoutesOf(Without(gsi), {g}) = RoutesOf(irq_routes, {g})
  <2>1. gsi \in Held
    BY DEF Held
  <2>2. gsi # g
    BY <1>7, <2>1 DEF IInv, HeldOrPin, Settled
  <2>3. {g} \subseteq Nat \ {gsi}
    BY <2>2, PinsAre DEF Pins
  <2>4. QED BY <1>1, <2>2, <2>3, RoutesOfRoutesOf DEF Without
<1>8. QED BY <1>5, <1>6, <1>7

LEMMA AppendRoute ==
  ASSUME IInv, IInv', result # "Panic", NEW d \in Devices, NEW gsi \in own[d], NEW v \in Vectors,
         NEW routes \in Seq(Routes), irq_routes' = Append(routes, MsiRoute(gsi, v)),
         \A i \in DOMAIN routes : routes[i].gsi \in gsi_bitmap,
         Initialised => \A g \in Pins \ early :
           gsi # g /\ RoutesOf(routes, {g}) = RoutesOf(PinRoutes, {g}),
         UNCHANGED <<gsi_count, gsi_bitmap, pinned, own, early>>, result' = "Ok",
         pinned \in BOOLEAN, early \subseteq Gsis
  PROVE  RouteInv'
<1> DEFINE e == MsiRoute(gsi, v)
<1>1. gsi \in gsi_bitmap /\ gsi \in Nat
  BY VolIsNat DEF IInv, HeldIsTaken, Typed, Gsis
<1>2. e \in Routes /\ e.gsi = gsi
  BY <1>1 DEF MsiRoute, Route, Routes
<1> HIDE DEF e
<1>3. irq_routes' \in Seq(Routes)
  BY <1>2 DEF e
<1>4. RoutesTaken'
  <2>1. ASSUME NEW i \in DOMAIN irq_routes'
        PROVE  \/ i \in DOMAIN routes /\ irq_routes'[i] = routes[i]
               \/ irq_routes'[i] = e
    BY <1>2 DEF e
  <2>2. QED BY <1>1, <1>2, <2>1 DEF RoutesTaken
<1>5. PinsKeepRoutes'
  <2> SUFFICES ASSUME Initialised', NEW g \in Pins \ early'
               PROVE  RoutesOf(irq_routes', {g}) = RoutesOf(PinRoutes, {g})
    BY DEF PinsKeepRoutes, get_irq_route_entry, Pins
  <2>1. Initialised
    BY DEF Initialised
  <2>2. e.gsi \notin {g} /\ RoutesOf(routes, {g}) = RoutesOf(PinRoutes, {g})
    BY <1>2, <2>1
  <2>3. irq_routes' = Append(routes, e)
    BY DEF e
  <2>4. QED BY <1>2, <2>2, <2>3, RoutesOfAppend
<1>6. Gsis' = Gsis
  BY DEF Gsis, vol
<1>7. QED BY <1>3, <1>4, <1>5, <1>6 DEF RouteInv

LEMMA DeviceSteps ==
  ASSUME IInv, IInv', RouteInv, result # "Panic", NEW d \in Devices, NEW gsi \in own[d],
         NEW v \in Vectors, add_msi_route(d, gsi, v) \/ update_msi_route(d, gsi, v)
  PROVE  RouteInv'
<1>1. /\ irq_routes \in Seq(Routes) /\ \A i \in DOMAIN irq_routes : irq_routes[i].gsi \in gsi_bitmap
      /\ pinned \in BOOLEAN /\ early \subseteq Gsis
      /\ Initialised => \A g \in Pins \ early : RoutesOf(irq_routes, {g}) = RoutesOf(PinRoutes, {g})
  BY DEF RouteInv, RoutesTaken, PinsKeepRoutes, get_irq_route_entry
<1>2. UNCHANGED <<gsi_count, gsi_bitmap, pinned, own, early>> /\ result' = "Ok"
  BY DEF add_msi_route, update_msi_route
<1>3. CASE add_msi_route(d, gsi, v)
  <2>1. irq_routes' = Append(irq_routes, MsiRoute(gsi, v))
    BY <1>3 DEF add_msi_route
  <2>2. Initialised => \A g \in Pins \ early : gsi # g
    BY DeviceRoutes
  <2>3. QED BY <1>1, <1>2, <2>1, <2>2, AppendRoute
<1>4. CASE update_msi_route(d, gsi, v)
  <2>1. irq_routes' = Append(Without(gsi), MsiRoute(gsi, v))
    BY <1>4 DEF update_msi_route
  <2>2. /\ Without(gsi) \in Seq(Routes)
        /\ \A i \in DOMAIN Without(gsi) : Without(gsi)[i].gsi \in gsi_bitmap
        /\ Initialised => \A g \in Pins \ early :
             gsi # g /\ RoutesOf(Without(gsi), {g}) = RoutesOf(PinRoutes, {g})
    BY <1>1, DeviceRoutes
  <2>3. QED BY <1>1, <1>2, <2>1, <2>2, AppendRoute
<1>5. QED BY <1>3, <1>4

LEMMA AllocateRoute ==
  ASSUME IInv, IInv', RouteInv, result # "Panic", NEW d \in Devices, allocate_gsi(d)
  PROVE  RouteInv'
<1>1. /\ UNCHANGED <<gsi_count, irq_routes, pinned, early>> /\ result' \in {"Ok", "Err"}
      /\ gsi_bitmap \subseteq gsi_bitmap'
  BY DEF allocate_gsi, Bits!Set, Bits!ToOne, Bits!Return
<1>2. RoutesTaken'
  BY <1>1 DEF RouteInv, RoutesTaken
<1>3. PinsKeepRoutes'
  BY <1>1 DEF RouteInv, PinsKeepRoutes, get_irq_route_entry, Initialised, Pins
<1>4. Gsis' = Gsis
  BY <1>1 DEF Gsis, vol
<1>5. QED BY <1>1, <1>2, <1>3, <1>4 DEF RouteInv

LEMMA ReleaseRoute ==
  ASSUME IInv, IInv', RouteInv, result # "Panic", NEW d \in Devices, NEW gsi \in own[d],
         release_gsi(d, gsi)
  PROVE  RouteInv'
<1>1. gsi \in Gsis /\ gsi < vol
  BY VolIsNat DEF IInv, Typed, Gsis
<1>2. /\ UNCHANGED <<gsi_count, pinned, early>> /\ result' = "Ok"
      /\ gsi_bitmap' = gsi_bitmap \ {gsi} /\ irq_routes' = Without(gsi)
  BY <1>1 DEF release_gsi, Bits!Clear, Bits!ToOne, Bits!Return
<1>3. irq_routes' \in Seq(Routes) /\ RoutesTaken'
  BY <1>2, DeviceRoutes DEF RoutesTaken
<1>4. PinsKeepRoutes'
  <2> SUFFICES ASSUME Initialised', NEW g \in Pins \ early'
               PROVE  RoutesOf(irq_routes', {g}) = RoutesOf(PinRoutes, {g})
    BY DEF PinsKeepRoutes, get_irq_route_entry, Pins
  <2>1. Initialised
    BY <1>2 DEF Initialised
  <2>2. g \in Pins \ early
    BY <1>2
  <2>3. RoutesOf(irq_routes, {g}) = RoutesOf(PinRoutes, {g})
    BY <2>1, <2>2 DEF RouteInv, PinsKeepRoutes, get_irq_route_entry
  <2>4. \A h \in Pins \ early : RoutesOf(Without(gsi), {h}) = RoutesOf(irq_routes, {h})
    BY <2>1, DeviceRoutes
  <2>5. QED BY <1>2, <2>2, <2>3, <2>4
<1>5. Gsis' = Gsis
  BY <1>2 DEF Gsis, vol
<1>6. QED BY <1>2, <1>3, <1>4, <1>5 DEF RouteInv

LEMMA RouteStep == IInv /\ IInv' /\ RouteInv /\ [Next]_vars => RouteInv'
<1> SUFFICES ASSUME IInv, IInv', RouteInv, [Next]_vars PROVE RouteInv'
  OBVIOUS
<1>1. CASE UNCHANGED vars
  BY <1>1 DEF vars, RouteInv, RoutesTaken, PinsKeepRoutes, get_irq_route_entry, Initialised, Pins,
              Gsis, vol
<1>2. QED
  BY <1>1, PinsRoute, DeviceSteps, AllocateRoute, ReleaseRoute DEF Next

LEMMA TableAlways == Spec => [](IInv /\ RouteInv)
<1>1. IInv /\ [Next]_vars => IInv'
  BY Inductive
<1>2. QED BY <1>1, InitInductive, RoutesInit, RouteStep, PTL DEF Spec

(* Every variable has its type, for any number of pins, devices and GSIs.   *)
THEOREM TypeCorrect == Spec => []TypeOK
<1>1. IInv /\ RouteInv => TypeOK
  BY DEF IInv, Typed, RouteInv, TypeOK
<1>2. QED BY <1>1, TableAlways, PTL

(* No call of a device disturbs the routes of the pins.                     *)
THEOREM PinsKeepTheirRoutes == Spec => []PinsKeepRoutes
<1>1. RouteInv => PinsKeepRoutes
  BY DEF RouteInv
<1>2. QED BY <1>1, TableAlways, PTL

(* A GSI that is given to a device has no route.                            *)
THEOREM NoRouteIsInherited == Spec => NoStaleRoute
<1>1. ASSUME IInv, RouteInv, [Next]_vars, NEW d \in Devices, NEW gsi \in own'[d] \ own[d],
             NEW i \in DOMAIN irq_routes
      PROVE  irq_routes[i].gsi # gsi
  <2>1. PICK e \in Devices : allocate_gsi(e) /\ result # "Panic"
    BY <1>1 DEF Next, vars, init_irq_route_table, add_msi_route, update_msi_route, release_gsi,
                IInv, Typed
  <2>2. gsi = NextFree /\ NextFree < vol
    BY <1>1, <2>1 DEF allocate_gsi, Bits!Set, Bits!ToOne, Bits!Return, IInv, Typed
  <2>3. FreeGsis # {}
    BY <1>1, <2>2, NextFreeIsFree, VolIsNat DEF IInv, Typed
  <2>4. gsi \notin gsi_bitmap
    BY <1>1, <2>2, <2>3, NextFreeIsFree DEF IInv
  <2>5. QED BY <1>1, <2>1, <2>4 DEF RouteInv, RoutesTaken
<1>2. IInv /\ RouteInv /\ [Next]_vars =>
        \A d \in Devices : \A gsi \in own'[d] \ own[d] :
          \A i \in DOMAIN irq_routes : irq_routes[i].gsi # gsi
  BY <1>1
<1>3. QED BY <1>2, TableAlways, PTL DEF Spec, NoStaleRoute

(* No GSI is lost and none has two owners, in whatever order the devices    *)
(* and the initialisation of the table come.                                *)
THEOREM GsisAreAccounted == Spec => []GsiAccounted
<1>1. IInv => GsiAccounted
  BY DEF IInv, HeldIsTaken, OneHolder, OnlyHeld, HeldOrPin, Settled, Held, GsiAccounted
<1>2. QED BY <1>1, InitInductive, Inductive, PTL DEF Spec

(* allocate_gsi fails only when every GSI is taken.                         *)
THEOREM RefusesOnlyWhenFull == Spec => []RefusedWhenFull
<1>1. IInv => RefusedWhenFull
  BY DEF IInv
<1>2. QED BY <1>1, InitInductive, Inductive, PTL DEF Spec
=============================================================================
