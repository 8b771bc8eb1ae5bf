--------------------------- MODULE IrqRouteTable ---------------------------
(***************************************************************************)
(* IrqRouteTable (hypervisor/src/interrupt.rs): the global system          *)
(* interrupts (GSIs) of a machine, which of them are taken, and where each *)
(* is routed.  The pins of the interrupt controllers take the first GSIs   *)
(* when init_irq_route_table is called; devices allocate others for their  *)
(* message-signalled interrupts (MSI) and release them.                    *)
(*                                                                         *)
(* Nothing in the repository calls the table yet.  Devices are taken to    *)
(* route and release only GSIs they hold, and the table to be initialised  *)
(* at most once, though before or after they begin.  The bitmap of GSIs is *)
(* used through what it promises, BitSet.                                  *)
(***************************************************************************)
EXTENDS Integers, Sequences, FiniteSets

CONSTANTS
  GsiCounts,   (* what KVM may answer for Cap::IrqRouting                   *)
  W,           (* the bits of a word of the bitmap                          *)
  MasterPins, SlavePins, IoapicPins, (* PIC_MASTER_PINS and so on           *)
  Devices,     (* users of the table                                        *)
  Vectors,     (* MsiVectors                                                *)
  MaxRoutes    (* bounds the MSI routes added                               *)

ASSUME IrqAssumption ==
  /\ GsiCounts \subseteq Int
  /\ {W, MasterPins, SlavePins, IoapicPins} \subseteq Nat \ {0}
  /\ MasterPins + SlavePins <= IoapicPins /\ IoapicPins <= W
  /\ MaxRoutes \in Nat

VARIABLES
  gsi_count,   (* get_maximum_gsi_cnt when the table was made; 0 by Default *)
  irq_routes,  (* IrqRouteTable.irq_routes                                  *)
  gsi_bitmap,  (* IrqRouteTable.gsi_bitmap: the GSIs that are taken         *)
  pinned,      (* init_irq_route_table was called                           *)
  own,         (* the GSIs each device holds                                *)
  early,       (* history: the GSIs devices held before init_irq_route_table*)
  result       (* what the last call returned                               *)

vars == <<gsi_count, irq_routes, gsi_bitmap, pinned, own, early, result>>

-----------------------------------------------------------------------------
get_maximum_gsi_cnt(answer) == IF answer < 0 THEN 0 ELSE answer

(* IrqRouteTable::new makes a bitmap of that many words.                    *)
vol == gsi_count * W

Bits == INSTANCE BitSet WITH Vols <- {n * W : n \in Nat}, Numbers <- Nat, bits <- gsi_bitmap

Pins == 0..(IoapicPins - 1)
Held == UNION {own[d] : d \in Devices}

Route(gsi, kind, to) == [gsi |-> gsi, kind |-> kind, to |-> to]

(* The routes of the pins: GSIs of the two PICs also lead to the IOAPIC.    *)
SlavePinWhole(gsi) == gsi           \* faulty: the pin is not counted from 0
SlavePin(gsi)      == gsi - MasterPins

PinRoutes ==
  [i \in 1..MasterPins |-> Route(i - 1, "PIC_MASTER", i - 1)]
  \o [i \in 1..SlavePins |->
        Route(MasterPins + i - 1, "PIC_SLAVE", SlavePin(MasterPins + i - 1))]
  \o [i \in 1..IoapicPins |-> Route(i - 1, "IOAPIC", i - 1)]

Init ==
  /\ \E answer \in GsiCounts : gsi_count = get_maximum_gsi_cnt(answer)
  /\ irq_routes = <<>>
  /\ gsi_bitmap = {}
  /\ pinned = FALSE
  /\ own = [d \in Devices |-> {}] /\ early = {}
  /\ result = "Ok"

-----------------------------------------------------------------------------
(* init_irq_route_table pushes the route of a pin before it takes its GSI;  *)
(* the unwrap panics at the first GSI beyond the bitmap.                    *)
PinBitsNone == {}                   \* faulty: the GSIs are not taken
PinBits     == Pins

init_irq_route_table ==
  /\ ~pinned
  /\ pinned' = TRUE /\ early' = Held
  /\ IF IoapicPins <= vol
     THEN /\ irq_routes' = irq_routes \o PinRoutes
          /\ gsi_bitmap' = gsi_bitmap \cup PinBits
          /\ result' = "Ok"
     ELSE /\ irq_routes' = irq_routes \o SubSeq(PinRoutes, 1, MasterPins + SlavePins + vol + 1)
          /\ gsi_bitmap' = gsi_bitmap \cup 0..(vol - 1)
          /\ result' = "Panic"
  /\ UNCHANGED <<own, gsi_count>>

MsiRoute(gsi, v) == Route(gsi, "MSI", v)

(* The routes of some GSIs, in order, found entry by entry.                 *)
RoutesOf(routes, gsis) ==
  LET kept[i \in 0..Len(routes)] ==
        IF i = 0 THEN <<>>
        ELSE IF routes[i].gsi \in gsis THEN Append(kept[i - 1], routes[i])
        ELSE kept[i - 1]
  IN  kept[Len(routes)]

Without(gsi) == RoutesOf(irq_routes, Nat \ {gsi})
get_irq_route_entry(gsi) == RoutesOf(irq_routes, {gsi})

add_msi_route(d, gsi, v) ==
  /\ gsi \in own[d]
  /\ Cardinality({i \in DOMAIN irq_routes : irq_routes[i].kind = "MSI"}) < MaxRoutes
  /\ irq_routes' = Append(irq_routes, MsiRoute(gsi, v))
  /\ result' = "Ok"
  /\ UNCHANGED <<gsi_count, gsi_bitmap, pinned, own, early>>

update_msi_route(d, gsi, v) ==
  /\ gsi \in own[d]
  /\ irq_routes' = Append(Without(gsi), MsiRoute(gsi, v))
  /\ result' = "Ok"
  /\ UNCHANGED <<gsi_count, gsi_bitmap, pinned, own, early>>

(* The first GSI that is not taken, or the volume, which cannot be set.     *)
FreeGsisShort == 0..(vol - 2) \ gsi_bitmap  \* faulty: the last one is not seen
FreeGsis      == 0..(vol - 1) \ gsi_bitmap
NextFree      == IF FreeGsis = {} THEN vol
                 ELSE CHOOSE g \in FreeGsis : \A f \in FreeGsis : g <= f

allocate_gsi_untaken(d) ==          \* faulty: the GSI is not taken
  /\ result' = IF NextFree < vol THEN "Ok" ELSE "Err"
  /\ own' = [own EXCEPT ![d] = IF NextFree < vol THEN @ \cup {NextFree} ELSE @]
  /\ UNCHANGED <<gsi_count, irq_routes, gsi_bitmap, pinned, early>>
allocate_gsi(d) ==
  /\ UNCHANGED <<gsi_count, irq_routes, pinned, early>>
  /\ Bits!Set(NextFree)
  /\ own' = [own EXCEPT ![d] = IF result' = "Ok" THEN @ \cup {NextFree} ELSE @]

release_gsi_routed(d, gsi) ==       \* faulty: the routes stay
  /\ gsi \in own[d]
  /\ UNCHANGED <<gsi_count, irq_routes, pinned, early>>
  /\ Bits!Clear(gsi)
  /\ own' = [own EXCEPT ![d] = @ \ {gsi}]
release_gsi(d, gsi) ==
  /\ gsi \in own[d]
  /\ UNCHANGED <<gsi_count, pinned, early>>
  /\ Bits!Clear(gsi)
  /\ irq_routes' = IF result' = "Ok" THEN Without(gsi) ELSE irq_routes
  /\ own' = [own EXCEPT ![d] = @ \ {gsi}]

(* A panic ends the program.                                                *)
Next ==
  /\ result # "Panic"
  /\ \/ init_irq_route_table
     \/ \E d \in Devices :
          \/ allocate_gsi(d)
          \/ \E gsi \in own[d] : release_gsi(d, gsi)
          \/ \E gsi \in own[d], v \in Vectors :
               add_msi_route(d, gsi, v) \/ update_msi_route(d, gsi, v)

Spec == Init /\ [][Next]_vars

-----------------------------------------------------------------------------
Gsis   == 0..(vol - 1)
Routes == [gsi : Nat, kind : {"PIC_MASTER"}, to : 0..(MasterPins - 1)]
          \cup [gsi : Nat, kind : {"PIC_SLAVE"}, to : 0..(SlavePins - 1)]
          \cup [gsi : Nat, kind : {"IOAPIC"}, to : 0..(IoapicPins - 1)]
          \cup [gsi : Nat, kind : {"MSI"}, to : Vectors]

(* Every variable has its type.                                             *)
TypeOK ==
  /\ gsi_count \in Nat
  /\ irq_routes \in Seq(Routes)
  /\ gsi_bitmap \subseteq Gsis
  /\ pinned \in BOOLEAN
  /\ own \in [Devices -> SUBSET Gsis] /\ early \subseteq Gsis
  /\ result \in {"Ok", "Err", "Panic"}

Initialised == pinned /\ result # "Panic"

(* No GSI is lost and none has two owners.  Before init_irq_route_table a   *)
(* GSI is taken exactly if one device has it, and afterwards if a pin or a  *)
(* device has it, apart from those that devices held before the pins were   *)
(* set up: only of these a device may have the one of a pin, or have        *)
(* released it under the pin.                                               *)
GsiAccounted ==
  /\ \A d, e \in Devices : d # e => own[d] \cap own[e] = {}
  /\ ~pinned => gsi_bitmap = Held
  /\ Initialised =>
       /\ Held \subseteq gsi_bitmap /\ gsi_bitmap \subseteq Held \cup Pins
       /\ Pins \ gsi_bitmap \subseteq early
       /\ Held \cap Pins \subseteq early

(* A device that is given a GSI does not inherit a route of an earlier one. *)
NoStaleRoute ==
  [][\A d \in Devices : \A gsi \in own'[d] \ own[d] :
       \A i \in DOMAIN irq_routes : irq_routes[i].gsi # gsi]_vars

(* No call of a device disturbs the routes of a pin, in whatever order the  *)
(* devices and init_irq_route_table come, unless a device held the GSI of   *)
(* that pin before.                                                         *)
PinsKeepRoutes ==
  Initialised => \A gsi \in Pins \ early :
    get_irq_route_entry(gsi) = RoutesOf(PinRoutes, {gsi})

(* An allocation is refused only when every GSI is taken, whatever has been *)
(* released before.                                                         *)
RefusedWhenFull == result = "Err" => gsi_bitmap = Gsis

(* init_irq_route_table (interrupt.rs:116): "This unwrap() will never fail, *)
(* it is safe."                                                             *)
UnwrapNeverFails == result # "Panic"
=============================================================================
