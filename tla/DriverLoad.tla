------------------------------- MODULE DriverLoad -------------------------------
(***************************************************************************)
(* Loading and unloading of the driver (driver/rtd-dm35425.c): probing the *)
(* boards, claiming their PCI regions and interrupts, registering the      *)
(* character device, and giving all of it back, on unloading and wherever  *)
(* a step of the loading fails.                                            *)
(*                                                                         *)
(* What the kernel has granted is `held'; what the driver believes to have *)
(* is in its descriptors, and decides what it gives back.  The interrupt   *)
(* line is shared, so that a registered handler may be called at any time. *)
(***************************************************************************)
EXTENDS Integers, FiniteSets

CONSTANTS
  Bars,         \* the sets of boards: for each minor number and region the kind of BAR
  NumRegions,   \* DM35425_PCI_NUM_REGIONS
  Faults        \* the steps of the driver and the library that may fail

Region == 0 .. NumRegions - 1

ASSUME LoadAssumption ==
  /\ NumRegions \in Nat
  /\ \A b \in Bars :
       /\ IsFiniteSet(DOMAIN b)
       /\ b \in [0 .. Cardinality(DOMAIN b) - 1
                  -> [Region -> {"absent", "io", "memory", "invalid"}]]

VARIABLES
  bars,       \* the boards that are there
  devices,    \* whether dm35425_devices is not NULL
  desc,       \* the descriptors, of all boards
  held,       \* what the kernel has granted
  twice,      \* what was given back though it was not held any more
  loader,     \* where loading or unloading is
  minor,      \* the board it is at
  region,     \* the region it is at
  calls       \* calls of release_resources still to come

loadVars == <<bars, devices, desc, held, twice, loader, minor, region, calls>>

Minors == DOMAIN bars
Zeroed == [io |-> {}, virt |-> {}, allocated |-> {}, irq |-> FALSE, reference_count |-> 0]

LoadInit ==
  /\ bars \in Bars
  /\ devices = FALSE
  /\ desc = [m \in Minors |-> Zeroed]
  /\ held = {}
  /\ twice = {}
  /\ loader = "out"
  /\ minor = 0 /\ region = 0 /\ calls = 0

Take(what) == held' = held \cup what /\ UNCHANGED twice
Give(what) == held' = held \ what /\ twice' = twice \cup (what \ held)

Reference(m) == <<"pci device", m>>
Irq(m) == <<"irq", m>>
Map(m, r) == <<"map", m, r>>
Claim(m, r) == <<"range", m, r>>
Node(m) == <<"node", m>>
Memory == <<"descriptors">>
Numbers == <<"numbers">>
Cdev == <<"cdev">>
Class == <<"class">>

At(where) == loader = where
Go(where) == loader' = where
-----------------------------------------------------------------------------
(* Probing.                                                                *)

\* release_resources is called by the step that fails, and again by its caller.
Fail(n) ==
  /\ Go("free_irq")
  /\ minor' = 0 /\ region' = 0
  /\ calls' = n

\* With no board, or no memory for the descriptors, loading ends at once.
Load ==
  /\ At("out")
  /\ Minors # {}
  /\ devices' = TRUE
  /\ desc' = [m \in Minors |-> Zeroed]
  /\ Take({Memory, Reference(0)})
  /\ Go("enable")
  /\ UNCHANGED <<bars, minor, region, calls>>

Enable ==
  /\ At("enable")
  /\ \/ Go("regions") /\ UNCHANGED <<minor, region, calls>>
     \/ "enable" \in Faults /\ Fail(1)
  /\ UNCHANGED <<bars, devices, desc, held, twice>>

NextRegion == region' = region + 1 /\ UNCHANGED <<loader, minor, calls>>

SkipRegion ==
  /\ At("regions") /\ region < NumRegions
  /\ bars[minor][region] = "absent"
  /\ NextRegion
  /\ UNCHANGED <<bars, devices, desc, held, twice>>

ClaimPorts ==
  /\ At("regions") /\ region < NumRegions
  /\ bars[minor][region] = "io"
  /\ \/ /\ Take({Claim(minor, region)})
        /\ desc' = [desc EXCEPT ![minor].io = @ \cup {region}]
        /\ NextRegion
     \/ "range" \in Faults /\ Fail(2) /\ UNCHANGED <<desc, held, twice>>
  /\ UNCHANGED <<bars, devices>>

\* The region is mapped first, and claimed when that has succeeded.
MapMemory ==
  /\ At("regions") /\ region < NumRegions
  /\ bars[minor][region] = "memory"
  /\ \/ /\ Take({Map(minor, region), Claim(minor, region)})
        /\ desc' = [desc EXCEPT ![minor].virt = @ \cup {region},
                                ![minor].allocated = @ \cup {region}]
        /\ NextRegion
     \/ "map" \in Faults /\ Fail(2) /\ UNCHANGED <<desc, held, twice>>
     \/ /\ "range" \in Faults
        /\ Take({Map(minor, region)})
        /\ desc' = [desc EXCEPT ![minor].virt = @ \cup {region}]
        /\ Fail(2)
  /\ UNCHANGED <<bars, devices>>

RefuseRegion ==
  /\ At("regions") /\ region < NumRegions
  /\ bars[minor][region] = "invalid"
  /\ Fail(2)
  /\ UNCHANGED <<bars, devices, desc, held, twice>>

RegionsDone ==
  /\ At("regions") /\ region = NumRegions
  /\ Go("irq")
  /\ region' = 0
  /\ UNCHANGED <<bars, devices, desc, held, twice, minor, calls>>

\* irq_number tells that there is a handler to remove.
AllocateIrq ==
  /\ At("irq")
  /\ \/ /\ Take({Irq(minor)})
        /\ desc' = [desc EXCEPT ![minor].irq = TRUE]
        /\ Go("hardware")
        /\ UNCHANGED <<minor, region, calls>>
     \/ "irq" \in Faults /\ Fail(2) /\ UNCHANGED <<desc, held, twice>>
  /\ UNCHANGED <<bars, devices>>

\* The hardware is initialised; the search takes the next board and lets go of
\* this one.
NextDevice ==
  /\ At("hardware")
  /\ held' = (held \ {Reference(minor)}) \cup {Reference(m) : m \in Minors \cap {minor + 1}}
  /\ IF minor + 1 \in Minors THEN Go("enable") /\ minor' = minor + 1
                             ELSE Go("numbers") /\ minor' = 0
  /\ UNCHANGED <<bars, devices, desc, twice, region, calls>>
-----------------------------------------------------------------------------
(* Registering the character device.                                       *)

TakeNumbers ==
  /\ At("numbers")
  /\ \/ Take({Numbers}) /\ Go("cdev") /\ UNCHANGED <<minor, region, calls>>
     \/ "numbers" \in Faults /\ Fail(1) /\ UNCHANGED <<held, twice>>
  /\ UNCHANGED <<bars, devices, desc>>

\* class_create and device_create answer no NULL, the only failure that is
\* looked for.
AddCdev ==
  /\ At("cdev")
  /\ \/ Take({Cdev, Class}) /\ Go("nodes") /\ UNCHANGED <<minor, region, calls>>
     \/ "cdev" \in Faults /\ Give({Numbers}) /\ Fail(1)
  /\ UNCHANGED <<bars, devices, desc>>

CreateNode ==
  /\ At("nodes")
  /\ Take({Node(minor)})
  /\ IF minor + 1 \in Minors THEN minor' = minor + 1 /\ UNCHANGED loader
                             ELSE minor' = 0 /\ Go("loaded")
  /\ UNCHANGED <<bars, devices, desc, region, calls>>
-----------------------------------------------------------------------------
(* Giving back: release_resources, board after board.                      *)

\* A plausible error: the handler stays.
FreeIrq_Forgotten ==
  /\ At("free_irq") /\ devices /\ minor \in Minors
  /\ Go("free_regions")
  /\ UNCHANGED <<bars, devices, desc, held, twice, minor, region, calls>>

FreeIrq ==
  /\ At("free_irq") /\ devices /\ minor \in Minors
  /\ Give(IF desc[minor].irq THEN {Irq(minor)} ELSE {})
  /\ Go("free_regions")
  /\ UNCHANGED <<bars, devices, desc, minor, region, calls>>

\* What was mapped is unmapped, and released when it was claimed too.
ReleaseRegions ==
  /\ At("free_regions")
  /\ Give({Map(minor, r) : r \in desc[minor].virt}
            \cup {Claim(minor, r) : r \in desc[minor].allocated \cup desc[minor].io})
  /\ minor' = minor + 1
  /\ Go("free_irq")
  /\ UNCHANGED <<bars, devices, desc, region, calls>>

\* A plausible error: the pointer keeps its value.
FreeDescriptors_KeepsPointer ==
  /\ At("free_irq") /\ devices /\ minor \notin Minors
  /\ Give({Memory})
  /\ calls' = calls - 1
  /\ minor' = 0
  /\ UNCHANGED <<bars, loader, devices, desc, region>>

FreeDescriptors ==
  /\ At("free_irq") /\ devices /\ minor \notin Minors
  /\ Give({Memory})
  /\ devices' = FALSE
  /\ desc' = [m \in Minors |-> Zeroed]
  /\ calls' = calls - 1
  /\ minor' = 0
  /\ UNCHANGED <<bars, loader, region>>

\* A call that finds no descriptors releases nothing.
ReleaseNothing ==
  /\ At("free_irq") /\ ~devices /\ calls > 0
  /\ calls' = calls - 1
  /\ UNCHANGED <<bars, devices, desc, held, twice, loader, minor, region>>

\* The probe lets go of the board that it was at.
LoadFailed ==
  /\ At("free_irq") /\ ~devices /\ calls = 0
  /\ Cdev \notin held
  /\ Give({h \in held : h[1] = "pci device"})
  /\ Go("out")
  /\ UNCHANGED <<bars, devices, desc, minor, region, calls>>

\* The kernel unloads a module that nobody uses.
Unload(unused) ==
  /\ At("loaded") /\ unused
  /\ Fail(1)
  /\ UNCHANGED <<bars, devices, desc, held, twice>>

\* class_destroy, after class_unregister, gives the class back a second time.
Unregister ==
  /\ At("free_irq") /\ ~devices /\ calls = 0
  /\ Cdev \in held
  /\ LET what == {Cdev, Class, Numbers} \cup {Node(m) : m \in Minors}
     IN /\ held' = held \ what
        /\ twice' = twice \cup (what \ held) \cup {Class}
  /\ Go("out")
  /\ UNCHANGED <<bars, devices, desc, minor, region, calls>>

Loading ==
  \/ Load \/ Enable \/ SkipRegion \/ ClaimPorts \/ MapMemory \/ RefuseRegion
  \/ RegionsDone \/ AllocateIrq \/ NextDevice \/ TakeNumbers \/ AddCdev \/ CreateNode

Releasing ==
  \/ FreeIrq \/ ReleaseRegions \/ FreeDescriptors \/ ReleaseNothing
  \/ LoadFailed \/ Unregister
-----------------------------------------------------------------------------
LoadTypeOK ==
  /\ devices \in BOOLEAN
  /\ \A m \in Minors :
       /\ desc[m].io \cup desc[m].virt \cup desc[m].allocated \subseteq Region
       /\ desc[m].irq \in BOOLEAN
  /\ loader \in {"out", "enable", "regions", "irq", "hardware", "numbers", "cdev", "nodes",
                 "loaded", "free_irq", "free_regions"}
  /\ minor \in Nat /\ region \in 0 .. NumRegions /\ calls \in 0 .. 2

\* A handler may be called as long as it is registered, from the request in the
\* probe to the release: all that time its descriptor and the registers of its
\* board are there.  The same holds of every board that a process can open.
HandlerHasRegisters ==
  \A m \in Minors :
    Irq(m) \in held \/ (Node(m) \in held /\ loader \in {"nodes", "loaded"})
      => /\ devices /\ Memory \in held
         /\ \A r \in Region :
              /\ bars[m][r] = "memory" => {Map(m, r), Claim(m, r)} \subseteq held
              /\ bars[m][r] = "io" => Claim(m, r) \in held
              /\ bars[m][r] # "invalid"
=============================================================================
