---------------------------- MODULE DriverLoadProofs ----------------------------
(***************************************************************************)
(* Proofs about loading and unloading the driver: for any number of boards *)
(* and regions, and with any of the faults.  LoadInv says, for each place  *)
(* of the loading and releasing, what the kernel has granted and what the  *)
(* descriptors say of it.                                                  *)
(***************************************************************************)
EXTENDS DriverLoad, FiniteSetTheorems, TLAPS

Probing == loader \in {"enable", "regions", "irq", "hardware"}
InUse == loader \in {"nodes", "loaded"}
Freeing == loader \in {"free_irq", "free_regions"}
Place == {"out", "enable", "regions", "irq", "hardware", "numbers", "cdev", "nodes",
          "loaded", "free_irq", "free_regions"}
Descriptor == [io : SUBSET Region, virt : SUBSET Region, allocated : SUBSET Region,
               irq : BOOLEAN, reference_count : Nat]

\* The boards whose handler, or whose regions, release_resources has given back.
IrqFreed(m) ==
  \/ loader = "free_irq" /\ m < minor
  \/ loader = "free_regions" /\ m <= minor
RegionsFreed(m) == Freeing /\ m < minor

\* Region r of board m is claimed as its kind asks.
Complete(m, r) ==
  /\ bars[m][r] = "memory" => r \in desc[m].virt /\ r \in desc[m].allocated
  /\ bars[m][r] = "io" => r \in desc[m].io
  /\ bars[m][r] # "invalid"

PlaceOK ==
  /\ bars \in Bars
  /\ devices \in BOOLEAN
  /\ loader \in Place
  /\ calls \in 0 .. 2
  /\ minor \in Nat /\ region \in 0 .. NumRegions
  /\ Probing \/ loader \in {"nodes", "free_regions"} => minor \in Minors
  /\ loader \in {"out", "numbers", "cdev", "loaded"} => minor = 0
  /\ loader # "regions" => region = 0
  /\ loader = "out" => ~devices
  /\ loader \notin {"out", "free_irq"} => devices
  /\ Freeing /\ devices => calls > 0
  /\ ~devices => minor = 0
  /\ devices => Minors # {}

\* A handler is registered for a board only when its regions are complete.
DescOK ==
  /\ desc \in [Minors -> Descriptor]
  /\ \A m \in Minors :
       /\ ~devices => desc[m] = Zeroed
       /\ desc[m].irq => \A r \in Region : Complete(m, r)

ProgressOK ==
  /\ loader = "regions" => \A r \in Region : r < region => Complete(minor, r)
  /\ loader = "irq" => \A r \in Region : Complete(minor, r)
  /\ loader = "hardware" => desc[minor].irq
  /\ Probing => \A m \in Minors : m < minor => desc[m].irq
  /\ loader \in {"numbers", "cdev"} \/ InUse => \A m \in Minors : desc[m].irq

Grants ==
  {Memory, Numbers, Cdev, Class}
    \cup {Reference(m) : m \in Minors} \cup {Irq(m) : m \in Minors} \cup {Node(m) : m \in Minors}
    \cup {Map(m, r) : m \in Minors, r \in Region} \cup {Claim(m, r) : m \in Minors, r \in Region}

\* The kernel has granted what the descriptors say, as far as it is not given back.
IrqHeld(m) == Irq(m) \in held <=> desc[m].irq /\ ~IrqFreed(m)

RegionHeld(m, r) ==
  /\ Map(m, r) \in held <=> r \in desc[m].virt /\ ~RegionsFreed(m)
  /\ Claim(m, r) \in held <=> (r \in desc[m].allocated \/ r \in desc[m].io) /\ ~RegionsFreed(m)

DeviceHeld ==
  /\ Memory \in held <=> devices
  /\ Class \in held <=> Cdev \in held
  /\ Numbers \in held <=> Cdev \in held \/ loader = "cdev"
  /\ Cdev \in held => InUse \/ Freeing
  /\ InUse => Cdev \in held

NodeHeld(m) == Node(m) \in held <=> Cdev \in held /\ (loader = "nodes" => m < minor)
ReferenceHeld(m) ==
  Reference(m) \in held => Cdev \notin held /\ ((Probing /\ m = minor) \/ Freeing)

HeldOK ==
  /\ held \subseteq Grants
  /\ DeviceHeld
  /\ \A m \in Minors : IrqHeld(m) /\ NodeHeld(m) /\ ReferenceHeld(m)
  /\ \A m \in Minors, r \in Region : RegionHeld(m, r)

LoadInv == PlaceOK /\ DescOK /\ ProgressOK /\ HeldOK /\ twice \subseteq {Class}

(* The boards are numbered from 0.                                         *)
LEMMA BoardsAreNumbered ==
  ASSUME PlaceOK
  PROVE  \E n \in Nat : Minors = 0 .. n - 1
<1>1. IsFiniteSet(DOMAIN bars) /\ DOMAIN bars = 0 .. Cardinality(DOMAIN bars) - 1
  BY LoadAssumption DEF PlaceOK
<1> QED BY <1>1, FS_CardinalityType DEF Minors

(* What the kernel grants has a name of its own.                           *)
LEMMA NamesApart ==
  /\ Memory # Numbers /\ Memory # Cdev /\ Memory # Class
  /\ Numbers # Cdev /\ Numbers # Class /\ Cdev # Class
  /\ \A m : Reference(m) # Memory /\ Reference(m) # Numbers /\ Reference(m) # Cdev
       /\ Reference(m) # Class
  /\ \A m : Irq(m) # Memory /\ Irq(m) # Numbers /\ Irq(m) # Cdev /\ Irq(m) # Class
  /\ \A m : Node(m) # Memory /\ Node(m) # Numbers /\ Node(m) # Cdev /\ Node(m) # Class
  /\ \A m, r : Map(m, r) # Memory /\ Map(m, r) # Numbers /\ Map(m, r) # Cdev /\ Map(m, r) # Class
  /\ \A m, r : Claim(m, r) # Memory /\ Claim(m, r) # Numbers /\ Claim(m, r) # Cdev
       /\ Claim(m, r) # Class
  /\ \A m, k : Reference(m) # Irq(k) /\ Reference(m) # Node(k) /\ Irq(m) # Node(k)
  /\ \A m, k, r : Map(m, r) # Reference(k) /\ Map(m, r) # Irq(k) /\ Map(m, r) # Node(k)
  /\ \A m, k, r : Claim(m, r) # Reference(k) /\ Claim(m, r) # Irq(k) /\ Claim(m, r) # Node(k)
  /\ \A m, k, r, s : Map(m, r) # Claim(k, s)
  /\ \A m, k : Reference(m) = Reference(k) => m = k
  /\ \A m, k : Irq(m) = Irq(k) => m = k
  /\ \A m, k : Node(m) = Node(k) => m = k
  /\ \A m, k, r, s : Map(m, r) = Map(k, s) => m = k /\ r = s
  /\ \A m, k, r, s : Claim(m, r) = Claim(k, s) => m = k /\ r = s
BY DEF Memory, Numbers, Cdev, Class, Reference, Irq, Node, Map, Claim

(* Only a reference to a board is of the kind that LoadFailed gives back.  *)
LEMMA NameKinds ==
  /\ Memory[1] # "pci device" /\ Numbers[1] # "pci device" /\ Cdev[1] # "pci device"
       /\ Class[1] # "pci device"
  /\ \A m : Reference(m)[1] = "pci device" /\ Irq(m)[1] # "pci device" /\ Node(m)[1] # "pci device"
  /\ \A m, r : Map(m, r)[1] # "pci device" /\ Claim(m, r)[1] # "pci device"
BY DEF Memory, Numbers, Cdev, Class, Reference, Irq, Node, Map, Claim

(* A step of the loading that fails with nothing granted leads to the      *)
(* releasing of what the descriptors say.                                  *)
LEMMA FailKeepsHeld ==
  ASSUME LoadInv, loader \notin {"free_irq", "free_regions", "cdev", "nodes"},
         UNCHANGED <<bars, devices, desc, held, twice>>,
         loader' = "free_irq", minor' = 0
  PROVE  HeldOK'
<1>1. PICK n \in Nat : Minors = 0 .. n - 1
  BY BoardsAreNumbered DEF LoadInv
<1>2. Minors' = Minors /\ Grants' = Grants
  BY DEF Minors, Grants
<1>3. DeviceHeld'
  BY DEF LoadInv, HeldOK, DeviceHeld, InUse, Freeing
<1>4. \A m \in Minors : IrqHeld(m)' /\ NodeHeld(m)' /\ ReferenceHeld(m)'
  BY <1>1
    DEF LoadInv, HeldOK, DeviceHeld, IrqHeld, NodeHeld, ReferenceHeld, IrqFreed, InUse, Freeing
<1>5. \A m \in Minors, r \in Region : RegionHeld(m, r)'
  BY <1>1 DEF LoadInv, HeldOK, RegionHeld, RegionsFreed, Freeing
<1> QED BY <1>2, <1>3, <1>4, <1>5 DEF LoadInv, HeldOK

(* One lemma for each step of the loading and the releasing: it keeps the  *)
(* descriptors and what the kernel granted in agreement, and gives nothing *)
(* but the class back twice.                                               *)
LEMMA LoadKeepsHeld ==
  ASSUME LoadInv, Load
  PROVE  HeldOK' /\ twice' \subseteq {Class}
<1> USE DEF LoadInv, HeldOK
<1>0. bars' = bars /\ Minors' = Minors
  BY DEF Load, Minors
<1>00. PICK n \in Nat : Minors = 0 .. n - 1
  BY BoardsAreNumbered
<1>1. /\ loader = "out" /\ loader' = "enable" /\ ~devices /\ devices' /\ minor = 0 /\ minor' = 0
      /\ 0 \in Minors /\ held' = held \cup {Memory, Reference(0)} /\ twice' = twice
  BY <1>0, <1>00, LoadAssumption DEF Load, At, Go, Take, Give, Fail, NextRegion, PlaceOK, Probing
<1>2. \A m \in Minors : ~desc[m].irq /\ ~desc'[m].irq /\ desc[m].virt = {} /\ desc'[m].virt = {}
        /\ desc[m].allocated = {} /\ desc'[m].allocated = {} /\ desc[m].io = {} /\ desc'[m].io = {}
  <2>1. desc' = [m \in Minors |-> Zeroed]
    BY <1>0, <1>00, LoadAssumption DEF Load, At, Go, Take, Give, Fail, NextRegion, PlaceOK, Probing
  <2> QED BY <1>0, <1>1, <2>1 DEF DescOK, Descriptor, Zeroed
<1>3. Grants' = Grants /\ (held \subseteq Grants)' /\ twice' \subseteq {Class}
  BY <1>0, <1>1, NamesApart DEF Grants
<1>4. DeviceHeld'
  BY <1>0, <1>1, NamesApart DEF DeviceHeld, PlaceOK, InUse, Freeing, Probing
<1>5. \A m \in Minors : IrqHeld(m)'
  BY <1>0, <1>1, <1>2, NamesApart, <1>00 DEF IrqHeld, IrqFreed, PlaceOK
<1>6. \A m \in Minors : NodeHeld(m)'
  BY <1>0, <1>1, NamesApart, <1>00 DEF NodeHeld, DeviceHeld, PlaceOK, InUse, Freeing, Probing
<1>7. \A m \in Minors : ReferenceHeld(m)'
  BY <1>0, <1>1, NamesApart, <1>00 DEF ReferenceHeld, DeviceHeld, PlaceOK, InUse, Freeing, Probing
<1>8. \A m \in Minors, r \in Region : RegionHeld(m, r)'
  BY <1>0, <1>1, <1>2, NamesApart, <1>00 DEF RegionHeld, RegionsFreed, Freeing, PlaceOK
<1> QED BY <1>0, <1>1, <1>3, <1>4, <1>5, <1>6, <1>7, <1>8

LEMMA EnableKeepsHeld ==
  ASSUME LoadInv, Enable
  PROVE  HeldOK' /\ twice' \subseteq {Class}
<1> USE DEF LoadInv, HeldOK
<1>0. bars' = bars /\ Minors' = Minors
  BY DEF Enable, Minors
<1>00. PICK n \in Nat : Minors = 0 .. n - 1
  BY BoardsAreNumbered
<1>1. CASE loader' = "regions"
  <2>1. loader = "enable" /\ desc' = desc /\ held' = held /\ twice' = twice /\ devices' = devices
          /\ minor' = minor /\ minor \in Minors
    BY <1>1, <1>0, <1>00, LoadAssumption
      DEF Enable, At, Go, Take, Give, Fail, NextRegion, PlaceOK, Probing
  <2>3. Grants' = Grants /\ (held \subseteq Grants)' /\ twice' \subseteq {Class}
    BY <1>0, <1>1, <2>1, NamesApart DEF Grants
  <2>4. DeviceHeld'
    BY <1>0, <1>1, <2>1, NamesApart DEF DeviceHeld, PlaceOK, InUse, Freeing, Probing
  <2>5. \A m \in Minors : IrqHeld(m)'
    BY <1>0, <1>1, <2>1, NamesApart, <1>00 DEF IrqHeld, IrqFreed, PlaceOK
  <2>6. \A m \in Minors : NodeHeld(m)'
    BY <1>0, <1>1, <2>1, NamesApart, <1>00
      DEF NodeHeld, DeviceHeld, PlaceOK, InUse, Freeing, Probing
  <2>7. \A m \in Minors : ReferenceHeld(m)'
    BY <1>0, <1>1, <2>1, NamesApart, <1>00
      DEF ReferenceHeld, DeviceHeld, PlaceOK, InUse, Freeing, Probing
  <2>8. \A m \in Minors, r \in Region : RegionHeld(m, r)'
    BY <1>0, <1>1, <2>1, NamesApart, <1>00 DEF RegionHeld, RegionsFreed, Freeing, PlaceOK
  <2> QED BY <1>0, <1>1, <2>1, <2>3, <2>4, <2>5, <2>6, <2>7, <2>8
<1>2. CASE loader' # "regions"
  BY <1>2, FailKeepsHeld DEF Enable, At, Go, Take, Give, Fail, NextRegion
<1> QED BY <1>1, <1>2 DEF Enable, At, Go, Take, Give, Fail, NextRegion, PlaceOK

LEMMA SkipRegionKeepsHeld ==
  ASSUME LoadInv, SkipRegion
  PROVE  HeldOK' /\ twice' \subseteq {Class}
<1> USE DEF LoadInv, HeldOK
<1>0. bars' = bars /\ Minors' = Minors
  BY DEF SkipRegion, Minors
<1>00. PICK n \in Nat : Minors = 0 .. n - 1
  BY BoardsAreNumbered
<1>1. desc' = desc /\ held' = held /\ twice' = twice /\ devices' = devices /\ loader' = loader
        /\ minor' = minor
  BY <1>0, <1>00, LoadAssumption
    DEF SkipRegion, At, Go, Take, Give, Fail, NextRegion, PlaceOK, Probing
<1>3. Grants' = Grants /\ (held \subseteq Grants)' /\ twice' \subseteq {Class}
  BY <1>0, <1>1, NamesApart DEF Grants
<1>4. DeviceHeld'
  BY <1>0, <1>1, NamesApart DEF DeviceHeld, PlaceOK, InUse, Freeing, Probing
<1>5. \A m \in Minors : IrqHeld(m)'
  BY <1>0, <1>1, NamesApart, <1>00 DEF IrqHeld, IrqFreed, PlaceOK
<1>6. \A m \in Minors : NodeHeld(m)'
  BY <1>0, <1>1, NamesApart, <1>00 DEF NodeHeld, DeviceHeld, PlaceOK, InUse, Freeing, Probing
<1>7. \A m \in Minors : ReferenceHeld(m)'
  BY <1>0, <1>1, NamesApart, <1>00 DEF ReferenceHeld, DeviceHeld, PlaceOK, InUse, Freeing, Probing
<1>8. \A m \in Minors, r \in Region : RegionHeld(m, r)'
  BY <1>0, <1>1, NamesApart, <1>00 DEF RegionHeld, RegionsFreed, Freeing, PlaceOK
<1> QED BY <1>0, <1>1, <1>3, <1>4, <1>5, <1>6, <1>7, <1>8

LEMMA ClaimPortsKeepsHeld ==
  ASSUME LoadInv, ClaimPorts
  PROVE  HeldOK' /\ twice' \subseteq {Class}
<1> USE DEF LoadInv, HeldOK
<1>0. bars' = bars /\ Minors' = Minors
  BY DEF ClaimPorts, Minors
<1>00. PICK n \in Nat : Minors = 0 .. n - 1
  BY BoardsAreNumbered
<1>1. CASE loader' = "regions"
  <2>1. /\ loader = "regions" /\ devices' = devices /\ minor' = minor /\ minor \in Minors
             /\ region \in Region
        /\ held' = held \cup {Claim(minor, region)} /\ twice' = twice
    BY <1>1, <1>0, <1>00, LoadAssumption
      DEF ClaimPorts, At, Go, Take, Give, Fail, NextRegion, PlaceOK, Probing, Region
  <2>2. \A m \in Minors : /\ desc'[m].irq = desc[m].irq /\ desc'[m].virt = desc[m].virt
                          /\ desc'[m].allocated = desc[m].allocated
                          /\ desc'[m].io = IF m = minor THEN desc[m].io \cup {region}
                               ELSE desc[m].io
    <3>1. desc' = [desc EXCEPT ![minor].io = @ \cup {region}]
      BY <1>1, <1>0, <1>00, LoadAssumption
        DEF ClaimPorts, At, Go, Take, Give, Fail, NextRegion, PlaceOK, Probing, Region
    <3> QED BY <1>0, <1>1, <2>1, <3>1 DEF DescOK, Descriptor
  <2>3. Grants' = Grants /\ (held \subseteq Grants)' /\ twice' \subseteq {Class}
    BY <1>0, <1>1, <2>1, NamesApart DEF Grants
  <2>4. DeviceHeld'
    BY <1>0, <1>1, <2>1, NamesApart DEF DeviceHeld, PlaceOK, InUse, Freeing, Probing
  <2>5. \A m \in Minors : IrqHeld(m)'
    <3>1. \A m \in Minors : Irq(m) \in held' <=> Irq(m) \in held
      BY <1>0, <1>1, <2>1, NamesApart
    <3>2. \A m \in Minors : IrqFreed(m)' <=> IrqFreed(m)
      BY <1>0, <1>00, <1>1, <2>1 DEF IrqFreed
    <3> QED BY <1>0, <3>1, <3>2, <2>2 DEF IrqHeld
  <2>6. \A m \in Minors : NodeHeld(m)'
    BY <1>0, <1>1, <2>1, NamesApart, <1>00
      DEF NodeHeld, DeviceHeld, PlaceOK, InUse, Freeing, Probing
  <2>7. \A m \in Minors : ReferenceHeld(m)'
    BY <1>0, <1>1, <2>1, NamesApart, <1>00
      DEF ReferenceHeld, DeviceHeld, PlaceOK, InUse, Freeing, Probing
  <2>8. \A m \in Minors, r \in Region : RegionHeld(m, r)'
    <3>1. \A m \in Minors, r \in Region : Map(m, r) \in held' <=> Map(m, r) \in held
      BY <1>0, <1>1, <2>1, NamesApart
    <3>2. \A m \in Minors, r \in Region : Claim(m, r) \in held' <=> Claim(m, r) \in held
            \/ (m = minor /\ r = region)
      BY <1>0, <1>1, <2>1, NamesApart
    <3>3. \A m \in Minors : ~RegionsFreed(m) /\ ~RegionsFreed(m)'
      BY <1>0, <1>00, <1>1, <2>1 DEF RegionsFreed, Freeing
    <3>4. \A m \in Minors, r \in Region : Map(m, r) \in held' <=> r \in desc'[m].virt
      BY <3>1, <3>3, <1>0, <1>1, <2>1, <2>2 DEF RegionHeld
    <3>5. \A m \in Minors, r \in Region :
           Claim(m, r) \in held' <=> r \in desc'[m].allocated \/ r \in desc'[m].io
      BY <3>2, <3>3, <1>0, <1>1, <2>1, <2>2 DEF RegionHeld
    <3> QED BY <1>0, <3>3, <3>4, <3>5 DEF RegionHeld
  <2> QED BY <1>0, <1>1, <2>1, <2>3, <2>4, <2>5, <2>6, <2>7, <2>8
<1>2. CASE loader' # "regions"
  BY <1>2, FailKeepsHeld DEF ClaimPorts, At, Go, Take, Give, Fail, NextRegion
<1> QED BY <1>1, <1>2 DEF ClaimPorts, At, Go, Take, Give, Fail, NextRegion, PlaceOK

LEMMA MapMemoryKeepsHeld ==
  ASSUME LoadInv, MapMemory
  PROVE  HeldOK' /\ twice' \subseteq {Class}
<1> USE DEF LoadInv, HeldOK
<1>0. bars' = bars /\ Minors' = Minors
  BY DEF MapMemory, Minors
<1>00. PICK n \in Nat : Minors = 0 .. n - 1
  BY BoardsAreNumbered
<1>1. CASE loader' = "regions"
  <2>1. /\ loader = "regions" /\ devices' = devices /\ minor' = minor /\ minor \in Minors
             /\ region \in Region
        /\ held' = held \cup {Map(minor, region), Claim(minor, region)} /\ twice' = twice
    BY <1>1, <1>0, <1>00, LoadAssumption
      DEF MapMemory, At, Go, Take, Give, Fail, NextRegion, PlaceOK, Probing, Region
  <2>2. \A m \in Minors : /\ desc'[m].irq = desc[m].irq /\ desc'[m].io = desc[m].io
                          /\ desc'[m].virt = IF m = minor THEN desc[m].virt \cup {region}
                               ELSE desc[m].virt
                          /\ desc'[m].allocated = IF m = minor THEN desc[m].allocated \cup {region}
                                ELSE desc[m].allocated
    <3>1. desc' = [desc EXCEPT ![minor].virt = @ \cup {region}, ![minor].allocated = @ \cup {region}]
      BY <1>1, <1>0, <1>00, LoadAssumption
        DEF MapMemory, At, Go, Take, Give, Fail, NextRegion, PlaceOK, Probing, Region
    <3> QED BY <1>0, <1>1, <2>1, <3>1 DEF DescOK, Descriptor
  <2>3. Grants' = Grants /\ (held \subseteq Grants)' /\ twice' \subseteq {Class}
    BY <1>0, <1>1, <2>1, NamesApart DEF Grants
  <2>4. DeviceHeld'
    BY <1>0, <1>1, <2>1, NamesApart DEF DeviceHeld, PlaceOK, InUse, Freeing, Probing
  <2>5. \A m \in Minors : IrqHeld(m)'
    <3>1. \A m \in Minors : Irq(m) \in held' <=> Irq(m) \in held
      BY <1>0, <1>1, <2>1, NamesApart
    <3>2. \A m \in Minors : IrqFreed(m)' <=> IrqFreed(m)
      BY <1>0, <1>00, <1>1, <2>1 DEF IrqFreed
    <3> QED BY <1>0, <3>1, <3>2, <2>2 DEF IrqHeld
  <2>6. \A m \in Minors : NodeHeld(m)'
    BY <1>0, <1>1, <2>1, NamesApart, <1>00
      DEF NodeHeld, DeviceHeld, PlaceOK, InUse, Freeing, Probing
  <2>7. \A m \in Minors : ReferenceHeld(m)'
    BY <1>0, <1>1, <2>1, NamesApart, <1>00
      DEF ReferenceHeld, DeviceHeld, PlaceOK, InUse, Freeing, Probing
  <2>8. \A m \in Minors, r \in Region : RegionHeld(m, r)'
    <3>1. \A m \in Minors, r \in Region : Map(m, r) \in held' <=> Map(m, r) \in held
            \/ (m = minor /\ r = region)
      BY <1>0, <1>1, <2>1, NamesApart
    <3>2. \A m \in Minors, r \in Region : Claim(m, r) \in held' <=> Claim(m, r) \in held
            \/ (m = minor /\ r = region)
      BY <1>0, <1>1, <2>1, NamesApart
    <3>3. \A m \in Minors : ~RegionsFreed(m) /\ ~RegionsFreed(m)'
      BY <1>0, <1>00, <1>1, <2>1 DEF RegionsFreed, Freeing
    <3>4. \A m \in Minors, r \in Region : Map(m, r) \in held' <=> r \in desc'[m].virt
      BY <3>1, <3>3, <1>0, <1>1, <2>1, <2>2 DEF RegionHeld
    <3>5. \A m \in Minors, r \in Region :
           Claim(m, r) \in held' <=> r \in desc'[m].allocated \/ r \in desc'[m].io
      BY <3>2, <3>3, <1>0, <1>1, <2>1, <2>2 DEF RegionHeld
    <3> QED BY <1>0, <3>3, <3>4, <3>5 DEF RegionHeld
  <2> QED BY <1>0, <1>1, <2>1, <2>3, <2>4, <2>5, <2>6, <2>7, <2>8
<1>2. CASE loader' # "regions" /\ held' = held /\ desc' = desc
  BY <1>2, FailKeepsHeld DEF MapMemory, At, Go, Take, Give, Fail, NextRegion
<1>3. CASE loader' # "regions" /\ held' = held \cup {Map(minor, region)}
             /\ desc' = [desc EXCEPT ![minor].virt = @ \cup {region}]
  <2>0. minor \in Minors
    BY <1>3 DEF MapMemory, At, PlaceOK, Probing
  <2>1. /\ loader = "regions" /\ loader' = "free_irq" /\ devices' = devices /\ minor' = 0
             /\ minor \in Minors /\ region \in Region
        /\ held' = held \cup {Map(minor, region)} /\ twice' = twice
    BY <1>3, <1>0, <1>00, LoadAssumption
      DEF MapMemory, At, Go, Take, Give, Fail, NextRegion, PlaceOK, Probing, Region
  <2>2. \A m \in Minors : /\ desc'[m].irq = desc[m].irq /\ desc'[m].io = desc[m].io
                          /\ desc'[m].virt = IF m = minor THEN desc[m].virt \cup {region}
                               ELSE desc[m].virt
                          /\ desc'[m].allocated = desc[m].allocated
    <3>1. desc' = [desc EXCEPT ![minor].virt = @ \cup {region}]
      BY <1>3
    <3> QED BY <2>0, <3>1 DEF DescOK, Descriptor
  <2>3. Grants' = Grants /\ (held \subseteq Grants)' /\ twice' \subseteq {Class}
    BY <1>0, <1>3, <2>1, NamesApart DEF Grants
  <2>4. DeviceHeld'
    BY <1>0, <1>3, <2>1, NamesApart DEF DeviceHeld, PlaceOK, InUse, Freeing, Probing
  <2>5. \A m \in Minors : IrqHeld(m)'
    <3>1. \A m \in Minors : Irq(m) \in held' <=> Irq(m) \in held
      BY <1>0, <1>3, <2>1, NamesApart
    <3>2. \A m \in Minors : IrqFreed(m)' <=> IrqFreed(m)
      BY <1>0, <1>00, <1>3, <2>1 DEF IrqFreed
    <3> QED BY <1>0, <3>1, <3>2, <2>2 DEF IrqHeld
  <2>6. \A m \in Minors : NodeHeld(m)'
    BY <1>0, <1>3, <2>1, NamesApart, <1>00
      DEF NodeHeld, DeviceHeld, PlaceOK, InUse, Freeing, Probing
  <2>7. \A m \in Minors : ReferenceHeld(m)'
    BY <1>0, <1>3, <2>1, NamesApart, <1>00
      DEF ReferenceHeld, DeviceHeld, PlaceOK, InUse, Freeing, Probing
  <2>8. \A m \in Minors, r \in Region : RegionHeld(m, r)'
    <3>1. \A m \in Minors, r \in Region : Map(m, r) \in held' <=> Map(m, r) \in held
            \/ (m = minor /\ r = region)
      BY <1>0, <1>3, <2>1, NamesApart
    <3>2. \A m \in Minors, r \in Region : Claim(m, r) \in held' <=> Claim(m, r) \in held
      BY <1>0, <1>3, <2>1, NamesApart
    <3>3. \A m \in Minors : ~RegionsFreed(m) /\ ~RegionsFreed(m)'
      BY <1>0, <1>00, <1>3, <2>1 DEF RegionsFreed, Freeing
    <3>4. \A m \in Minors, r \in Region : Map(m, r) \in held' <=> r \in desc'[m].virt
      BY <3>1, <3>3, <1>0, <1>3, <2>1, <2>2 DEF RegionHeld
    <3>5. \A m \in Minors, r \in Region :
           Claim(m, r) \in held' <=> r \in desc'[m].allocated \/ r \in desc'[m].io
      BY <3>2, <3>3, <1>0, <1>3, <2>1, <2>2 DEF RegionHeld
    <3> QED BY <1>0, <3>3, <3>4, <3>5 DEF RegionHeld
  <2> QED BY <1>0, <1>3, <2>1, <2>3, <2>4, <2>5, <2>6, <2>7, <2>8
<1> QED BY <1>1, <1>2, <1>3 DEF MapMemory, At, Go, Take, Give, Fail, NextRegion, PlaceOK

LEMMA RefuseRegionKeepsHeld ==
  ASSUME LoadInv, RefuseRegion
  PROVE  HeldOK' /\ twice' \subseteq {Class}
BY FailKeepsHeld DEF RefuseRegion, At, Go, Take, Give, Fail, NextRegion, LoadInv

LEMMA RegionsDoneKeepsHeld ==
  ASSUME LoadInv, RegionsDone
  PROVE  HeldOK' /\ twice' \subseteq {Class}
<1> USE DEF LoadInv, HeldOK
<1>0. bars' = bars /\ Minors' = Minors
  BY DEF RegionsDone, Minors
<1>00. PICK n \in Nat : Minors = 0 .. n - 1
  BY BoardsAreNumbered
<1>1. desc' = desc /\ held' = held /\ twice' = twice /\ devices' = devices /\ loader = "regions"
        /\ loader' = "irq" /\ minor' = minor /\ minor \in Minors
  BY <1>0, <1>00, LoadAssumption
    DEF RegionsDone, At, Go, Take, Give, Fail, NextRegion, PlaceOK, Probing
<1>3. Grants' = Grants /\ (held \subseteq Grants)' /\ twice' \subseteq {Class}
  BY <1>0, <1>1, NamesApart DEF Grants
<1>4. DeviceHeld'
  BY <1>0, <1>1, NamesApart DEF DeviceHeld, PlaceOK, InUse, Freeing, Probing
<1>5. \A m \in Minors : IrqHeld(m)'
  BY <1>0, <1>1, NamesApart, <1>00 DEF IrqHeld, IrqFreed, PlaceOK
<1>6. \A m \in Minors : NodeHeld(m)'
  BY <1>0, <1>1, NamesApart, <1>00 DEF NodeHeld, DeviceHeld, PlaceOK, InUse, Freeing, Probing
<1>7. \A m \in Minors : ReferenceHeld(m)'
  BY <1>0, <1>1, NamesApart, <1>00 DEF ReferenceHeld, DeviceHeld, PlaceOK, InUse, Freeing, Probing
<1>8. \A m \in Minors, r \in Region : RegionHeld(m, r)'
  BY <1>0, <1>1, NamesApart, <1>00 DEF RegionHeld, RegionsFreed, Freeing, PlaceOK
<1> QED BY <1>0, <1>1, <1>3, <1>4, <1>5, <1>6, <1>7, <1>8

LEMMA AllocateIrqKeepsHeld ==
  ASSUME LoadInv, AllocateIrq
  PROVE  HeldOK' /\ twice' \subseteq {Class}
<1> USE DEF LoadInv, HeldOK
<1>0. bars' = bars /\ Minors' = Minors
  BY DEF AllocateIrq, Minors
<1>00. PICK n \in Nat : Minors = 0 .. n - 1
  BY BoardsAreNumbered
<1>1. CASE loader' = "hardware"
  <2>1. /\ loader = "irq" /\ devices' = devices /\ minor' = minor /\ minor \in Minors
        /\ held' = held \cup {Irq(minor)} /\ twice' = twice
    BY <1>1, <1>0, <1>00, LoadAssumption
      DEF AllocateIrq, At, Go, Take, Give, Fail, NextRegion, PlaceOK, Probing
  <2>2. \A m \in Minors : /\ desc'[m].irq <=> desc[m].irq \/ m = minor
                          /\ desc'[m].virt = desc[m].virt /\ desc'[m].io = desc[m].io
                          /\ desc'[m].allocated = desc[m].allocated
    <3>1. desc' = [desc EXCEPT ![minor].irq = TRUE]
      BY <1>1, <1>0, <1>00, LoadAssumption
        DEF AllocateIrq, At, Go, Take, Give, Fail, NextRegion, PlaceOK, Probing
    <3> QED BY <1>0, <1>1, <2>1, <3>1 DEF DescOK, Descriptor
  <2>3. Grants' = Grants /\ (held \subseteq Grants)' /\ twice' \subseteq {Class}
    BY <1>0, <1>1, <2>1, NamesApart DEF Grants
  <2>4. DeviceHeld'
    BY <1>0, <1>1, <2>1, NamesApart DEF DeviceHeld, PlaceOK, InUse, Freeing, Probing
  <2>5. \A m \in Minors : IrqHeld(m)'
    BY <1>0, <1>1, <2>1, <2>2, NamesApart, <1>00 DEF IrqHeld, IrqFreed, PlaceOK
  <2>6. \A m \in Minors : NodeHeld(m)'
    BY <1>0, <1>1, <2>1, NamesApart, <1>00
      DEF NodeHeld, DeviceHeld, PlaceOK, InUse, Freeing, Probing
  <2>7. \A m \in Minors : ReferenceHeld(m)'
    BY <1>0, <1>1, <2>1, NamesApart, <1>00
      DEF ReferenceHeld, DeviceHeld, PlaceOK, InUse, Freeing, Probing
  <2>8. \A m \in Minors, r \in Region : RegionHeld(m, r)'
    BY <1>0, <1>1, <2>1, <2>2, NamesApart, <1>00 DEF RegionHeld, RegionsFreed, Freeing, PlaceOK
  <2> QED BY <1>0, <1>1, <2>1, <2>3, <2>4, <2>5, <2>6, <2>7, <2>8
<1>2. CASE loader' # "hardware"
  BY <1>2, FailKeepsHeld DEF AllocateIrq, At, Go, Take, Give, Fail, NextRegion
<1> QED BY <1>1, <1>2 DEF AllocateIrq, At, Go, Take, Give, Fail, NextRegion, PlaceOK

LEMMA NextDeviceKeepsHeld ==
  ASSUME LoadInv, NextDevice
  PROVE  HeldOK' /\ twice' \subseteq {Class}
<1> USE DEF LoadInv, HeldOK
<1>0. bars' = bars /\ Minors' = Minors
  BY DEF NextDevice, Minors
<1>00. PICK n \in Nat : Minors = 0 .. n - 1
  BY BoardsAreNumbered
<1>1. /\ loader = "hardware" /\ devices' = devices /\ desc' = desc /\ minor \in Minors
           /\ twice' = twice
      /\ held' = (held \ {Reference(minor)}) \cup {Reference(m) : m \in Minors \cap {minor + 1}}
      /\ \/ loader' = "enable" /\ minor' = minor + 1 /\ minor + 1 \in Minors
         \/ loader' = "numbers" /\ minor' = 0 /\ minor + 1 \notin Minors
  BY <1>0, <1>00, LoadAssumption
    DEF NextDevice, At, Go, Take, Give, Fail, NextRegion, PlaceOK, Probing
<1>3. Grants' = Grants /\ (held \subseteq Grants)' /\ twice' \subseteq {Class}
  BY <1>0, <1>1, NamesApart DEF Grants
<1>4. DeviceHeld'
  BY <1>0, <1>1, NamesApart DEF DeviceHeld, PlaceOK, InUse, Freeing, Probing
<1>5. \A m \in Minors : IrqHeld(m)'
  BY <1>0, <1>1, NamesApart, <1>00 DEF IrqHeld, IrqFreed, PlaceOK
<1>6. \A m \in Minors : NodeHeld(m)'
  BY <1>0, <1>1, NamesApart, <1>00 DEF NodeHeld, DeviceHeld, PlaceOK, InUse, Freeing, Probing
<1>7. \A m \in Minors : ReferenceHeld(m)'
  BY <1>0, <1>1, NamesApart, <1>00 DEF ReferenceHeld, DeviceHeld, PlaceOK, InUse, Freeing, Probing
<1>8. \A m \in Minors, r \in Region : RegionHeld(m, r)'
  BY <1>0, <1>1, NamesApart, <1>00 DEF RegionHeld, RegionsFreed, Freeing, PlaceOK
<1> QED BY <1>0, <1>1, <1>3, <1>4, <1>5, <1>6, <1>7, <1>8

LEMMA TakeNumbersKeepsHeld ==
  ASSUME LoadInv, TakeNumbers
  PROVE  HeldOK' /\ twice' \subseteq {Class}
<1> USE DEF LoadInv, HeldOK
<1>0. bars' = bars /\ Minors' = Minors
  BY DEF TakeNumbers, Minors
<1>00. PICK n \in Nat : Minors = 0 .. n - 1
  BY BoardsAreNumbered
<1>1. CASE loader' = "cdev"
  <2>1. loader = "numbers" /\ desc' = desc /\ held' = held \cup {Numbers} /\ twice' = twice
          /\ devices' = devices /\ minor' = minor /\ minor = 0
    BY <1>1, <1>0, <1>00, LoadAssumption
      DEF TakeNumbers, At, Go, Take, Give, Fail, NextRegion, PlaceOK, Probing
  <2>3. Grants' = Grants /\ (held \subseteq Grants)' /\ twice' \subseteq {Class}
    BY <1>0, <1>1, <2>1, NamesApart DEF Grants
  <2>4. DeviceHeld'
    BY <1>0, <1>1, <2>1, NamesApart DEF DeviceHeld, PlaceOK, InUse, Freeing, Probing
  <2>5. \A m \in Minors : IrqHeld(m)'
    BY <1>0, <1>1, <2>1, NamesApart, <1>00 DEF IrqHeld, IrqFreed, PlaceOK
  <2>6. \A m \in Minors : NodeHeld(m)'
    BY <1>0, <1>1, <2>1, NamesApart, <1>00
      DEF NodeHeld, DeviceHeld, PlaceOK, InUse, Freeing, Probing
  <2>7. \A m \in Minors : ReferenceHeld(m)'
    BY <1>0, <1>1, <2>1, NamesApart, <1>00
      DEF ReferenceHeld, DeviceHeld, PlaceOK, InUse, Freeing, Probing
  <2>8. \A m \in Minors, r \in Region : RegionHeld(m, r)'
    BY <1>0, <1>1, <2>1, NamesApart, <1>00 DEF RegionHeld, RegionsFreed, Freeing, PlaceOK
  <2> QED BY <1>0, <1>1, <2>1, <2>3, <2>4, <2>5, <2>6, <2>7, <2>8
<1>2. CASE loader' # "cdev"
  BY <1>2, FailKeepsHeld DEF TakeNumbers, At, Go, Take, Give, Fail, NextRegion
<1> QED BY <1>1, <1>2 DEF TakeNumbers, At, Go, Take, Give, Fail, NextRegion, PlaceOK

LEMMA AddCdevKeepsHeld ==
  ASSUME LoadInv, AddCdev
  PROVE  HeldOK' /\ twice' \subseteq {Class}
<1> USE DEF LoadInv, HeldOK
<1>0. bars' = bars /\ Minors' = Minors
  BY DEF AddCdev, Minors
<1>00. PICK n \in Nat : Minors = 0 .. n - 1
  BY BoardsAreNumbered
<1>1. CASE loader' = "nodes"
  <2>1. loader = "cdev" /\ desc' = desc /\ held' = held \cup {Cdev, Class} /\ twice' = twice
          /\ devices' = devices /\ minor' = 0 /\ minor = 0
    BY <1>1, <1>0, <1>00, LoadAssumption
      DEF AddCdev, At, Go, Take, Give, Fail, NextRegion, PlaceOK, Probing
  <2>3. Grants' = Grants /\ (held \subseteq Grants)' /\ twice' \subseteq {Class}
    BY <1>0, <1>1, <2>1, NamesApart DEF Grants
  <2>4. DeviceHeld'
    BY <1>0, <1>1, <2>1, NamesApart DEF DeviceHeld, PlaceOK, InUse, Freeing, Probing
  <2>5. \A m \in Minors : IrqHeld(m)'
    BY <1>0, <1>1, <2>1, NamesApart, <1>00 DEF IrqHeld, IrqFreed, PlaceOK
  <2>6. \A m \in Minors : NodeHeld(m)'
    BY <1>0, <1>1, <2>1, NamesApart, <1>00
      DEF NodeHeld, DeviceHeld, PlaceOK, InUse, Freeing, Probing
  <2>7. \A m \in Minors : ReferenceHeld(m)'
    BY <1>0, <1>1, <2>1, NamesApart, <1>00
      DEF ReferenceHeld, DeviceHeld, PlaceOK, InUse, Freeing, Probing
  <2>8. \A m \in Minors, r \in Region : RegionHeld(m, r)'
    BY <1>0, <1>1, <2>1, NamesApart, <1>00 DEF RegionHeld, RegionsFreed, Freeing, PlaceOK
  <2> QED BY <1>0, <1>1, <2>1, <2>3, <2>4, <2>5, <2>6, <2>7, <2>8
<1>2. CASE loader' # "nodes"
  <2>1. loader = "cdev" /\ loader' = "free_irq" /\ desc' = desc /\ held' = held \ {Numbers}
          /\ twice' \subseteq {Class} /\ devices' = devices /\ minor' = 0 /\ minor = 0
    BY <1>2, <1>0, <1>00, LoadAssumption
      DEF AddCdev, At, Go, Take, Give, Fail, NextRegion, PlaceOK, Probing, DeviceHeld
  <2>3. Grants' = Grants /\ (held \subseteq Grants)' /\ twice' \subseteq {Class}
    BY <1>0, <1>2, <2>1, NamesApart DEF Grants
  <2>4. DeviceHeld'
    BY <1>0, <1>2, <2>1, NamesApart DEF DeviceHeld, PlaceOK, InUse, Freeing, Probing
  <2>5. \A m \in Minors : IrqHeld(m)'
    BY <1>0, <1>2, <2>1, NamesApart, <1>00 DEF IrqHeld, IrqFreed, PlaceOK
  <2>6. \A m \in Minors : NodeHeld(m)'
    BY <1>0, <1>2, <2>1, NamesApart, <1>00
      DEF NodeHeld, DeviceHeld, PlaceOK, InUse, Freeing, Probing
  <2>7. \A m \in Minors : ReferenceHeld(m)'
    BY <1>0, <1>2, <2>1, NamesApart, <1>00
      DEF ReferenceHeld, DeviceHeld, PlaceOK, InUse, Freeing, Probing
  <2>8. \A m \in Minors, r \in Region : RegionHeld(m, r)'
    BY <1>0, <1>2, <2>1, NamesApart, <1>00 DEF RegionHeld, RegionsFreed, Freeing, PlaceOK
  <2> QED BY <1>0, <1>2, <2>1, <2>3, <2>4, <2>5, <2>6, <2>7, <2>8
<1> QED BY <1>1, <1>2 DEF AddCdev, At, Go, Take, Give, Fail, NextRegion, PlaceOK

LEMMA CreateNodeKeepsHeld ==
  ASSUME LoadInv, CreateNode
  PROVE  HeldOK' /\ twice' \subseteq {Class}
<1> USE DEF LoadInv, HeldOK
<1>0. bars' = bars /\ Minors' = Minors
  BY DEF CreateNode, Minors
<1>00. PICK n \in Nat : Minors = 0 .. n - 1
  BY BoardsAreNumbered
<1>1. /\ loader = "nodes" /\ devices' = devices /\ desc' = desc /\ minor \in Minors
           /\ twice' = twice
      /\ held' = held \cup {Node(minor)}
      /\ \/ loader' = "nodes" /\ minor' = minor + 1 /\ minor + 1 \in Minors
         \/ loader' = "loaded" /\ minor' = 0 /\ minor + 1 \notin Minors
  BY <1>0, <1>00, LoadAssumption
    DEF CreateNode, At, Go, Take, Give, Fail, NextRegion, PlaceOK, Probing
<1>3. Grants' = Grants /\ (held \subseteq Grants)' /\ twice' \subseteq {Class}
  BY <1>0, <1>1, NamesApart DEF Grants
<1>4. DeviceHeld'
  BY <1>0, <1>1, NamesApart DEF DeviceHeld, PlaceOK, InUse, Freeing, Probing
<1>5. \A m \in Minors : IrqHeld(m)'
  BY <1>0, <1>1, NamesApart, <1>00 DEF IrqHeld, IrqFreed, PlaceOK
<1>6. \A m \in Minors : NodeHeld(m)'
  BY <1>0, <1>1, NamesApart, <1>00 DEF NodeHeld, DeviceHeld, PlaceOK, InUse, Freeing, Probing
<1>7. \A m \in Minors : ReferenceHeld(m)'
  BY <1>0, <1>1, NamesApart, <1>00 DEF ReferenceHeld, DeviceHeld, PlaceOK, InUse, Freeing, Probing
<1>8. \A m \in Minors, r \in Region : RegionHeld(m, r)'
  BY <1>0, <1>1, NamesApart, <1>00 DEF RegionHeld, RegionsFreed, Freeing, PlaceOK
<1> QED BY <1>0, <1>1, <1>3, <1>4, <1>5, <1>6, <1>7, <1>8

LEMMA FreeIrqKeepsHeld ==
  ASSUME LoadInv, FreeIrq
  PROVE  HeldOK' /\ twice' \subseteq {Class}
<1> USE DEF LoadInv, HeldOK
<1>0. bars' = bars /\ Minors' = Minors
  BY DEF FreeIrq, Minors
<1>00. PICK n \in Nat : Minors = 0 .. n - 1
  BY BoardsAreNumbered
<1>1. /\ loader = "free_irq" /\ loader' = "free_regions" /\ minor' = minor /\ minor \in Minors
      /\ held' = held \ (IF desc[minor].irq THEN {Irq(minor)} ELSE {})
      /\ desc' = desc /\ devices' = devices /\ twice' \subseteq {Class}
  <2>1. loader = "free_irq" /\ minor \in Minors /\ minor \in Nat
    BY DEF FreeIrq, At, PlaceOK
  <2>2. desc[minor].irq => Irq(minor) \in held
    BY <2>1 DEF IrqHeld, IrqFreed
  <2> QED BY <1>0, <2>1, <2>2 DEF FreeIrq, Go, Give
<1>3. Grants' = Grants /\ (held \subseteq Grants)' /\ twice' \subseteq {Class}
  BY <1>0, <1>1, NamesApart DEF Grants
<1>4. DeviceHeld'
  BY <1>0, <1>1, NamesApart DEF DeviceHeld, PlaceOK, InUse, Freeing, Probing
<1>5. \A m \in Minors : IrqHeld(m)'
  BY <1>0, <1>1, NamesApart, <1>00 DEF IrqHeld, IrqFreed, PlaceOK
<1>6. \A m \in Minors : NodeHeld(m)'
  BY <1>0, <1>1, NamesApart, <1>00 DEF NodeHeld, DeviceHeld, PlaceOK, InUse, Freeing, Probing
<1>7. \A m \in Minors : ReferenceHeld(m)'
  BY <1>0, <1>1, NamesApart, <1>00 DEF ReferenceHeld, DeviceHeld, PlaceOK, InUse, Freeing, Probing
<1>8. \A m \in Minors, r \in Region : RegionHeld(m, r)'
  BY <1>0, <1>1, NamesApart, <1>00 DEF RegionHeld, RegionsFreed, Freeing, PlaceOK
<1> QED BY <1>0, <1>1, <1>3, <1>4, <1>5, <1>6, <1>7, <1>8

LEMMA ReleaseRegionsKeepsHeld ==
  ASSUME LoadInv, ReleaseRegions
  PROVE  HeldOK' /\ twice' \subseteq {Class}
<1> USE DEF LoadInv, HeldOK
<1>0. bars' = bars /\ Minors' = Minors
  BY DEF ReleaseRegions, Minors
<1>00. PICK n \in Nat : Minors = 0 .. n - 1
  BY BoardsAreNumbered
<1>1. /\ loader = "free_regions" /\ loader' = "free_irq" /\ minor' = minor + 1 /\ minor \in Minors
      /\ held' = held \ ({Map(minor, r) : r \in desc[minor].virt}
                          \cup {Claim(minor, r) : r \in desc[minor].allocated \cup desc[minor].io})
      /\ desc' = desc /\ devices' = devices /\ twice' \subseteq {Class}
  <2>1. loader = "free_regions" /\ minor \in Minors /\ minor \in Nat
    BY DEF ReleaseRegions, At, PlaceOK
  <2>2. desc[minor] \in Descriptor
    BY <2>1 DEF DescOK
  <2>3. {Map(minor, r) : r \in desc[minor].virt} \subseteq held
    BY <2>1, <2>2 DEF RegionHeld, RegionsFreed, Descriptor
  <2>4. {Claim(minor, r) : r \in desc[minor].allocated \cup desc[minor].io} \subseteq held
    BY <2>1, <2>2 DEF RegionHeld, RegionsFreed, Descriptor
  <2> QED BY <1>0, <2>1, <2>3, <2>4 DEF ReleaseRegions, Go, Give
<1>3. Grants' = Grants /\ (held \subseteq Grants)' /\ twice' \subseteq {Class}
  BY <1>0, <1>1, NamesApart DEF Grants
<1>4. DeviceHeld'
  BY <1>0, <1>1, NamesApart DEF DeviceHeld, PlaceOK, InUse, Freeing, Probing
<1>5. \A m \in Minors : IrqHeld(m)'
  BY <1>0, <1>1, NamesApart, <1>00 DEF IrqHeld, IrqFreed, PlaceOK
<1>6. \A m \in Minors : NodeHeld(m)'
  BY <1>0, <1>1, NamesApart, <1>00 DEF NodeHeld, DeviceHeld, PlaceOK, InUse, Freeing, Probing
<1>7. \A m \in Minors : ReferenceHeld(m)'
  BY <1>0, <1>1, NamesApart, <1>00 DEF ReferenceHeld, DeviceHeld, PlaceOK, InUse, Freeing, Probing
<1>8. \A m \in Minors, r \in Region : RegionHeld(m, r)'
  BY <1>0, <1>1, NamesApart, <1>00
    DEF RegionHeld, RegionsFreed, Freeing, PlaceOK, DescOK, Descriptor
<1> QED BY <1>0, <1>1, <1>3, <1>4, <1>5, <1>6, <1>7, <1>8

LEMMA FreeDescriptorsKeepsHeld ==
  ASSUME LoadInv, FreeDescriptors
  PROVE  HeldOK' /\ twice' \subseteq {Class}
<1> USE DEF LoadInv, HeldOK
<1>0. bars' = bars /\ Minors' = Minors
  BY DEF FreeDescriptors, Minors
<1>00. PICK n \in Nat : Minors = 0 .. n - 1
  BY BoardsAreNumbered
<1>1. /\ loader = "free_irq" /\ loader' = "free_irq" /\ minor' = 0 /\ minor \notin Minors
           /\ minor \in Nat
      /\ held' = held \ {Memory} /\ devices /\ ~devices' /\ twice' \subseteq {Class}
  BY <1>0, <1>00, LoadAssumption
    DEF FreeDescriptors, At, Go, Take, Give, Fail, NextRegion, PlaceOK, Probing, DeviceHeld
<1>2. \A m \in Minors : ~desc'[m].irq /\ desc'[m].virt = {} /\ desc'[m].allocated = {}
        /\ desc'[m].io = {}
  <2>1. desc' = [m \in Minors |-> Zeroed]
    BY <1>0, <1>00, LoadAssumption
      DEF FreeDescriptors, At, Go, Take, Give, Fail, NextRegion, PlaceOK, Probing, DeviceHeld
  <2> QED BY <1>0, <1>1, <2>1 DEF DescOK, Descriptor, Zeroed
<1>3. Grants' = Grants /\ (held \subseteq Grants)' /\ twice' \subseteq {Class}
  BY <1>0, <1>1, NamesApart DEF Grants
<1>4. DeviceHeld'
  BY <1>0, <1>1, NamesApart DEF DeviceHeld, PlaceOK, InUse, Freeing, Probing
<1>5. \A m \in Minors : IrqHeld(m)'
  BY <1>0, <1>1, <1>2, NamesApart, <1>00 DEF IrqHeld, IrqFreed, PlaceOK
<1>6. \A m \in Minors : NodeHeld(m)'
  BY <1>0, <1>1, NamesApart, <1>00 DEF NodeHeld, DeviceHeld, PlaceOK, InUse, Freeing, Probing
<1>7. \A m \in Minors : ReferenceHeld(m)'
  BY <1>0, <1>1, NamesApart, <1>00 DEF ReferenceHeld, DeviceHeld, PlaceOK, InUse, Freeing, Probing
<1>8. \A m \in Minors, r \in Region : RegionHeld(m, r)'
  BY <1>0, <1>1, <1>2, NamesApart, <1>00 DEF RegionHeld, RegionsFreed, Freeing, PlaceOK
<1> QED BY <1>0, <1>1, <1>3, <1>4, <1>5, <1>6, <1>7, <1>8

LEMMA ReleaseNothingKeepsHeld ==
  ASSUME LoadInv, ReleaseNothing
  PROVE  HeldOK' /\ twice' \subseteq {Class}
<1> USE DEF LoadInv, HeldOK
<1>0. bars' = bars /\ Minors' = Minors
  BY DEF ReleaseNothing, Minors
<1>00. PICK n \in Nat : Minors = 0 .. n - 1
  BY BoardsAreNumbered
<1>1. desc' = desc /\ held' = held /\ twice' = twice /\ devices' = devices /\ loader' = loader
        /\ minor' = minor
  BY <1>0, <1>00, LoadAssumption
    DEF ReleaseNothing, At, Go, Take, Give, Fail, NextRegion, PlaceOK, Probing
<1>3. Grants' = Grants /\ (held \subseteq Grants)' /\ twice' \subseteq {Class}
  BY <1>0, <1>1, NamesApart DEF Grants
<1>4. DeviceHeld'
  BY <1>0, <1>1, NamesApart DEF DeviceHeld, PlaceOK, InUse, Freeing, Probing
<1>5. \A m \in Minors : IrqHeld(m)'
  BY <1>0, <1>1, NamesApart, <1>00 DEF IrqHeld, IrqFreed, PlaceOK
<1>6. \A m \in Minors : NodeHeld(m)'
  BY <1>0, <1>1, NamesApart, <1>00 DEF NodeHeld, DeviceHeld, PlaceOK, InUse, Freeing, Probing
<1>7. \A m \in Minors : ReferenceHeld(m)'
  BY <1>0, <1>1, NamesApart, <1>00 DEF ReferenceHeld, DeviceHeld, PlaceOK, InUse, Freeing, Probing
<1>8. \A m \in Minors, r \in Region : RegionHeld(m, r)'
  BY <1>0, <1>1, NamesApart, <1>00 DEF RegionHeld, RegionsFreed, Freeing, PlaceOK
<1> QED BY <1>0, <1>1, <1>3, <1>4, <1>5, <1>6, <1>7, <1>8

LEMMA LoadFailedKeepsHeld ==
  ASSUME LoadInv, LoadFailed
  PROVE  HeldOK' /\ twice' \subseteq {Class}
<1> USE DEF LoadInv, HeldOK
<1>0. bars' = bars /\ Minors' = Minors
  BY DEF LoadFailed, Minors
<1>00. PICK n \in Nat : Minors = 0 .. n - 1
  BY BoardsAreNumbered
<1>1. /\ loader = "free_irq" /\ loader' = "out" /\ minor' = minor /\ ~devices /\ minor = 0
           /\ Cdev \notin held
      /\ held' = held \ {h \in held : h[1] = "pci device"} /\ twice' \subseteq {Class}
      /\ desc' = desc /\ devices' = devices
  BY <1>0, <1>00, LoadAssumption
    DEF LoadFailed, At, Go, Take, Give, Fail, NextRegion, PlaceOK, Probing
<1>3. Grants' = Grants /\ (held \subseteq Grants)' /\ twice' \subseteq {Class}
  <2>1. held' \subseteq held
    BY <1>1
  <2>2. twice' \subseteq {Class}
    BY <1>1
  <2> QED BY <1>0, <2>1, <2>2 DEF Grants
<1>4. DeviceHeld'
  BY <1>0, <1>1, NamesApart DEF DeviceHeld, PlaceOK, InUse, Freeing, Probing
<1>5. \A m \in Minors : IrqHeld(m)'
  <2>1. \A m \in Minors : Irq(m) \in held' <=> Irq(m) \in held
    BY <1>0, <1>1, NameKinds
  <2>2. \A m \in Minors : desc'[m] = Zeroed /\ desc[m] = Zeroed
    BY <1>1 DEF DescOK
  <2> QED BY <1>0, <2>1, <2>2 DEF IrqHeld, Zeroed
<1>6. \A m \in Minors : NodeHeld(m)'
  BY <1>0, <1>1, NamesApart, <1>00 DEF NodeHeld, DeviceHeld, PlaceOK, InUse, Freeing, Probing
<1>7. \A m \in Minors : ReferenceHeld(m)'
  <2>1. \A m \in Minors : Reference(m) \notin held'
    BY <1>0, <1>1, NameKinds
  <2> QED BY <1>0, <2>1 DEF ReferenceHeld
<1>8. \A m \in Minors, r \in Region : RegionHeld(m, r)'
  <2>1. \A m \in Minors, r \in Region : Map(m, r) \in held' <=> Map(m, r) \in held
    BY <1>0, <1>1, NameKinds
  <2>3. \A m \in Minors, r \in Region : Claim(m, r) \in held' <=> Claim(m, r) \in held
    BY <1>0, <1>1, NameKinds
  <2>2. \A m \in Minors : desc'[m] = Zeroed /\ desc[m] = Zeroed
    BY <1>1 DEF DescOK
  <2> QED BY <1>0, <2>1, <2>2, <2>3 DEF RegionHeld, Zeroed
<1> QED BY <1>0, <1>1, <1>3, <1>4, <1>5, <1>6, <1>7, <1>8

LEMMA UnregisterKeepsHeld ==
  ASSUME LoadInv, Unregister
  PROVE  HeldOK' /\ twice' \subseteq {Class}
<1> USE DEF LoadInv, HeldOK
<1>0. bars' = bars /\ Minors' = Minors
  BY DEF Unregister, Minors
<1>00. PICK n \in Nat : Minors = 0 .. n - 1
  BY BoardsAreNumbered
<1>1. /\ loader = "free_irq" /\ loader' = "out" /\ minor' = minor /\ ~devices /\ minor = 0
           /\ Cdev \in held
      /\ held' = held \ ({Cdev, Class, Numbers} \cup {Node(m) : m \in Minors})
      /\ twice' \subseteq {Class}
      /\ desc' = desc /\ devices' = devices
  <2> DEFINE what == {Cdev, Class, Numbers} \cup {Node(m) : m \in Minors}
  <2>1. /\ loader = "free_irq" /\ loader' = "out" /\ minor' = minor /\ ~devices
        /\ Cdev \in held /\ calls = 0 /\ held' = held \ what
        /\ twice' = twice \cup (what \ held) \cup {Class}
        /\ desc' = desc /\ devices' = devices
    BY DEF Unregister, At, Go
  <2>2. Class \in held /\ Numbers \in held
    BY <2>1 DEF DeviceHeld
  <2>3. \A m \in Minors : Node(m) \in held
    BY <2>1 DEF NodeHeld
  <2>4. minor = 0
    BY <2>1 DEF PlaceOK
  <2>5. what \ held = {}
    BY <2>1, <2>2, <2>3
  <2> QED BY <2>1, <2>4, <2>5
<1>3. Grants' = Grants /\ (held \subseteq Grants)' /\ twice' \subseteq {Class}
  BY <1>0, <1>1, NamesApart DEF Grants
<1>4. DeviceHeld'
  BY <1>0, <1>1, NamesApart DEF DeviceHeld, PlaceOK, InUse, Freeing, Probing
<1>5. \A m \in Minors : IrqHeld(m)'
  BY <1>0, <1>1, NamesApart, <1>00 DEF IrqHeld, IrqFreed, PlaceOK
<1>6. \A m \in Minors : NodeHeld(m)'
  BY <1>0, <1>1, NamesApart, <1>00 DEF NodeHeld, DeviceHeld, PlaceOK, InUse, Freeing, Probing
<1>7. \A m \in Minors : ReferenceHeld(m)'
  BY <1>0, <1>1, NamesApart, <1>00 DEF ReferenceHeld, DeviceHeld, PlaceOK, InUse, Freeing, Probing
<1>8. \A m \in Minors, r \in Region : RegionHeld(m, r)'
  BY <1>0, <1>1, NamesApart, <1>00 DEF RegionHeld, RegionsFreed, Freeing, PlaceOK
<1> QED BY <1>0, <1>1, <1>3, <1>4, <1>5, <1>6, <1>7, <1>8

LEMMA UnloadKeepsHeld ==
  ASSUME LoadInv, NEW u, Unload(u)
  PROVE  HeldOK' /\ twice' \subseteq {Class}
BY FailKeepsHeld DEF Unload, At, Go, Take, Give, Fail, NextRegion, LoadInv
-----------------------------------------------------------------------------
(* The place in the loading or releasing.                                  *)
LEMMA PlaceKept ==
  ASSUME LoadInv, NEW u, Loading \/ Releasing \/ Unload(u)
  PROVE  PlaceOK'
<1> USE LoadAssumption DEF LoadInv
<1>0. bars' = bars /\ Minors' = Minors
  BY DEF Loading, Releasing, Load, Enable, SkipRegion, ClaimPorts, MapMemory, RefuseRegion,
        RegionsDone,
         AllocateIrq, NextDevice, TakeNumbers, AddCdev, CreateNode, FreeIrq, ReleaseRegions,
         FreeDescriptors, ReleaseNothing, LoadFailed, Unregister, Unload, Minors
<1>00. PICK n \in Nat : Minors = 0 .. n - 1
  BY BoardsAreNumbered
<1>1. CASE Load
  BY <1>0, <1>00, <1>1
    DEF Load, At, Go, Take, Give, Fail, NextRegion, PlaceOK, Probing, Freeing, Place, Region
<1>2. CASE Enable
  BY <1>0, <1>00, <1>2
    DEF Enable, At, Go, Take, Give, Fail, NextRegion, PlaceOK, Probing, Freeing, Place, Region
<1>3. CASE SkipRegion
  BY <1>0, <1>00, <1>3
    DEF SkipRegion, At, Go, Take, Give, Fail, NextRegion, PlaceOK, Probing, Freeing, Place, Region
<1>4. CASE ClaimPorts
  BY <1>0, <1>00, <1>4
    DEF ClaimPorts, At, Go, Take, Give, Fail, NextRegion, PlaceOK, Probing, Freeing, Place, Region
<1>5. CASE MapMemory
  BY <1>0, <1>00, <1>5
    DEF MapMemory, At, Go, Take, Give, Fail, NextRegion, PlaceOK, Probing, Freeing, Place, Region
<1>6. CASE RefuseRegion
  BY <1>0, <1>00, <1>6
    DEF RefuseRegion, At, Go, Take, Give, Fail, NextRegion, PlaceOK, Probing, Freeing, Place, Region
<1>7. CASE RegionsDone
  BY <1>0, <1>00, <1>7
    DEF RegionsDone, At, Go, Take, Give, Fail, NextRegion, PlaceOK, Probing, Freeing, Place, Region
<1>8. CASE AllocateIrq
  BY <1>0, <1>00, <1>8
    DEF AllocateIrq, At, Go, Take, Give, Fail, NextRegion, PlaceOK, Probing, Freeing, Place, Region
<1>9. CASE NextDevice
  BY <1>0, <1>00, <1>9
    DEF NextDevice, At, Go, Take, Give, Fail, NextRegion, PlaceOK, Probing, Freeing, Place, Region
<1>10. CASE TakeNumbers
  BY <1>0, <1>00, <1>10
    DEF TakeNumbers, At, Go, Take, Give, Fail, NextRegion, PlaceOK, Probing, Freeing, Place, Region
<1>11. CASE AddCdev
  <2>1. /\ loader = "cdev" /\ devices /\ devices' = devices /\ region = 0 /\ region' = 0
             /\ minor = 0 /\ minor' = 0
        /\ (loader' = "nodes" /\ calls' = calls) \/ (loader' = "free_irq" /\ calls' = 1)
    BY <1>11 DEF AddCdev, At, Go, Take, Fail, PlaceOK
  <2>2. 0 \in Minors
    BY <1>11, <1>00 DEF AddCdev, At, PlaceOK, HeldOK, DeviceHeld
  <2> QED BY <1>0, <2>1, <2>2 DEF PlaceOK, Probing, Freeing, Place
<1>12. CASE CreateNode
  BY <1>0, <1>00, <1>12
    DEF CreateNode, At, Go, Take, Give, Fail, NextRegion, PlaceOK, Probing, Freeing, Place, Region
<1>13. CASE FreeIrq
  BY <1>0, <1>00, <1>13
    DEF FreeIrq, At, Go, Take, Give, Fail, NextRegion, PlaceOK, Probing, Freeing, Place, Region
<1>14. CASE ReleaseRegions
  BY <1>0, <1>00, <1>14
    DEF ReleaseRegions, At, Go, Take, Give, Fail, NextRegion, PlaceOK, Probing, Freeing, Place,
        Region
<1>15. CASE FreeDescriptors
  <2>1. /\ loader = "free_irq" /\ loader' = "free_irq" /\ ~devices' /\ devices' \in BOOLEAN
        /\ calls' = calls - 1 /\ calls > 0 /\ calls \in 0 .. 2
        /\ minor' = 0 /\ region' = 0 /\ region = 0
    BY <1>15 DEF FreeDescriptors, At, PlaceOK, Freeing
  <2> QED BY <1>0, <2>1 DEF PlaceOK, Probing, Freeing, Place
<1>16. CASE ReleaseNothing
  BY <1>0, <1>00, <1>16
    DEF ReleaseNothing, At, Go, Take, Give, Fail, NextRegion, PlaceOK, Probing, Freeing, Place,
        Region
<1>17. CASE LoadFailed
  BY <1>0, <1>00, <1>17
    DEF LoadFailed, At, Go, Take, Give, Fail, NextRegion, PlaceOK, Probing, Freeing, Place, Region
<1>18. CASE Unregister
  BY <1>0, <1>00, <1>18
    DEF Unregister, At, Go, Take, Give, Fail, NextRegion, PlaceOK, Probing, Freeing, Place, Region
<1>19. CASE Unload(u)
  BY <1>0, <1>00, <1>19
    DEF Unload, At, Go, Take, Give, Fail, NextRegion, PlaceOK, Probing, Freeing, Place, Region
<1> QED BY <1>1, <1>2, <1>3, <1>4, <1>5, <1>6, <1>7, <1>8, <1>9, <1>10, <1>11, <1>12, <1>13,
  <1>14, <1>15, <1>16, <1>17, <1>18, <1>19 DEF Loading, Releasing

(* The descriptors: a handler only with all its regions.                   *)
LEMMA DescriptorsKept ==
  ASSUME LoadInv, NEW u, Loading \/ Releasing \/ Unload(u)
  PROVE  DescOK'
<1> USE LoadAssumption DEF LoadInv
<1>0. bars' = bars /\ Minors' = Minors
  BY DEF Loading, Releasing, Load, Enable, SkipRegion, ClaimPorts, MapMemory, RefuseRegion,
        RegionsDone,
         AllocateIrq, NextDevice, TakeNumbers, AddCdev, CreateNode, FreeIrq, ReleaseRegions,
         FreeDescriptors, ReleaseNothing, LoadFailed, Unregister, Unload, Minors
<1>00. PICK n \in Nat : Minors = 0 .. n - 1
  BY BoardsAreNumbered
<1>1. CASE Load
  BY <1>0, <1>00, <1>1
    DEF Load, At, Go, Take, Give, Fail, NextRegion, PlaceOK, DescOK, ProgressOK, Complete,
        Zeroed, Descriptor, Probing, Region
<1>2. CASE Enable
  BY <1>0, <1>00, <1>2
    DEF Enable, At, Go, Take, Give, Fail, NextRegion, PlaceOK, DescOK, ProgressOK, Complete,
        Zeroed, Descriptor, Probing, Region
<1>3. CASE SkipRegion
  BY <1>0, <1>00, <1>3
    DEF SkipRegion, At, Go, Take, Give, Fail, NextRegion, PlaceOK, DescOK, ProgressOK, Complete,
        Zeroed, Descriptor, Probing, Region
<1>4. CASE ClaimPorts
  <2>1. minor \in Minors /\ devices /\ devices' = devices /\ desc \in [Minors -> Descriptor]
    BY <1>4 DEF ClaimPorts, At, PlaceOK, Probing, DescOK
  <2>2. desc' = desc \/ desc' = [desc EXCEPT ![minor].io = @ \cup {region}]
    BY <1>4 DEF ClaimPorts, At, Go, Take, Give, Fail, NextRegion
  <2>3. region \in Region
    BY <1>4 DEF ClaimPorts, At, PlaceOK, Region
  <2>4. CASE desc' = desc
    BY <1>0, <2>1, <2>4 DEF DescOK, Complete
  <2>5. CASE desc' # desc
    <3>1. desc' \in [Minors -> Descriptor]
      BY <1>0, <2>1, <2>2, <2>3, <2>5 DEF Descriptor
    <3>2. \A m \in Minors : /\ desc'[m].irq = desc[m].irq /\ desc[m].io \subseteq desc'[m].io
                            /\ desc[m].virt \subseteq desc'[m].virt
                            /\ desc[m].allocated \subseteq desc'[m].allocated
      BY <2>1, <2>2, <2>3, <2>5 DEF Descriptor
    <3>3. \A m \in Minors, r \in Region : Complete(m, r) => Complete(m, r)'
      BY <1>0, <3>2 DEF Complete
    <3> QED BY <1>0, <2>1, <3>1, <3>2, <3>3 DEF DescOK
  <2> QED BY <2>4, <2>5
<1>5. CASE MapMemory
  <2>1. minor \in Minors /\ devices /\ devices' = devices /\ desc \in [Minors -> Descriptor]
    BY <1>5 DEF MapMemory, At, PlaceOK, Probing, DescOK
  <2>2. desc' = desc
          \/ desc' = [desc EXCEPT ![minor].virt = @ \cup {region}, ![minor].allocated = @ \cup {region}]
        \/ desc' = [desc EXCEPT ![minor].virt = @ \cup {region}]
    BY <1>5 DEF MapMemory, At, Go, Take, Give, Fail, NextRegion
  <2>3. region \in Region
    BY <1>5 DEF MapMemory, At, PlaceOK, Region
  <2>4. CASE desc' = desc
    BY <1>0, <2>1, <2>4 DEF DescOK, Complete
  <2>5. CASE desc' # desc
    <3>1. desc' \in [Minors -> Descriptor]
      BY <1>0, <2>1, <2>2, <2>3, <2>5 DEF Descriptor
    <3>2. \A m \in Minors : /\ desc'[m].irq = desc[m].irq /\ desc[m].io \subseteq desc'[m].io
                            /\ desc[m].virt \subseteq desc'[m].virt
                            /\ desc[m].allocated \subseteq desc'[m].allocated
      <4>1. CASE desc' = [desc EXCEPT ![minor].virt = @ \cup {region},
        ![minor].allocated = @ \cup {region}]
        BY <2>1, <4>1 DEF Descriptor
      <4>2. CASE desc' = [desc EXCEPT ![minor].virt = @ \cup {region}]
        BY <2>1, <4>2 DEF Descriptor
      <4> QED BY <2>2, <2>5, <4>1, <4>2
    <3>3. \A m \in Minors, r \in Region : Complete(m, r) => Complete(m, r)'
      BY <1>0, <3>2 DEF Complete
    <3> QED BY <1>0, <2>1, <3>1, <3>2, <3>3 DEF DescOK
  <2> QED BY <2>4, <2>5
<1>6. CASE RefuseRegion
  BY <1>0, <1>00, <1>6
    DEF RefuseRegion, At, Go, Take, Give, Fail, NextRegion, PlaceOK, DescOK, ProgressOK,
        Complete, Zeroed, Descriptor, Probing, Region
<1>7. CASE RegionsDone
  BY <1>0, <1>00, <1>7
    DEF RegionsDone, At, Go, Take, Give, Fail, NextRegion, PlaceOK, DescOK, ProgressOK,
        Complete, Zeroed, Descriptor, Probing, Region
<1>8. CASE AllocateIrq
  <2>1. minor \in Minors /\ devices /\ devices' = devices /\ desc \in [Minors -> Descriptor]
    BY <1>8 DEF AllocateIrq, At, PlaceOK, Probing, DescOK
  <2>2. desc' = desc \/ desc' = [desc EXCEPT ![minor].irq = TRUE]
    BY <1>8 DEF AllocateIrq, At, Go, Take, Give, Fail, NextRegion
  <2>4. CASE desc' = desc
    BY <1>0, <2>1, <2>4 DEF DescOK, Complete
  <2>5. CASE desc' # desc
    <3>1. desc' \in [Minors -> Descriptor]
      BY <1>0, <2>1, <2>2, <2>5 DEF Descriptor
    <3>2. \A m \in Minors : /\ desc'[m].irq <=> desc[m].irq \/ m = minor
                            /\ desc'[m].io = desc[m].io /\ desc'[m].virt = desc[m].virt
                            /\ desc'[m].allocated = desc[m].allocated
      BY <2>1, <2>2, <2>5 DEF Descriptor
    <3>3. \A m \in Minors, r \in Region : Complete(m, r)' <=> Complete(m, r)
      BY <1>0, <3>2 DEF Complete
    <3>4. \A r \in Region : Complete(minor, r)
      BY <1>8 DEF AllocateIrq, At, ProgressOK
    <3> QED BY <1>0, <2>1, <3>1, <3>2, <3>3, <3>4 DEF DescOK
  <2> QED BY <2>4, <2>5
<1>9. CASE NextDevice
  BY <1>0, <1>00, <1>9
    DEF NextDevice, At, Go, Take, Give, Fail, NextRegion, PlaceOK, DescOK, ProgressOK, Complete,
        Zeroed, Descriptor, Probing, Region
<1>10. CASE TakeNumbers
  BY <1>0, <1>00, <1>10
    DEF TakeNumbers, At, Go, Take, Give, Fail, NextRegion, PlaceOK, DescOK, ProgressOK,
        Complete, Zeroed, Descriptor, Probing, Region
<1>11. CASE AddCdev
  BY <1>0, <1>00, <1>11
    DEF AddCdev, At, Go, Take, Give, Fail, NextRegion, PlaceOK, DescOK, ProgressOK, Complete,
        Zeroed, Descriptor, Probing, Region
<1>12. CASE CreateNode
  BY <1>0, <1>00, <1>12
    DEF CreateNode, At, Go, Take, Give, Fail, NextRegion, PlaceOK, DescOK, ProgressOK, Complete,
        Zeroed, Descriptor, Probing, Region
<1>13. CASE FreeIrq
  BY <1>0, <1>00, <1>13
    DEF FreeIrq, At, Go, Take, Give, Fail, NextRegion, PlaceOK, DescOK, ProgressOK, Complete,
        Zeroed, Descriptor, Probing, Region
<1>14. CASE ReleaseRegions
  BY <1>0, <1>00, <1>14
    DEF ReleaseRegions, At, Go, Take, Give, Fail, NextRegion, PlaceOK, DescOK, ProgressOK,
        Complete, Zeroed, Descriptor, Probing, Region
<1>15. CASE FreeDescriptors
  BY <1>0, <1>00, <1>15
    DEF FreeDescriptors, At, Go, Take, Give, Fail, NextRegion, PlaceOK, DescOK, ProgressOK,
        Complete, Zeroed, Descriptor, Probing, Region
<1>16. CASE ReleaseNothing
  BY <1>0, <1>00, <1>16
    DEF ReleaseNothing, At, Go, Take, Give, Fail, NextRegion, PlaceOK, DescOK, ProgressOK,
        Complete, Zeroed, Descriptor, Probing, Region
<1>17. CASE LoadFailed
  <2>1. desc' = desc /\ devices' = devices
    BY <1>17 DEF LoadFailed
  <2> QED BY <1>0, <2>1 DEF DescOK, Complete
<1>18. CASE Unregister
  BY <1>0, <1>00, <1>18
    DEF Unregister, At, Go, Take, Give, Fail, NextRegion, PlaceOK, DescOK, ProgressOK, Complete,
        Zeroed, Descriptor, Probing, Region
<1>19. CASE Unload(u)
  BY <1>0, <1>00, <1>19
    DEF Unload, At, Go, Take, Give, Fail, NextRegion, PlaceOK, DescOK, ProgressOK, Complete,
        Zeroed, Descriptor, Probing, Region
<1> QED BY <1>1, <1>2, <1>3, <1>4, <1>5, <1>6, <1>7, <1>8, <1>9, <1>10, <1>11, <1>12, <1>13,
  <1>14, <1>15, <1>16, <1>17, <1>18, <1>19 DEF Loading, Releasing

(* How far the loading has come.                                           *)
LEMMA ProgressKept ==
  ASSUME LoadInv, NEW u, Loading \/ Releasing \/ Unload(u)
  PROVE  ProgressOK'
<1> USE LoadAssumption DEF LoadInv
<1>0. bars' = bars /\ Minors' = Minors
  BY DEF Loading, Releasing, Load, Enable, SkipRegion, ClaimPorts, MapMemory, RefuseRegion,
        RegionsDone,
         AllocateIrq, NextDevice, TakeNumbers, AddCdev, CreateNode, FreeIrq, ReleaseRegions,
         FreeDescriptors, ReleaseNothing, LoadFailed, Unregister, Unload, Minors
<1>00. PICK n \in Nat : Minors = 0 .. n - 1
  BY BoardsAreNumbered
<1>1. CASE Load
  BY <1>0, <1>00, <1>1
    DEF Load, At, Go, Take, Give, Fail, NextRegion, PlaceOK, DescOK, ProgressOK, Complete,
        Probing, InUse, Freeing, Place, Descriptor, Region
<1>2. CASE Enable
  BY <1>0, <1>00, <1>2
    DEF Enable, At, Go, Take, Give, Fail, NextRegion, PlaceOK, DescOK, ProgressOK, Complete,
        Probing, InUse, Freeing, Place, Descriptor, Region
<1>3. CASE SkipRegion
  BY <1>0, <1>00, <1>3
    DEF SkipRegion, At, Go, Take, Give, Fail, NextRegion, PlaceOK, DescOK, ProgressOK, Complete,
        Probing, InUse, Freeing, Place, Descriptor, Region
<1>4. CASE ClaimPorts
  <2>1. minor \in Minors /\ region \in Region /\ desc \in [Minors -> Descriptor]
        /\ loader = "regions" /\ bars[minor][region] = "io"
    BY <1>4 DEF ClaimPorts, At, PlaceOK, Probing, DescOK, Region
  <2>2. CASE loader' = "regions"
    <3>1. minor' = minor /\ region' = region + 1 /\ desc' = [desc EXCEPT ![minor].io = @ \cup {region}]
      BY <1>4, <2>1, <2>2 DEF ClaimPorts, At, Go, Take, Give, Fail, NextRegion
    <3>2. \A m \in Minors : /\ desc'[m].irq = desc[m].irq /\ desc[m].io \subseteq desc'[m].io
                            /\ desc[m].virt \subseteq desc'[m].virt
                            /\ desc[m].allocated \subseteq desc'[m].allocated
      BY <2>1, <3>1 DEF Descriptor
    <3>3. \A r \in Region : r = region => Complete(minor, r)'
      <4>1. region \in desc'[minor].io
        BY <2>1, <3>1 DEF Descriptor
      <4>2. bars'[minor'][region] = "io"
        BY <1>0, <2>1, <3>1
      <4> QED BY <3>1, <4>1, <4>2 DEF Complete
    <3>4. \A r \in Region : r < region' => Complete(minor, r)'
      BY <1>0, <2>1, <3>1, <3>2, <3>3 DEF ProgressOK, Complete, Region
    <3> QED BY <1>0, <1>00, <2>1, <2>2, <3>1, <3>2, <3>4 DEF ProgressOK, Probing, InUse
  <2>3. CASE loader' # "regions"
    BY <1>4, <2>1, <2>3
      DEF ClaimPorts, At, Go, Take, Give, Fail, NextRegion, ProgressOK, Probing, InUse
  <2> QED BY <2>2, <2>3
<1>5. CASE MapMemory
  <2>1. minor \in Minors /\ region \in Region /\ desc \in [Minors -> Descriptor]
        /\ loader = "regions" /\ bars[minor][region] = "memory"
    BY <1>5 DEF MapMemory, At, PlaceOK, Probing, DescOK, Region
  <2>2. CASE loader' = "regions"
    <3>1. minor' = minor /\ region' = region + 1
            /\ desc' = [desc EXCEPT ![minor].virt = @ \cup {region}, ![minor].allocated = @ \cup {region}]
      BY <1>5, <2>1, <2>2 DEF MapMemory, At, Go, Take, Give, Fail, NextRegion
    <3>2. \A m \in Minors : /\ desc'[m].irq = desc[m].irq /\ desc[m].io \subseteq desc'[m].io
                            /\ desc[m].virt \subseteq desc'[m].virt
                            /\ desc[m].allocated \subseteq desc'[m].allocated
      BY <2>1, <3>1 DEF Descriptor
    <3>3. \A r \in Region : r = region => Complete(minor, r)'
      <4>1. region \in desc'[minor].virt /\ region \in desc'[minor].allocated
        BY <2>1, <3>1 DEF Descriptor
      <4>2. bars'[minor'][region] = "memory"
        BY <1>0, <2>1, <3>1
      <4> QED BY <3>1, <4>1, <4>2 DEF Complete
    <3>4. \A r \in Region : r < region' => Complete(minor, r)'
      BY <1>0, <2>1, <3>1, <3>2, <3>3 DEF ProgressOK, Complete, Region
    <3> QED BY <1>0, <1>00, <2>1, <2>2, <3>1, <3>2, <3>4 DEF ProgressOK, Probing, InUse
  <2>3. CASE loader' # "regions"
    BY <1>5, <2>1, <2>3
      DEF MapMemory, At, Go, Take, Give, Fail, NextRegion, ProgressOK, Probing, InUse
  <2> QED BY <2>2, <2>3
<1>6. CASE RefuseRegion
  BY <1>0, <1>00, <1>6
    DEF RefuseRegion, At, Go, Take, Give, Fail, NextRegion, PlaceOK, DescOK, ProgressOK,
        Complete, Probing, InUse, Freeing, Place, Descriptor, Region
<1>7. CASE RegionsDone
  BY <1>0, <1>00, <1>7
    DEF RegionsDone, At, Go, Take, Give, Fail, NextRegion, PlaceOK, DescOK, ProgressOK,
        Complete, Probing, InUse, Freeing, Place, Descriptor, Region
<1>8. CASE AllocateIrq
  <2>1. minor \in Minors /\ loader = "irq" /\ desc \in [Minors -> Descriptor]
    BY <1>8 DEF AllocateIrq, At, PlaceOK, Probing, DescOK
  <2>2. CASE loader' = "hardware"
    <3>1. minor' = minor /\ desc' = [desc EXCEPT ![minor].irq = TRUE]
      BY <1>8, <2>1, <2>2 DEF AllocateIrq, At, Go, Take, Give, Fail, NextRegion
    <3>2. \A m \in Minors : desc'[m].irq <=> desc[m].irq \/ m = minor
      BY <2>1, <3>1 DEF Descriptor
    <3> QED BY <1>0, <2>1, <2>2, <3>1, <3>2 DEF ProgressOK, Probing, InUse
  <2>3. CASE loader' # "hardware"
    BY <1>8, <2>1, <2>3
      DEF AllocateIrq, At, Go, Take, Give, Fail, NextRegion, ProgressOK, Probing, InUse
  <2> QED BY <2>2, <2>3
<1>9. CASE NextDevice
  BY <1>0, <1>00, <1>9
    DEF NextDevice, At, Go, Take, Give, Fail, NextRegion, PlaceOK, DescOK, ProgressOK, Complete,
        Probing, InUse, Freeing, Place, Descriptor, Region
<1>10. CASE TakeNumbers
  BY <1>0, <1>00, <1>10
    DEF TakeNumbers, At, Go, Take, Give, Fail, NextRegion, PlaceOK, DescOK, ProgressOK,
        Complete, Probing, InUse, Freeing, Place, Descriptor, Region
<1>11. CASE AddCdev
  BY <1>0, <1>00, <1>11
    DEF AddCdev, At, Go, Take, Give, Fail, NextRegion, PlaceOK, DescOK, ProgressOK, Complete,
        Probing, InUse, Freeing, Place, Descriptor, Region
<1>12. CASE CreateNode
  BY <1>0, <1>00, <1>12
    DEF CreateNode, At, Go, Take, Give, Fail, NextRegion, PlaceOK, DescOK, ProgressOK, Complete,
        Probing, InUse, Freeing, Place, Descriptor, Region
<1>13. CASE FreeIrq
  BY <1>0, <1>00, <1>13
    DEF FreeIrq, At, Go, Take, Give, Fail, NextRegion, PlaceOK, DescOK, ProgressOK, Complete,
        Probing, InUse, Freeing, Place, Descriptor, Region
<1>14. CASE ReleaseRegions
  BY <1>0, <1>00, <1>14
    DEF ReleaseRegions, At, Go, Take, Give, Fail, NextRegion, PlaceOK, DescOK, ProgressOK,
        Complete, Probing, InUse, Freeing, Place, Descriptor, Region
<1>15. CASE FreeDescriptors
  BY <1>0, <1>00, <1>15
    DEF FreeDescriptors, At, Go, Take, Give, Fail, NextRegion, PlaceOK, DescOK, ProgressOK,
        Complete, Probing, InUse, Freeing, Place, Descriptor, Region
<1>16. CASE ReleaseNothing
  BY <1>0, <1>00, <1>16
    DEF ReleaseNothing, At, Go, Take, Give, Fail, NextRegion, PlaceOK, DescOK, ProgressOK,
        Complete, Probing, InUse, Freeing, Place, Descriptor, Region
<1>17. CASE LoadFailed
  BY <1>0, <1>00, <1>17
    DEF LoadFailed, At, Go, Take, Give, Fail, NextRegion, PlaceOK, DescOK, ProgressOK, Complete,
        Probing, InUse, Freeing, Place, Descriptor, Region
<1>18. CASE Unregister
  BY <1>0, <1>00, <1>18
    DEF Unregister, At, Go, Take, Give, Fail, NextRegion, PlaceOK, DescOK, ProgressOK, Complete,
        Probing, InUse, Freeing, Place, Descriptor, Region
<1>19. CASE Unload(u)
  BY <1>0, <1>00, <1>19
    DEF Unload, At, Go, Take, Give, Fail, NextRegion, PlaceOK, DescOK, ProgressOK, Complete,
        Probing, InUse, Freeing, Place, Descriptor, Region
<1> QED BY <1>1, <1>2, <1>3, <1>4, <1>5, <1>6, <1>7, <1>8, <1>9, <1>10, <1>11, <1>12, <1>13,
  <1>14, <1>15, <1>16, <1>17, <1>18, <1>19 DEF Loading, Releasing

-----------------------------------------------------------------------------
(* Nothing is granted at first.                                            *)
LEMMA NothingGranted ==
  ASSUME LoadInit
  PROVE  LoadInv
<1>1. PlaceOK
  <2>1. NumRegions \in Nat
    BY LoadAssumption
  <2>2. region = 0 /\ minor = 0 /\ calls = 0 /\ loader = "out" /\ bars \in Bars
    BY DEF LoadInit
  <2>4. devices \in BOOLEAN /\ ~devices
    BY DEF LoadInit
  <2>3. region \in 0 .. NumRegions
    BY <2>1, <2>2
  <2> QED BY <2>2, <2>3, <2>4 DEF PlaceOK, Probing, Freeing, Place
<1> USE DEF LoadInit
<1>2. DescOK
  BY DEF DescOK, Descriptor, Zeroed
<1>3. ProgressOK
  BY DEF ProgressOK, Probing, InUse
<1>4. HeldOK
  BY <1>2
    DEF HeldOK, DeviceHeld, IrqHeld, NodeHeld, ReferenceHeld, RegionHeld, InUse, Freeing, Zeroed
<1> QED BY <1>1, <1>2, <1>3, <1>4 DEF LoadInv

(* Every step of the loading, the releasing and the unloading keeps what   *)
(* the driver believes to have in agreement with what the kernel granted.  *)
THEOREM LoadInvKept ==
  ASSUME LoadInv, NEW u, Loading \/ Releasing \/ Unload(u)
  PROVE  LoadInv'
<1>1. HeldOK' /\ twice' \subseteq {Class}
  BY LoadKeepsHeld, EnableKeepsHeld, SkipRegionKeepsHeld, ClaimPortsKeepsHeld,
    MapMemoryKeepsHeld, RefuseRegionKeepsHeld, RegionsDoneKeepsHeld, AllocateIrqKeepsHeld,
    NextDeviceKeepsHeld, TakeNumbersKeepsHeld, AddCdevKeepsHeld, CreateNodeKeepsHeld,
    FreeIrqKeepsHeld, ReleaseRegionsKeepsHeld, FreeDescriptorsKeepsHeld, ReleaseNothingKeepsHeld,
    LoadFailedKeepsHeld, UnregisterKeepsHeld, UnloadKeepsHeld
     DEF Loading, Releasing
<1> QED BY <1>1, PlaceKept, DescriptorsKept, ProgressKept DEF LoadInv
=============================================================================
