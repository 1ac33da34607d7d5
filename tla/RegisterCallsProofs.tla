-------------------------- MODULE RegisterCallsProofs --------------------------
(***************************************************************************)
(* Proofs about the calls of the library and the register accesses of the  *)
(* driver, for a board of any layout that its tables describe truly, of    *)
(* any lengths of its regions, any number of threads, calls and events.    *)
(*                                                                         *)
(* First the accesses by themselves; then where the registers of a part of *)
(* a block lie, and that each function asks only for those of its part;    *)
(* then that each call is good: the driver lets its accesses through, they *)
(* stay in the part, and one that enables an interrupt source follows one  *)
(* that clears its status; at last what an access does to the registers,   *)
(* and the inductive invariant that the steps of the threads and the board *)
(* keep.                                                                   *)
(***************************************************************************)
EXTENDS RegisterCalls, SequenceTheorems, WellFoundedInduction, TLAPS

RegionBits(length) == 0 .. 8 * length - 1

\* What pci_region_modify makes of the registers of a region.
Modified(m, offset, size, data, mask) ==
  region_write(m, offset, size, modified(region_read(m, offset, size), data, mask))

(* A request that is let through has one of the three sizes, names a       *)
(* region, and ends inside it, unless the region is shorter than that.     *)
LEMMA AcceptedFits ==
  ASSUME NEW length, NEW a, validate_pci_access(length, a) = "none"
  PROVE  /\ a.size \in {8, 16, 32}
         /\ a.region \in {"GBC", "FB"}
         /\ ~(length[a.region] >= Bytes(a.size) /\ a.offset > length[a.region] - Bytes(a.size))
<1>1. a.size \in {8, 16, 32}
  BY DEF validate_pci_access
<1>2. a.region \in {"GBC", "FB"}
  BY <1>1 DEF validate_pci_access
<1>3. ~(length[a.region] >= Bytes(a.size) /\ a.offset > length[a.region] - Bytes(a.size))
  BY <1>1, <1>2 DEF validate_pci_access
<1> QED BY <1>1, <1>2, <1>3

(* What validate_pci_access lets through touches no byte outside a region  *)
(* that is at least as long as the access.                                 *)
THEOREM AcceptedStaysInside ==
  ASSUME NEW length \in [{"GBC", "FB"} -> Nat],
         NEW a, a.offset \in Nat, validate_pci_access(length, a) = "none",
         Bytes(a.size) <= length[a.region],
         NEW m \in SUBSET RegionBits(length[a.region]), NEW data
  PROVE  /\ Window(a.offset, a.size) \subseteq RegionBits(length[a.region])
         /\ region_write(m, a.offset, a.size, data) \subseteq RegionBits(length[a.region])
<1>1. /\ a.size \in {8, 16, 32}
      /\ length[a.region] \in Nat
      /\ ~(length[a.region] >= Bytes(a.size) /\ a.offset > length[a.region] - Bytes(a.size))
  BY AcceptedFits
<1>2. 8 * a.offset + a.size <= 8 * length[a.region]
  BY <1>1 DEF Bytes
<1>3. Window(a.offset, a.size) \subseteq RegionBits(length[a.region])
  BY <1>1, <1>2 DEF Window, RegionBits
<1>4. \A b \in Width(a.size) : 8 * a.offset + b \in Window(a.offset, a.size)
  BY <1>1 DEF Width, Window
<1> QED BY <1>3, <1>4 DEF region_write

(* The bits of a register after a write, and all the others.               *)
LEMMA BitsAfterWrite ==
  ASSUME NEW m, NEW offset \in Nat, NEW size \in Nat, NEW data
  PROVE  /\ \A b \in Width(size) :
              8 * offset + b \in region_write(m, offset, size, data) <=> b \in data
         /\ \A x : x \notin Window(offset, size)
              => (x \in region_write(m, offset, size, data) <=> x \in m)
<1>1. \A b \in Width(size) : b \in Nat /\ 8 * offset + b \in Window(offset, size)
  BY DEF Width, Window
<1>2. \A b, c \in Width(size) : 8 * offset + b = 8 * offset + c => b = c
  BY DEF Width
<1> QED BY <1>1, <1>2 DEF region_write

(* A bit of the window of an access is one of the register's, counted from *)
(* where it begins.                                                        *)
LEMMA WindowIsWidth ==
  ASSUME NEW offset \in Nat, NEW size \in Nat, NEW x \in Window(offset, size)
  PROVE  \E b \in Width(size) : x = 8 * offset + b
<1>1. x \in Int /\ 8 * offset <= x /\ x <= 8 * offset + size - 1
  BY DEF Window
<1>2. x - 8 * offset \in Width(size) /\ x = 8 * offset + (x - 8 * offset)
  BY <1>1 DEF Width
<1> QED BY <1>2

(* A read answers what the last write to the register has written, and     *)
(* does not see a write whose bytes are others.                            *)
THEOREM ReadAnswersWrite ==
  ASSUME NEW m, NEW offset \in Nat, NEW size \in Nat, NEW data,
         NEW other \in Nat, NEW width \in Nat
  PROVE  /\ region_read(region_write(m, offset, size, data), offset, size)
              = data \cap Width(size)
         /\ Window(offset, size) \cap Window(other, width) = {}
              => region_read(region_write(m, offset, size, data), other, width)
                   = region_read(m, other, width)
<1>1. region_read(region_write(m, offset, size, data), offset, size) = data \cap Width(size)
  BY BitsAfterWrite DEF region_read
<1>2. \A b \in Width(width) : 8 * other + b \in Window(other, width)
  BY DEF Width, Window
<1>3. ASSUME Window(offset, size) \cap Window(other, width) = {}
      PROVE  \A b \in Width(width) :
               8 * other + b \in region_write(m, offset, size, data) <=> 8 * other + b \in m
  <2> SUFFICES ASSUME NEW b \in Width(width)
               PROVE  8 * other + b \in region_write(m, offset, size, data) <=> 8 * other + b \in m
    OBVIOUS
  <2>1. 8 * other + b \notin Window(offset, size)
    BY <1>2, <1>3
  <2>2. \A x : x \notin Window(offset, size)
          => (x \in region_write(m, offset, size, data) <=> x \in m)
    BY BitsAfterWrite
  <2> QED BY <2>1, <2>2
<1> QED BY <1>1, <1>3 DEF region_read

(* pci_region_modify gives the masked bits of its register the values of   *)
(* the request, and leaves every other bit of the region as it was.        *)
THEOREM ModifyChangesMaskedBits ==
  ASSUME NEW m, NEW offset \in Nat, NEW size \in Nat, NEW data, NEW mask
  PROVE  /\ \A b \in Width(size) :
              8 * offset + b \in Modified(m, offset, size, data, mask)
                <=> IF b \in mask THEN b \in data ELSE 8 * offset + b \in m
         /\ \A x : x \notin Window(offset, size)
              => (x \in Modified(m, offset, size, data, mask) <=> x \in m)
<1> DEFINE new == modified(region_read(m, offset, size), data, mask)
<1>1. \A b \in Width(size) :
        b \in new <=> IF b \in mask THEN b \in data ELSE 8 * offset + b \in m
  BY DEF modified, region_read
<1>2. Modified(m, offset, size, data, mask) = region_write(m, offset, size, new)
  BY DEF Modified
<1> HIDE DEF new
<1>3. /\ \A b \in Width(size) :
            8 * offset + b \in region_write(m, offset, size, new) <=> b \in new
      /\ \A x : x \notin Window(offset, size)
            => (x \in region_write(m, offset, size, new) <=> x \in m)
  BY BitsAfterWrite
<1> QED BY <1>1, <1>2, <1>3

(* The second part of it, for one bit.                                     *)
LEMMA ModifyKeepsOutside ==
  ASSUME NEW m, NEW offset \in Nat, NEW size \in Nat, NEW data, NEW mask,
         NEW x, x \notin Window(offset, size)
  PROVE  x \in Modified(m, offset, size, data, mask) <=> x \in m
<1> DEFINE new == modified(region_read(m, offset, size), data, mask)
<1>1. Modified(m, offset, size, data, mask) = region_write(m, offset, size, new)
  BY DEF Modified
<1> HIDE DEF new
<1>2. x \in region_write(m, offset, size, new) <=> x \in m
  BY BitsAfterWrite
<1> QED BY <1>1, <1>2

(* Two modifications of one register with masks that have no bit in common *)
(* do not disturb each other: in either order they leave the same region.  *)
(* This is why functions that share a register need no lock of their own,  *)
(* as long as each change is one ioctl.                                    *)
THEOREM DisjointMasksCommute ==
  ASSUME NEW m, NEW offset \in Nat, NEW size \in Nat,
         NEW data, NEW mask, NEW data2, NEW mask2, mask \cap mask2 = {}
  PROVE  Modified(Modified(m, offset, size, data, mask), offset, size, data2, mask2)
           = Modified(Modified(m, offset, size, data2, mask2), offset, size, data, mask)
<1> DEFINE one == Modified(m, offset, size, data, mask)
           two == Modified(m, offset, size, data2, mask2)
           first == Modified(one, offset, size, data2, mask2)
           second == Modified(two, offset, size, data, mask)
<1>1. \A b \in Width(size) : 8 * offset + b \in first <=> 8 * offset + b \in second
  <2> SUFFICES ASSUME NEW b \in Width(size)
               PROVE  8 * offset + b \in first <=> 8 * offset + b \in second
    OBVIOUS
  <2>1. /\ 8 * offset + b \in one <=> IF b \in mask THEN b \in data ELSE 8 * offset + b \in m
        /\ 8 * offset + b \in two <=> IF b \in mask2 THEN b \in data2 ELSE 8 * offset + b \in m
    BY ModifyChangesMaskedBits
  <2> HIDE DEF one, two
  <2>2. /\ 8 * offset + b \in first
             <=> IF b \in mask2 THEN b \in data2 ELSE 8 * offset + b \in one
        /\ 8 * offset + b \in second
             <=> IF b \in mask THEN b \in data ELSE 8 * offset + b \in two
    BY ModifyChangesMaskedBits
  <2> HIDE DEF first, second
  <2>3. ~(b \in mask /\ b \in mask2)
    OBVIOUS
  <2> QED BY <2>1, <2>2, <2>3
<1>2. \A x : x \notin Window(offset, size) => (x \in first <=> x \in second)
  <2> SUFFICES ASSUME NEW x, x \notin Window(offset, size)
               PROVE  x \in first <=> x \in second
    OBVIOUS
  <2>1. x \in one <=> x \in m
    BY ModifyKeepsOutside
  <2>2. x \in two <=> x \in m
    BY ModifyKeepsOutside
  <2> HIDE DEF one, two
  <2>3. x \in first <=> x \in one
    BY ModifyKeepsOutside
  <2>4. x \in second <=> x \in two
    BY ModifyKeepsOutside
  <2> HIDE DEF first, second
  <2> QED BY <2>1, <2>2, <2>3, <2>4
<1> HIDE DEF first, second
<1>3. \A x : x \in first <=> x \in second
  <2> SUFFICES ASSUME NEW x PROVE x \in first <=> x \in second
    OBVIOUS
  <2>1. CASE x \in Window(offset, size)
    <3>1. PICK b \in Width(size) : x = 8 * offset + b
      BY <2>1, WindowIsWidth
    <3> QED BY <1>1, <3>1
  <2> QED BY <1>2, <2>1
<1>4. first = second
  BY <1>3
<1> QED BY <1>4 DEF first, second, one, two
-----------------------------------------------------------------------------
(* Where the registers of the parts of a block lie.                        *)

(* What the driver may be asked for.                                       *)
Ops == {"read", "write", "modify"}
Requests == [op : Ops, region : {"GBC", "FB"}, offset : Nat, size : {8, 16, 32},
             data : SUBSET Int, mask : SUBSET Int]

(* Where the registers of a part of a function block begin, and how many   *)
(* bytes they are.                                                         *)
Base(f, owner) ==
  CASE owner[1] = "block" -> f.control_offset
    [] owner[1] = "pins" -> f.control_offset + 40
    [] owner[1] = "channel" ->
         IF f.type = FUNC_BLOCK.ADC THEN f.control_offset + 44 + 24 * owner[2]
                                    ELSE f.control_offset + 44 + 20 * owner[2]
    [] owner[1] = "fifo" ->
         CASE f.type = FUNC_BLOCK.ADC -> f.fb_offset + 820 + 4 * owner[2]
           [] f.type = FUNC_BLOCK.DAC -> f.fb_offset + 132 + 4 * owner[2]
           [] OTHER -> f.fb_offset + 80 + 4 * owner[2]
    [] owner[1] = "dma" -> DmaChannel(f, owner[2])
    [] owner[1] = "buffer" -> DmaBuffer(f, owner[2], owner[3])
Room(f, owner) ==
  CASE owner[1] = "block" ->
         CASE f.type = FUNC_BLOCK.EXT_CLOCKING -> 16 [] f.type = FUNC_BLOCK.ADIO -> 40
           [] OTHER -> 44
    [] owner[1] = "pins" -> 30
    [] owner[1] = "channel" -> IF f.type = FUNC_BLOCK.ADC THEN 24 ELSE 20
    [] owner[1] = "fifo" -> 4
    [] owner[1] \in {"dma", "buffer"} -> 16

Analog == {FUNC_BLOCK.ADC, FUNC_BLOCK.DAC}
Blocks4 == {FUNC_BLOCK.ADC, FUNC_BLOCK.DAC, FUNC_BLOCK.ADIO, FUNC_BLOCK.EXT_CLOCKING}

(* The descriptor of a function block that is open.                        *)
Descriptor(f) ==
  /\ f.type \in Blocks4
  /\ WellPlaced(f)
  /\ f.control_offset = f.fb_offset + FB.CTRL_START

(* The parts of a block that a call can be about.                          *)
Owners(f) ==
  {<<"block">>}
    \cup (IF f.type = FUNC_BLOCK.ADIO THEN {<<"pins">>} ELSE {})
    \cup (IF f.type \in Analog THEN {<<"channel", c>> : c \in 0 .. ChannelSlots(f) - 1} ELSE {})
    \cup (IF f.type # FUNC_BLOCK.EXT_CLOCKING
            THEN {<<"fifo", c>> : c \in 0 .. ChannelSlots(f) - 1} ELSE {})
    \cup {<<"dma", c>> : c \in 0 .. f.num_dma_channels - 1}
    \cup {<<"buffer", c, b>> : c \in 0 .. f.num_dma_channels - 1, b \in 0 .. f.num_dma_buffers - 1}

(* What a descriptor says in numbers, by the type of the block.            *)
LEMMA Sizes ==
  ASSUME NEW f, Descriptor(f)
  PROVE  /\ f.type = 4096 => /\ ChannelSlots(f) = 32 /\ BlockSize(f) = 948
         /\ f.type = 8192 => /\ ChannelSlots(f) = 4 /\ BlockSize(f) = 148
         /\ f.type = 12289 => /\ ChannelSlots(f) = 3 /\ BlockSize(f) = 92
         /\ f.type = 2 => /\ ChannelSlots(f) = 0 /\ BlockSize(f) = 24
         /\ f.type \in {4096, 8192, 12289, 2}
         /\ f.control_offset = f.fb_offset + 8
         /\ f.control_offset \in Nat
         /\ f.fb_offset \in Nat
         /\ f.dma_offset \in Nat
         /\ f.num_dma_channels \in Nat
         /\ f.num_dma_buffers \in Nat
  BY DEF Descriptor, WellPlaced, ChannelSlots, BlockSize, FUNC_BLOCK, Blocks4, ADC_CHAN,
         DAC_CHAN, ADIO_CHAN, NUM_DAC_DMA_CHANNELS, FB

(* A channel that there is ends before the last one does.                  *)
LEMMA Product ==
  ASSUME NEW k \in Nat, NEW c \in Nat, NEW n \in Nat, c < n
  PROVE  /\ k * c \in Nat
         /\ k * c + k <= k * n
<1>1. k * c \in Nat /\ k * n \in Nat
  OBVIOUS
<1>2. k * n - (k * c + k) = k * (n - c - 1)
  OBVIOUS
<1>3. k * (n - c - 1) >= 0
  OBVIOUS
<1> QED BY <1>1, <1>2, <1>3

(* The control block of a DMA channel and the blocks of its buffers.       *)
LEMMA DmaPlaces ==
  ASSUME NEW f, Descriptor(f), NEW c \in 0 .. f.num_dma_channels - 1
  PROVE  /\ DmaChannel(f, c) \in Nat
         /\ DmaChannel(f, c) % 4 = 0
         /\ DmaChannel(f, c) >= f.dma_offset
         /\ DmaChannel(f, c) + 16 + 16 * f.num_dma_buffers <= f.dma_offset + DmaSize(f)
         /\ f.dma_offset + DmaSize(f) \in Nat
<1> DEFINE n == f.num_dma_buffers
           k == 1 + n
           block == 16 + 16 * n
           p == k * c
           before == block * c
           all == block * f.num_dma_channels
<1>1. /\ n \in Nat /\ k \in Nat /\ block \in Nat
      /\ f.num_dma_channels \in Nat /\ c \in Nat /\ c < f.num_dma_channels
      /\ f.dma_offset \in Nat /\ f.dma_offset % 4 = 0
  BY Sizes DEF Descriptor, WellPlaced
<1>2. /\ DmaChannel(f, c) = f.dma_offset + before
      /\ DmaSize(f) = all
      /\ block = 16 + 16 * f.num_dma_buffers
  BY DEF DmaChannel, DmaSize, DMA_CTRL_BLOCK_SIZE, DMA_BUFFER_CTRL_BLOCK_SIZE
<1>3. block = 16 * k
  BY <1>1
<1> HIDE DEF n, k, block
<1>4. /\ before \in Nat /\ all \in Nat
      /\ before + block <= all
  BY <1>1, Product
<1>5. before = 16 * p /\ p \in Nat
  BY <1>1, <1>3
<1> HIDE DEF p, before, all
<1>6. DmaChannel(f, c) % 4 = 0
  BY <1>1, <1>2, <1>5
<1>7. f.num_dma_buffers \in Nat
  BY Sizes
<1> QED BY <1>1, <1>2, <1>4, <1>6, <1>7

(* The control block of a buffer lies in that of its channel.              *)
LEMMA BufferPlaces ==
  ASSUME NEW f, Descriptor(f), NEW c \in 0 .. f.num_dma_channels - 1,
         NEW b \in 0 .. f.num_dma_buffers - 1
  PROVE  /\ DmaBuffer(f, c, b) = DmaChannel(f, c) + 16 + 16 * b
         /\ DmaBuffer(f, c, b) \in Nat
         /\ DmaBuffer(f, c, b) % 4 = 0
         /\ DmaBuffer(f, c, b) >= f.dma_offset
         /\ DmaBuffer(f, c, b) + 16 <= f.dma_offset + DmaSize(f)
<1> DEFINE channel == DmaChannel(f, c)
           last == f.dma_offset + DmaSize(f)
<1>1. DmaBuffer(f, c, b) = channel + 16 + 16 * b
  BY DEF DmaBuffer, DMA_CTRL_BLOCK_SIZE, DMA_BUFFER_CTRL_BLOCK_SIZE
<1>2. /\ channel \in Nat /\ channel % 4 = 0 /\ channel >= f.dma_offset
      /\ channel + 16 + 16 * f.num_dma_buffers <= last
      /\ f.dma_offset \in Nat /\ f.num_dma_buffers \in Nat
  BY DmaPlaces, Sizes
<1>3. DmaSize(f) \in Nat
  BY Sizes DEF DmaSize, DMA_CTRL_BLOCK_SIZE, DMA_BUFFER_CTRL_BLOCK_SIZE
<1> HIDE DEF channel
<1>4. DmaBuffer(f, c, b) \in Nat /\ DmaBuffer(f, c, b) % 4 = 0
  BY <1>1, <1>2
<1> QED BY <1>1, <1>2, <1>3, <1>4 DEF channel

(* A part of a function block lies in the region, aligned to words.        *)
LEMMA PartPlaced ==
  ASSUME NEW f, Descriptor(f), NEW o \in Owners(f)
  PROVE  /\ Base(f, o) \in Nat
         /\ Base(f, o) % 4 = 0
         /\ Room(f, o) \in Nat
         /\ Base(f, o) + Room(f, o) <= Length["FB"]
         /\ Extent(f, o) = 8 * Base(f, o) .. 8 * (Base(f, o) + Room(f, o)) - 1
<1>1. /\ Length["FB"] \in Nat
      /\ f.fb_offset + BlockSize(f) <= Length["FB"]
      /\ f.dma_offset + DmaSize(f) <= Length["FB"]
      /\ f.fb_offset % 4 = 0
  BY LengthAssumption DEF Descriptor, WellPlaced
<1>2. CASE o = <<"block">>
  <2> DEFINE control == f.control_offset
             length == Length["FB"]
  <2>1. PICK n \in {16, 40, 44} :
          /\ Room(f, o) = n
          /\ Extent(f, o) = 8 * control .. 8 * (control + n) - 1
          /\ n <= BlockSize(f) - 8
    <3>1. CASE f.type = 2
      BY <1>2, <3>1, Sizes DEF Room, Extent, FUNC_BLOCK
    <3>2. CASE f.type = 4096
      BY <1>2, <3>2, Sizes DEF Room, Extent, FUNC_BLOCK, ADC_CHAN
    <3>3. CASE f.type = 8192
      BY <1>2, <3>3, Sizes DEF Room, Extent, FUNC_BLOCK, DAC_CHAN
    <3>4. CASE f.type = 12289
      BY <1>2, <3>4, Sizes DEF Room, Extent, FUNC_BLOCK, ADIO_CHAN
    <3> QED BY <3>1, <3>2, <3>3, <3>4, Sizes
  <2>2. Base(f, o) = control
    BY <1>2 DEF Base
  <2> DEFINE start == f.fb_offset
             bytes == BlockSize(f)
  <2>3. control \in Nat /\ start \in Nat /\ control = start + 8 /\ bytes \in Nat
    BY Sizes
  <2>4. n <= bytes - 8 /\ start + bytes <= length /\ length \in Nat /\ start % 4 = 0
    BY <1>1, <2>1
  <2> HIDE DEF control, length, start, bytes
  <2>5. control % 4 = 0 /\ control + n <= length
    BY <2>3, <2>4
  <2> QED BY <2>1, <2>2, <2>3, <2>5 DEF length
<1>3. CASE f.type = 12289 /\ o = <<"pins">>
  BY <1>1, <1>3, Sizes DEF Base, Room, Extent, FUNC_BLOCK, ADIO_CHAN
<1>4. CASE f.type \in Analog /\ \E c \in 0 .. ChannelSlots(f) - 1 : o = <<"channel", c>>
  <2>1. PICK c \in 0 .. ChannelSlots(f) - 1 : o = <<"channel", c>>
    BY <1>4
  <2>2. CASE f.type = 4096
    <3> DEFINE START == ADC_CHAN.START
               SIZE == ADC_CHAN.SIZE
    <3>1. Extent(f, o) = 8 * (f.control_offset + START + c * SIZE)
                          .. 8 * (f.control_offset + START + c * SIZE + SIZE) - 1
      BY <2>1, <2>2 DEF Extent, FUNC_BLOCK
    <3>2. START = 44 /\ SIZE = 24
      BY DEF ADC_CHAN
    <3>3. Base(f, o) = f.control_offset + 44 + 24 * c /\ Room(f, o) = 24
      BY <2>1, <2>2 DEF Base, Room, FUNC_BLOCK
    <3> HIDE DEF START, SIZE
    <3>4. Extent(f, o) = 8 * (f.control_offset + 44 + c * 24)
                          .. 8 * (f.control_offset + 44 + c * 24 + 24) - 1
      BY <3>1, <3>2
    <3> DEFINE base == f.control_offset + 44 + 24 * c
    <3>5. /\ f.control_offset = f.fb_offset + 8 /\ f.fb_offset \in Nat
          /\ c \in 0 .. 31 /\ BlockSize(f) = 948
      BY <2>1, <2>2, Sizes
    <3>6. base \in Nat /\ base % 4 = 0 /\ base + 24 <= Length["FB"]
      BY <1>1, <3>5
    <3>7. Extent(f, o) = 8 * base .. 8 * (base + 24) - 1
      BY <3>4, <3>5
    <3> HIDE DEF base
    <3> QED BY <3>3, <3>6, <3>7 DEF base
  <2>3. CASE f.type = 8192
    <3> DEFINE START == DAC_CHAN.START
               SIZE == DAC_CHAN.SIZE
    <3>1. Extent(f, o) = 8 * (f.control_offset + START + c * SIZE)
                          .. 8 * (f.control_offset + START + c * SIZE + SIZE) - 1
      BY <2>1, <2>3 DEF Extent, FUNC_BLOCK
    <3>2. START = 44 /\ SIZE = 20
      BY DEF DAC_CHAN
    <3>3. Base(f, o) = f.control_offset + 44 + 20 * c /\ Room(f, o) = 20
      BY <2>1, <2>3 DEF Base, Room, FUNC_BLOCK
    <3> HIDE DEF START, SIZE
    <3>4. Extent(f, o) = 8 * (f.control_offset + 44 + c * 20)
                          .. 8 * (f.control_offset + 44 + c * 20 + 20) - 1
      BY <3>1, <3>2
    <3> DEFINE base == f.control_offset + 44 + 20 * c
    <3>5. /\ f.control_offset = f.fb_offset + 8 /\ f.fb_offset \in Nat
          /\ c \in 0 .. 3 /\ BlockSize(f) = 148
      BY <2>1, <2>3, Sizes
    <3>6. base \in Nat /\ base % 4 = 0 /\ base + 20 <= Length["FB"]
      BY <1>1, <3>5
    <3>7. Extent(f, o) = 8 * base .. 8 * (base + 20) - 1
      BY <3>4, <3>5
    <3> HIDE DEF base
    <3> QED BY <3>3, <3>6, <3>7 DEF base
  <2> QED BY <1>4, <2>2, <2>3 DEF Analog, FUNC_BLOCK
<1>5. CASE f.type # 2 /\ \E c \in 0 .. ChannelSlots(f) - 1 : o = <<"fifo", c>>
  <2>1. PICK c \in 0 .. ChannelSlots(f) - 1 : o = <<"fifo", c>>
    BY <1>5
  <2>2. PICK first \in Nat :
          /\ Extent(f, o) = 8 * (f.fb_offset + first + 4 * c)
                             .. 8 * (f.fb_offset + first + 4 * c + 4) - 1
          /\ Base(f, o) = f.fb_offset + first + 4 * c
          /\ first % 4 = 0
          /\ BlockSize(f) = first + 4 * ChannelSlots(f)
    <3>1. CASE f.type = 4096
      <4>1. Extent(f, o) = 8 * (f.fb_offset + ADC_CHAN.FIFO_START + 4 * c)
                          .. 8 * (f.fb_offset + ADC_CHAN.FIFO_START + 4 * c + 4) - 1
        BY <2>1, <3>1 DEF Extent, FUNC_BLOCK
      <4>2. ADC_CHAN.FIFO_START = 820
        BY DEF ADC_CHAN
      <4>3. Base(f, o) = f.fb_offset + 820 + 4 * c
        BY <2>1, <3>1 DEF Base, FUNC_BLOCK
      <4>4. BlockSize(f) = 820 + 4 * ChannelSlots(f)
        BY <3>1, Sizes
      <4> QED BY <4>1, <4>2, <4>3, <4>4
    <3>2. CASE f.type = 8192
      <4>1. Extent(f, o) = 8 * (f.fb_offset + DAC_CHAN.FIFO_START + 4 * c)
                          .. 8 * (f.fb_offset + DAC_CHAN.FIFO_START + 4 * c + 4) - 1
        BY <2>1, <3>2 DEF Extent, FUNC_BLOCK
      <4>2. DAC_CHAN.FIFO_START = 132
        BY DEF DAC_CHAN
      <4>3. Base(f, o) = f.fb_offset + 132 + 4 * c
        BY <2>1, <3>2 DEF Base, FUNC_BLOCK
      <4>4. BlockSize(f) = 132 + 4 * ChannelSlots(f)
        BY <3>2, Sizes
      <4> QED BY <4>1, <4>2, <4>3, <4>4
    <3>3. CASE f.type = 12289
      <4>1. Extent(f, o) = 8 * (f.fb_offset + ADIO_CHAN.FIFO_START + 4 * c)
                          .. 8 * (f.fb_offset + ADIO_CHAN.FIFO_START + 4 * c + 4) - 1
        BY <2>1, <3>3 DEF Extent, FUNC_BLOCK
      <4>2. ADIO_CHAN.FIFO_START = 80
        BY DEF ADIO_CHAN
      <4>3. Base(f, o) = f.fb_offset + 80 + 4 * c
        BY <2>1, <3>3 DEF Base, FUNC_BLOCK
      <4>4. BlockSize(f) = 80 + 4 * ChannelSlots(f)
        BY <3>3, Sizes
      <4> QED BY <4>1, <4>2, <4>3, <4>4
    <3>4. f.type = 4096 \/ f.type = 8192 \/ f.type = 12289
      BY <1>5, Sizes
    <3> QED BY <3>1, <3>2, <3>3, <3>4
  <2>3. Room(f, o) = 4
    BY <2>1 DEF Room
  <2>4. ChannelSlots(f) \in Nat /\ f.fb_offset \in Nat /\ c \in Nat
    BY <2>1, Sizes
  <2> DEFINE base == f.fb_offset + first + 4 * c
  <2>5. base \in Nat /\ base % 4 = 0 /\ base + 4 <= Length["FB"]
    <3> DEFINE room == ChannelSlots(f)
               length == Length["FB"]
               start == f.fb_offset
    <3>1. /\ start \in Nat /\ start % 4 = 0 /\ length \in Nat /\ room \in Nat
          /\ first % 4 = 0 /\ c \in Nat
          /\ start + (first + 4 * room) <= length
      BY <1>1, <2>2, <2>4
    <3>2. c + 1 <= room
      BY <2>1, <2>4
    <3> HIDE DEF room, length, start
    <3>3. start + first + 4 * c \in Nat /\ (start + first + 4 * c) % 4 = 0
          /\ start + first + 4 * c + 4 <= length
      BY <3>1, <3>2
    <3> QED BY <3>3 DEF start, length
  <2>6. Extent(f, o) = 8 * base .. 8 * (base + 4) - 1 /\ Base(f, o) = base
    BY <2>2
  <2> HIDE DEF base
  <2> QED BY <2>3, <2>5, <2>6
<1>6. CASE \E c \in 0 .. f.num_dma_channels - 1 : o = <<"dma", c>>
  <2>1. PICK c \in 0 .. f.num_dma_channels - 1 : o = <<"dma", c>>
    BY <1>6
  <2> DEFINE channel == DmaChannel(f, c)
             last == f.dma_offset + DmaSize(f)
  <2>2. Extent(f, o) = 8 * channel .. 8 * (channel + 16) - 1
    BY <2>1 DEF Extent
  <2>3. Base(f, o) = channel /\ Room(f, o) = 16
    BY <2>1 DEF Base, Room
  <2>4. /\ channel \in Nat /\ channel % 4 = 0
        /\ channel + 16 + 16 * f.num_dma_buffers <= last
        /\ last <= Length["FB"]
        /\ last \in Nat
    BY <1>1, DmaPlaces
  <2>5. channel + 16 <= Length["FB"]
    BY <1>1, <2>4, Sizes
  <2> HIDE DEF channel
  <2> QED BY <2>2, <2>3, <2>4, <2>5
<1>7. CASE \E c \in 0 .. f.num_dma_channels - 1, b \in 0 .. f.num_dma_buffers - 1 :
             o = <<"buffer", c, b>>
  <2>1. PICK c \in 0 .. f.num_dma_channels - 1, b \in 0 .. f.num_dma_buffers - 1 :
          o = <<"buffer", c, b>>
    BY <1>7
  <2> DEFINE buffer == DmaBuffer(f, c, b)
             last == f.dma_offset + DmaSize(f)
  <2>2. Extent(f, o) = 8 * buffer .. 8 * (buffer + 16) - 1
    BY <2>1 DEF Extent
  <2>3. Base(f, o) = buffer /\ Room(f, o) = 16
    BY <2>1 DEF Base, Room
  <2>4. buffer \in Nat /\ buffer % 4 = 0 /\ buffer + 16 <= last
    BY BufferPlaces
  <2>5. last <= Length["FB"] /\ last \in Nat
    BY <1>1, DmaPlaces
  <2>6. buffer + 16 <= Length["FB"]
    BY <1>1, <2>4, <2>5
  <2> HIDE DEF buffer
  <2> QED BY <2>2, <2>3, <2>4, <2>6
<1> QED BY <1>2, <1>3, <1>4, <1>5, <1>6, <1>7 DEF Owners, FUNC_BLOCK

(* The bits that enable an interrupt source, and those that hold its status. *)
Watched(f) == {p[1] : p \in EnablePairs(f)} \cup {p[2] : p \in EnablePairs(f)}

(* The access clears status bits: the block's register by ones, the one of *)
(* an ADC channel as a whole.                                              *)
ClearsBlock(f, a) ==
  /\ f.type # FUNC_BLOCK.EXT_CLOCKING
  /\ a.op = "write" /\ a.offset = f.control_offset + 30 /\ a.size = 16
ClearsChannel(f, a) ==
  /\ f.type = FUNC_BLOCK.ADC
  /\ a.op = "modify" /\ a.size = 8 /\ a.data = Width(8)
  /\ \E c \in 0 .. f.num_dma_channels - 1 : a.offset = f.control_offset + 54 + 24 * c

(* The access enables or disables interrupt sources of the block, or of a  *)
(* channel of an ADC.                                                      *)
EnablesBlock(f, a) ==
  /\ f.type # FUNC_BLOCK.EXT_CLOCKING
  /\ a.op = "write" /\ a.offset = f.control_offset + 24 /\ a.size = 32
EnablesChannel(f, a) ==
  /\ f.type = FUNC_BLOCK.ADC
  /\ a.op = "modify" /\ a.size = 8
  /\ \E c \in 0 .. f.num_dma_channels - 1 : a.offset = f.control_offset + 55 + 24 * c

(* What an access does to the bits that are watched: nothing, or one of    *)
(* these.                                                                  *)
Calm(f, a) ==
  \/ a.op = "read"
  \/ Window(a.offset, a.size) \cap Watched(f) = {}
  \/ ClearsBlock(f, a) \/ ClearsChannel(f, a) \/ EnablesBlock(f, a) \/ EnablesChannel(f, a)

(* The status bits that an access clears, and those of the sources that an *)
(* access enables.                                                         *)
Cleared(f, a) ==
  IF a.region = "FB" /\ ClearsBlock(f, a) THEN {8 * a.offset + b : b \in a.data \cap Width(16)}
  ELSE IF a.region = "FB" /\ ClearsChannel(f, a) THEN Window(a.offset, a.size)
  ELSE {}
Enabling(a, b) == IF a.op = "modify" THEN b \in a.data /\ b \in a.mask
                                     ELSE b \in a.data /\ b - 16 \in a.data
Armed(f, a) ==
  IF a.region = "FB" /\ a.op # "read"
    THEN {p[2] : p \in {p \in EnablePairs(f) : /\ p[1] \in Window(a.offset, a.size)
                                              /\ Enabling(a, p[1] - 8 * a.offset)}}
    ELSE {}

(* An access of a call: what the driver lets through, inside the part of   *)
(* the block that the call is about.                                       *)
GoodAccess(f, c, a) ==
  \/ /\ a.region = "GBC" /\ Allowed(a)
     /\ a.op = "read" \/ (c.owner[1] = "board" /\ Window(a.offset, a.size) \subseteq 16 .. 31)
  \/ /\ a.region = "FB"
     /\ Window(a.offset, a.size) \subseteq Extent(f, c.owner)
     /\ c.asks = "unchecked" \/ Allowed(a)
     /\ Calm(f, a)
GoodAccesses(f, c) == {a \in Requests : GoodAccess(f, c, a)}

(* No access enables a source unless the one before it clears its status.  *)
Prepared(f, accesses) ==
  \A i \in 2 .. Len(accesses) : Armed(f, accesses[i]) \subseteq Cleared(f, accesses[i - 1])

(* A call that its library accepts makes good accesses, the first of which *)
(* enables nothing.                                                        *)
GoodCall(f, c) ==
  c.plan.errno = "none" =>
    /\ c.rate \in Nat
    /\ c.plan.accesses \in Seq(GoodAccesses(f, c))
    /\ c.plan.accesses # <<>>
    /\ Armed(f, c.plan.accesses[1]) = {}
    /\ Prepared(f, c.plan.accesses)

(* An access at a place of a part of the block, away from what is watched. *)
QuietAt(f, o, a) ==
  /\ o \in Owners(f)
  /\ a \in Requests
  /\ a.region = "FB"
  /\ a.offset - Base(f, o) \in Nat
  /\ (a.offset - Base(f, o)) % Bytes(a.size) = 0
  /\ (a.offset - Base(f, o)) + Bytes(a.size) <= Room(f, o)
  /\ \/ a.op = "read"
     \/ o[1] \notin {"block", "channel"}
     \/ /\ o[1] = "block"
        /\ a.offset + Bytes(a.size) <= f.control_offset + 24 \/ a.offset >= f.control_offset + 32
     \/ /\ o[1] = "channel"
        /\ \/ f.type # FUNC_BLOCK.ADC
           \/ a.offset + Bytes(a.size) <= Base(f, o) + 10
           \/ a.offset >= Base(f, o) + 12

(* Accesses that fit a region of the lengths are what the driver accepts.  *)
LEMMA FitsIsAllowed ==
  ASSUME NEW a \in Requests, a.offset % Bytes(a.size) = 0,
         a.offset + Bytes(a.size) <= Length[a.region]
  PROVE  Allowed(a)
<1>1. a.size \in {8, 16, 32} /\ a.region \in {"GBC", "FB"} /\ a.offset \in Nat
  BY DEF Requests
<1>2. Length[a.region] \in Nat /\ Bytes(a.size) \in Nat
  BY <1>1, LengthAssumption DEF Bytes
<1>3. ~(Length[a.region] >= Bytes(a.size) /\ a.offset > Length[a.region] - Bytes(a.size))
  BY <1>1, <1>2
<1> QED BY <1>1, <1>3 DEF Allowed, validate_pci_access

(* The bits of the pairs, by the registers they are in.                    *)
LEMMA WatchedBits ==
  ASSUME NEW f, Descriptor(f), NEW x \in Watched(f)
  PROVE  /\ f.type # 2
         /\ \/ x \in 8 * (f.control_offset + 26) .. 8 * (f.control_offset + 28) - 1
            \/ x \in 8 * (f.control_offset + 30) .. 8 * (f.control_offset + 32) - 1
            \/ /\ f.type = 4096
               /\ \E c \in 0 .. f.num_dma_channels - 1 :
                    x \in 8 * (f.control_offset + 54 + 24 * c)
                         .. 8 * (f.control_offset + 56 + 24 * c) - 1
<1>1. f.type # 2
  BY DEF Watched, EnablePairs, FUNC_BLOCK
<1>2. f.control_offset \in Nat
  BY Sizes
<1> DEFINE pairs(enable, status, n) == {<<8 * enable + b, 8 * status + b>> : b \in Width(n)}
<1>3. PICK p \in EnablePairs(f) : x = p[1] \/ x = p[2]
  BY DEF Watched
<1>4. \/ p \in pairs(f.control_offset + ADC.INT_ENABLE + 2, f.control_offset + ADC.INT_STAT, 16)
      \/ /\ f.type = 4096
         /\ \E c \in Channels(f) : p \in pairs(AdcChannel(f, c, ADC_CHAN.INTR_ENABLE),
                                              AdcChannel(f, c, ADC_CHAN.INTR_STAT), 8)
  BY <1>1 DEF EnablePairs, FUNC_BLOCK
<1>5. CASE p \in pairs(f.control_offset + ADC.INT_ENABLE + 2, f.control_offset + ADC.INT_STAT, 16)
  <2>1. PICK b \in 0 .. 15 : /\ p[1] = 8 * (f.control_offset + 26) + b
                            /\ p[2] = 8 * (f.control_offset + 30) + b
    BY <1>2, <1>5 DEF ADC, Width
  <2> QED BY <1>1, <1>2, <1>3, <2>1
<1>6. ASSUME f.type = 4096,
             NEW c \in Channels(f), p \in pairs(AdcChannel(f, c, ADC_CHAN.INTR_ENABLE),
                                              AdcChannel(f, c, ADC_CHAN.INTR_STAT), 8)
      PROVE  \E d \in 0 .. f.num_dma_channels - 1 :
                    x \in 8 * (f.control_offset + 54 + 24 * d)
                         .. 8 * (f.control_offset + 56 + 24 * d) - 1
  <2>1. c \in 0 .. f.num_dma_channels - 1 /\ f.num_dma_channels \in Nat
    BY Sizes DEF Channels
  <2>2. /\ AdcChannel(f, c, ADC_CHAN.INTR_ENABLE) = f.control_offset + 55 + 24 * c
        /\ AdcChannel(f, c, ADC_CHAN.INTR_STAT) = f.control_offset + 54 + 24 * c
    BY <1>2, <2>1 DEF AdcChannel, ADC_CHAN
  <2>3. PICK b \in 0 .. 7 : /\ p[1] = 8 * (f.control_offset + 55 + 24 * c) + b
                           /\ p[2] = 8 * (f.control_offset + 54 + 24 * c) + b
    BY <1>6, <2>2 DEF Width
  <2>4. x \in 8 * (f.control_offset + 54 + 24 * c) .. 8 * (f.control_offset + 56 + 24 * c) - 1
    BY <1>2, <1>3, <2>1, <2>3
  <2> QED BY <2>1, <2>4
<1> QED BY <1>1, <1>4, <1>5, <1>6

(* A quiet access that writes does so away from the bits that are watched. *)
LEMMA QuietWindow ==
  ASSUME NEW f, Descriptor(f), NEW o, NEW a, QuietAt(f, o, a), a.op # "read"
  PROVE  Window(a.offset, a.size) \cap Watched(f) = {}
<1> DEFINE start == a.offset
           size == Bytes(a.size)
           base == Base(f, o)
           control == f.control_offset
           room == Room(f, o)
<1>1. /\ start \in Nat /\ size \in Nat /\ a.size = 8 * size
      /\ base \in Nat /\ control \in Nat /\ control = f.fb_offset + 8 /\ room \in Nat
      /\ start >= base
      /\ start + size <= base + room
  <2>1. start \in Nat /\ size \in Nat /\ a.size = 8 * size
    BY DEF QuietAt, Requests, Bytes
  <2>2. base \in Nat /\ room \in Nat
    BY PartPlaced DEF QuietAt
  <2>3. start - base \in Nat /\ (start - base) + size <= room
    BY DEF QuietAt
  <2>4. control \in Nat /\ control = f.fb_offset + 8
    BY Sizes
  <2> HIDE DEF start, size, base, room, control
  <2> QED BY <2>1, <2>2, <2>3, <2>4
<1>2. Window(a.offset, a.size) = 8 * start .. 8 * (start + size) - 1
  BY <1>1 DEF Window
<1> SUFFICES ASSUME NEW x \in Watched(f), x \in 8 * start .. 8 * (start + size) - 1
             PROVE  FALSE
  BY <1>2
<1>3. /\ f.type # 2
      /\ \/ x \in 8 * (control + 26) .. 8 * (control + 32) - 1
         \/ /\ f.type = 4096
            /\ \E c \in 0 .. f.num_dma_channels - 1 :
                 x \in 8 * (control + 54 + 24 * c) .. 8 * (control + 56 + 24 * c) - 1
  BY <1>1, WatchedBits
<1>4. /\ f.num_dma_channels \in Nat /\ f.num_dma_channels <= ChannelSlots(f)
      /\ f.type = 4096 => ChannelSlots(f) = 32 /\ BlockSize(f) = 948
      /\ f.type = 8192 => ChannelSlots(f) = 4 /\ BlockSize(f) = 148
      /\ f.type = 12289 => ChannelSlots(f) = 3 /\ BlockSize(f) = 92
      /\ f.type = 4096 \/ f.type = 8192 \/ f.type = 12289
  BY <1>3, Sizes DEF Descriptor, WellPlaced
\* The bits that are watched are between the header of the block and its FIFOs.
<1>5. /\ x >= 8 * (control + 26)
      /\ x < 8 * (control + 44) \/ (f.type = 4096 /\ x < 8 * (control + 812))
  BY <1>1, <1>3, <1>4
<1> USE DEF FUNC_BLOCK
<1>11. base = Base(f, o) /\ room = Room(f, o)
  OBVIOUS
<1> HIDE DEF start, size, base, room
<1>6. CASE o = <<"block">>
  <2>1. base = control
    BY <1>6, <1>11 DEF Base
  <2>2. start + size <= control + 24 \/ start >= control + 32
    BY <1>6 DEF QuietAt, start, size
  <2>3. room \in {16, 40, 44}
    BY <1>6, <1>11 DEF Room
  <2> QED BY <1>1, <1>3, <2>1, <2>2, <2>3
<1>7. CASE f.type = 12289 /\ o = <<"pins">>
  <2>1. base = control + 40
    BY <1>7, <1>11 DEF Base
  <2> QED BY <1>1, <1>3, <1>7, <2>1
<1>8. CASE f.type \in Analog /\ \E c \in 0 .. ChannelSlots(f) - 1 : o = <<"channel", c>>
  <2>1. PICK c \in 0 .. ChannelSlots(f) - 1 : o = <<"channel", c>>
    BY <1>8
  <2>2. CASE f.type = 4096
    <3>1. base = control + 44 + 24 * c /\ room = 24
      BY <2>1, <2>2, <1>11 DEF Base, Room
    <3>2. start + size <= base + 10 \/ start >= base + 12
      BY <2>1, <2>2, <1>11 DEF QuietAt, start, size
    <3>3. c \in Nat
      BY <1>4, <2>1, <2>2
    <3>4. ~(x < 8 * (control + 44))
      BY <1>1, <3>1, <3>3
    <3>5. ~(x \in 8 * (control + 26) .. 8 * (control + 32) - 1)
      BY <1>1, <3>4
    <3>6. PICK d \in 0 .. f.num_dma_channels - 1 :
            x \in 8 * (control + 54 + 24 * d) .. 8 * (control + 56 + 24 * d) - 1
      BY <1>3, <3>5
    <3>7. d \in Nat
      BY <1>4
    <3> HIDE DEF control
    <3> QED BY <1>1, <3>1, <3>2, <3>3, <3>6, <3>7
  <2>3. CASE f.type = 8192
    <3>1. base = control + 44 + 20 * c
      BY <2>1, <2>3, <1>11 DEF Base
    <3>2. c \in Nat
      BY <1>4, <2>1, <2>3
    <3>3. x < 8 * (control + 44)
      BY <1>5, <2>3
    <3> HIDE DEF control
    <3> QED BY <1>1, <3>1, <3>2, <3>3
  <2> QED BY <1>8, <2>2, <2>3 DEF Analog
<1>9. CASE \E c \in 0 .. ChannelSlots(f) - 1 : o = <<"fifo", c>>
  <2>1. PICK c \in 0 .. ChannelSlots(f) - 1 : o = <<"fifo", c>>
    BY <1>9
  <2>2. c \in Nat
    BY <1>4, <2>1
  <2>3. \/ f.type = 4096 /\ base = f.fb_offset + 820 + 4 * c
        \/ f.type = 8192 /\ base = f.fb_offset + 132 + 4 * c
        \/ f.type = 12289 /\ base = f.fb_offset + 80 + 4 * c
    BY <1>4, <1>11, <2>1 DEF Base
  <2>4. f.type = 4096 \/ x < 8 * (control + 44)
    BY <1>5
  <2>5. x < 8 * (control + 812)
    BY <1>1, <1>5
  <2>6. f.type = 4096 => base >= control + 812
    BY <1>1, <2>2, <2>3, Sizes
  <2>7. base >= control + 72
    BY <1>1, <2>2, <2>3, Sizes
  <2> HIDE DEF control
  <2> QED BY <1>1, <2>4, <2>5, <2>6, <2>7
\* The registers of the DMA are before the block or behind it.
<1>10. CASE \/ \E c \in 0 .. f.num_dma_channels - 1 : o = <<"dma", c>>
            \/ \E c \in 0 .. f.num_dma_channels - 1, b \in 0 .. f.num_dma_buffers - 1 :
                 o = <<"buffer", c, b>>
  <2> DEFINE last == f.dma_offset + DmaSize(f)
  <2>1. /\ room = 16
        /\ base >= f.dma_offset /\ base + 16 <= last
        /\ last \in Nat
    <3>1. CASE \E c \in 0 .. f.num_dma_channels - 1 : o = <<"dma", c>>
      <4>1. PICK c \in 0 .. f.num_dma_channels - 1 : o = <<"dma", c>>
        BY <3>1
      <4>2. base = DmaChannel(f, c) /\ room = 16
        BY <1>11, <4>1 DEF Base, Room
      <4>3. f.num_dma_buffers \in Nat /\ f.dma_offset \in Nat
        BY Sizes
      <4> HIDE DEF last
      <4>4. /\ base \in Nat /\ base >= f.dma_offset
            /\ base + 16 + 16 * f.num_dma_buffers <= last /\ last \in Nat
        BY <4>2, DmaPlaces DEF last
      <4> QED BY <4>2, <4>3, <4>4
    <3>2. CASE \E c \in 0 .. f.num_dma_channels - 1, b \in 0 .. f.num_dma_buffers - 1 :
                 o = <<"buffer", c, b>>
      <4>1. PICK c \in 0 .. f.num_dma_channels - 1, b \in 0 .. f.num_dma_buffers - 1 :
              o = <<"buffer", c, b>>
        BY <3>2
      <4>2. base = DmaBuffer(f, c, b) /\ room = 16
        BY <1>11, <4>1 DEF Base, Room
      <4> QED BY <4>2, DmaPlaces, BufferPlaces
    <3> QED BY <1>10, <3>1, <3>2
  <2>2. /\ f.dma_offset >= f.fb_offset + BlockSize(f) \/ last <= f.fb_offset
        /\ f.dma_offset \in Nat /\ f.fb_offset \in Nat
    BY Sizes DEF Descriptor, WellPlaced
  <2> DEFINE first == f.fb_offset
             bytes == BlockSize(f)
  <2>3. bytes \in Nat /\ bytes >= 92 /\ (f.type = 4096 => bytes = 948)
    BY <1>4
  <2>4. first \in Nat /\ control = first + 8
    BY <1>1, <2>2
  <2>5. x < 8 * (control + 44) \/ (bytes = 948 /\ x < 8 * (control + 812))
    BY <1>5, <2>3
  <2>6. f.dma_offset >= first + bytes \/ last <= first
    BY <2>2
  <2> HIDE DEF last, first, bytes, control
  <2>7. x >= 8 * first /\ x < 8 * (first + bytes)
    BY <1>5, <2>3, <2>4, <2>5
  <2> QED BY <1>1, <2>1, <2>2, <2>4, <2>3, <2>6, <2>7
<1> QED BY <1>4, <1>6, <1>7, <1>8, <1>9, <1>10 DEF Owners, QuietAt

(* A quiet access is a good one, and enables no source.                    *)
LEMMA QuietIsGood ==
  ASSUME NEW f, Descriptor(f), NEW c, NEW a, QuietAt(f, c.owner, a)
  PROVE  a \in GoodAccesses(f, c) /\ Armed(f, a) = {}
<1> DEFINE o == c.owner
           start == a.offset
           size == Bytes(a.size)
           base == Base(f, o)
           room == Room(f, o)
           length == Length["FB"]
<1>1. o \in Owners(f) /\ a \in Requests /\ a.region = "FB"
  BY DEF QuietAt
<1>2. /\ start \in Nat /\ a.size = 8 * size
      /\ size \in {1, 2, 4}
  BY <1>1 DEF Requests, Bytes
<1>3. /\ base \in Nat /\ room \in Nat /\ base + room <= length
      /\ base % 4 = 0
      /\ Extent(f, o) = 8 * base .. 8 * (base + room) - 1
  BY <1>1, PartPlaced
<1>4. /\ start - base \in Nat /\ (start - base) % size = 0
      /\ (start - base) + size <= room
  BY DEF QuietAt
<1>5. length \in Nat
  BY LengthAssumption
<1>6. Window(a.offset, a.size) = 8 * start .. 8 * (start + size) - 1
  BY <1>2 DEF Window
<1> HIDE DEF start, size, base, room, length, o
<1>7. start % size = 0 /\ start + size <= length
  BY <1>2, <1>3, <1>4, <1>5
<1>8. Allowed(a)
  BY <1>1, <1>7, FitsIsAllowed DEF start, size, length
<1>9. 8 * start .. 8 * (start + size) - 1 \subseteq 8 * base .. 8 * (base + room) - 1
  BY <1>2, <1>3, <1>4
<1>10. Window(a.offset, a.size) \subseteq Extent(f, c.owner)
  BY <1>3, <1>6, <1>9 DEF o
<1>11. a.op = "read" \/ Window(a.offset, a.size) \cap Watched(f) = {}
  BY QuietWindow DEF o
<1>12. Calm(f, a)
  BY <1>11 DEF Calm
<1>13. Armed(f, a) = {}
  <2>1. CASE a.op = "read"
    BY <2>1 DEF Armed
  <2>2. CASE Window(a.offset, a.size) \cap Watched(f) = {}
    BY <2>2 DEF Armed, Watched
  <2> QED BY <1>11, <2>1, <2>2
<1> QED BY <1>1, <1>8, <1>10, <1>12, <1>13 DEF GoodAccesses, GoodAccess

(* A call that makes one quiet access, and one that makes several.         *)
(* The quiet accesses to a part.                                           *)
Quiets(f, o) == {a \in Requests : QuietAt(f, o, a)}
(* A call that makes quiet accesses only is a good call.                   *)
LEMMA AllQuiet ==
  ASSUME NEW f, Descriptor(f), NEW c,
         c.plan.errno = "none" =>
           /\ c.rate \in Nat
           /\ c.plan.accesses \in Seq(Quiets(f, c.owner))
           /\ c.plan.accesses # <<>>
  PROVE  GoodCall(f, c)
<1> SUFFICES ASSUME c.plan.errno = "none"
             PROVE  /\ c.rate \in Nat
                    /\ c.plan.accesses \in Seq(GoodAccesses(f, c))
                    /\ c.plan.accesses # <<>>
                    /\ Armed(f, c.plan.accesses[1]) = {}
                    /\ Prepared(f, c.plan.accesses)
  BY DEF GoodCall
<1> DEFINE s == c.plan.accesses
           S == Quiets(f, c.owner)
           T == GoodAccesses(f, c)
<1>1. c.rate \in Nat /\ s \in Seq(S) /\ s # <<>>
  OBVIOUS
<1>2. \A a \in S : a \in T /\ Armed(f, a) = {}
  BY QuietIsGood DEF Quiets
<1> HIDE DEF s, S, T
<1>3. s \in Seq(T)
  BY <1>1, <1>2
<1>4. \A i \in 1 .. Len(s) : Armed(f, s[i]) = {}
  BY <1>1, <1>2
<1>5. Armed(f, s[1]) = {}
  <2>1. Len(s) \in Nat /\ Len(s) # 0
    BY <1>1, EmptySeq
  <2>2. 1 \in 1 .. Len(s)
    BY <2>1
  <2> QED BY <1>4, <2>2
<1>6. Prepared(f, s)
  <2>1. \A i \in 2 .. Len(s) : i \in 1 .. Len(s)
    BY <1>1
  <2> QED BY <1>4, <2>1 DEF Prepared
<1> QED BY <1>1, <1>3, <1>5, <1>6 DEF s, S, T

(* Values are sets of bits.                                                *)
LEMMA DataTypes ==
  /\ \A n : Bits(n) \in SUBSET Int
  /\ \A n \in Int : Width(n) \in SUBSET Int
  /\ \A b, m : Get_Maskable(b, m) \in SUBSET Int
  /\ \A n \in Nat : \A d \in Patterns(n) : d \in SUBSET Int
  /\ \A s \in Sources : s \in SUBSET Int
<1>1. ASSUME NEW n
      PROVE  Bits(n) \in SUBSET Int
  <2> DEFINE One(b) == (n \div 2^b) % 2 = 1
  <2>1. Bits(n) = {b \in 0 .. 30 : One(b)} \cup (IF n < 0 THEN {31} ELSE {})
    BY DEF Bits
  <2> HIDE DEF One
  <2>2. {b \in 0 .. 30 : One(b)} \in SUBSET Int
    OBVIOUS
  <2>3. (IF n < 0 THEN {31} ELSE {}) \in SUBSET Int
    OBVIOUS
  <2> QED BY <2>1, <2>2, <2>3
<1>2. ASSUME NEW n \in Int
      PROVE  Width(n) \in SUBSET Int
  BY DEF Width
<1>3. \A b, m : Get_Maskable(b, m) \in SUBSET Int
  <2>1. Width(16) \in SUBSET Int
    BY <1>2
  <2>2. \A b \in Width(16) : b + 16 \in Int
    BY <2>1
  <2> QED BY <2>1, <2>2 DEF Get_Maskable, HighHalf
<1>4. \A n \in Nat : \A d \in Patterns(n) : d \in SUBSET Int
  <2>1. {0} \in SUBSET Int
    OBVIOUS
  <2> QED BY <1>2, <2>1 DEF Patterns
<1>5. \A s \in Sources : s \in SUBSET Int
  BY DEF Sources
<1> QED BY <1>1, <1>2, <1>3, <1>4, <1>5

(* The plan of a function: nothing but quiet accesses to a part.           *)
QuietPlan(f, o, plan) ==
  plan.errno = "none" =>
    /\ plan.accesses \in Seq(Quiets(f, o))
    /\ plan.accesses # <<>>

(* The calls with such a plan.                                             *)
LEMMA QuietCalls ==
  ASSUME NEW f, Descriptor(f)
  PROVE  /\ \A o, field, set, of, plan :
              QuietPlan(f, o, plan) => GoodCall(f, Call(o, field, set, of, plan))
         /\ \A field, data, plan :
              QuietPlan(f, <<"block">>, plan) => GoodCall(f, OfBlock(field, data, plan))
         /\ \A o, plan : QuietPlan(f, o, plan) => GoodCall(f, Query(o, plan))
         /\ \A plan : QuietPlan(f, <<"block">>, plan) => GoodCall(f, AskBlock(plan))
<1>1. ASSUME NEW o, NEW field, NEW set, NEW of, NEW plan, QuietPlan(f, o, plan)
      PROVE  GoodCall(f, Call(o, field, set, of, plan))
  <2> DEFINE c == Call(o, field, set, of, plan)
  <2>1. c.plan = plan /\ c.owner = o /\ c.rate = 0
    BY DEF Call
  <2>2. c.plan.errno = "none" =>
           /\ c.rate \in Nat
           /\ c.plan.accesses \in Seq(Quiets(f, c.owner))
           /\ c.plan.accesses # <<>>
    BY <1>1, <2>1 DEF QuietPlan
  <2> HIDE DEF c
  <2> QED BY <2>2, AllQuiet DEF c
<1> QED BY <1>1 DEF OfBlock, Query, AskBlock

(* What Read, Write and Modify ask for are requests of the driver.         *)
LEMMA RequestTypes ==
  ASSUME NEW offset \in Nat, NEW size \in {8, 16, 32}, NEW data \in SUBSET Int,
         NEW mask \in SUBSET Int
  PROVE  /\ Read(offset, size) \in Requests
         /\ Write(offset, size, data) \in Requests
         /\ Modify(offset, size, data, mask) \in Requests
         /\ \A a \in {Read(offset, size), Write(offset, size, data),
                      Modify(offset, size, data, mask)} :
               a.region = "FB" /\ a.offset = offset /\ a.size = size
         /\ Read(offset, size).op = "read"
<1>1. {} \in SUBSET Int
  OBVIOUS
<1> QED BY <1>1 DEF Requests, Ops, Read, Write, Modify, Access

(* Bytes n up to n + k - 1 of a part, none of them watched.                *)
Spare(f, o, n, k) ==
  /\ n % k = 0 /\ n + k <= Room(f, o)
  /\ \/ o[1] \notin {"block", "channel"}
     \/ o[1] = "block" /\ (n + k <= 24 \/ n >= 32)
     \/ o[1] = "channel" /\ (f.type # FUNC_BLOCK.ADC \/ n + k <= 10 \/ n >= 12)

(* An access there is quiet, and so is one that reads anywhere.            *)
LEMMA PlacedQuiet ==
  ASSUME NEW f, Descriptor(f), NEW o \in Owners(f), NEW n \in Nat, NEW k \in {1, 2, 4},
         NEW start, start = Base(f, o) + n
  PROVE  /\ n % k = 0 /\ n + k <= Room(f, o) => Read(start, 8 * k) \in Quiets(f, o)
         /\ Spare(f, o, n, k) =>
              \A d, m \in SUBSET Int : /\ Write(start, 8 * k, d) \in Quiets(f, o)
                                       /\ Modify(start, 8 * k, d, m) \in Quiets(f, o)
<1> DEFINE base == Base(f, o)
           room == Room(f, o)
           control == f.control_offset
           size == 8 * k
<1>1. base \in Nat /\ room \in Nat /\ control \in Nat
  BY PartPlaced, Sizes
<1>2. start \in Nat /\ size \in {8, 16, 32} /\ Bytes(size) = k
  <2>1. start = base + n /\ base \in Nat
    BY <1>1
  <2> QED BY <2>1 DEF Bytes
<1>3. o[1] = "block" => base = control
  BY DEF Base
<1>4. ASSUME NEW a \in Requests, a.region = "FB", a.offset = start, a.size = size,
             n % k = 0, n + k <= room, a.op = "read" \/ Spare(f, o, n, k)
      PROVE  a \in Quiets(f, o)
  <2>1. a.offset - base = n /\ Bytes(a.size) = k
    BY <1>1, <1>2, <1>4
  <2>2. o[1] = "block" => /\ n + k <= 24 => a.offset + k <= control + 24
                          /\ n >= 32 => a.offset >= control + 32
    BY <1>1, <1>3, <1>4
  <2>3. /\ n + k <= 10 => a.offset + k <= base + 10
        /\ n >= 12 => a.offset >= base + 12
    BY <1>1, <1>4
  <2>4. \/ a.op = "read"
        \/ o[1] \notin {"block", "channel"}
        \/ /\ o[1] = "block"
           /\ a.offset + k <= control + 24 \/ a.offset >= control + 32
        \/ /\ o[1] = "channel"
           /\ f.type # FUNC_BLOCK.ADC \/ a.offset + k <= base + 10 \/ a.offset >= base + 12
    BY <1>4, <2>2, <2>3 DEF Spare
  <2>5. QuietAt(f, o, a)
    BY <1>4, <2>1, <2>4 DEF QuietAt
  <2> QED BY <2>5 DEF Quiets
<1> HIDE DEF base, room, control, size
<1>5. {} \in SUBSET Int
  OBVIOUS
<1>6. ASSUME n % k = 0 /\ n + k <= Room(f, o)
      PROVE  Read(start, size) \in Quiets(f, o)
  BY <1>2, <1>4, <1>5, <1>6, RequestTypes DEF room
<1>7. ASSUME Spare(f, o, n, k), NEW d \in SUBSET Int, NEW m \in SUBSET Int
      PROVE  Write(start, size, d) \in Quiets(f, o) /\ Modify(start, size, d, m) \in Quiets(f, o)
  <2>1. n % k = 0 /\ n + k <= room
    BY <1>7 DEF Spare, room
  <2> QED BY <1>2, <1>4, <1>7, <2>1, RequestTypes
<1> QED BY <1>6, <1>7 DEF size

(* What may be asked at a place of a part.                                 *)
Place(f, o, start, n) ==
  /\ n + 1 <= Room(f, o) => Read(start, 8) \in Quiets(f, o)
  /\ n % 2 = 0 /\ n + 2 <= Room(f, o) => Read(start, 16) \in Quiets(f, o)
  /\ n % 4 = 0 /\ n + 4 <= Room(f, o) => Read(start, 32) \in Quiets(f, o)
  /\ \A d \in SUBSET Int : Spare(f, o, n, 1) => Write(start, 8, d) \in Quiets(f, o)
  /\ \A d, m \in SUBSET Int : Spare(f, o, n, 1) => Modify(start, 8, d, m) \in Quiets(f, o)
  /\ \A d \in SUBSET Int : Spare(f, o, n, 4) => Write(start, 32, d) \in Quiets(f, o)
  /\ \A d, m \in SUBSET Int : Spare(f, o, n, 4) => Modify(start, 32, d, m) \in Quiets(f, o)

(* The accesses of all sizes at one place.                                 *)
LEMMA Places ==
  ASSUME NEW f, Descriptor(f), NEW o \in Owners(f), NEW n \in Nat,
         NEW start, start = Base(f, o) + n
  PROVE  Place(f, o, start, n)
<1>1. /\ n % 1 = 0 /\ n + 1 <= Room(f, o) => Read(start, 8 * 1) \in Quiets(f, o)
      /\ n % 2 = 0 /\ n + 2 <= Room(f, o) => Read(start, 8 * 2) \in Quiets(f, o)
      /\ n % 4 = 0 /\ n + 4 <= Room(f, o) => Read(start, 8 * 4) \in Quiets(f, o)
  BY PlacedQuiet
<1>2. /\ \A d \in SUBSET Int : Spare(f, o, n, 1) => Write(start, 8 * 1, d) \in Quiets(f, o)
      /\ \A d, m \in SUBSET Int : Spare(f, o, n, 1) => Modify(start, 8 * 1, d, m) \in Quiets(f, o)
      /\ \A d \in SUBSET Int : Spare(f, o, n, 4) => Write(start, 8 * 4, d) \in Quiets(f, o)
      /\ \A d, m \in SUBSET Int : Spare(f, o, n, 4) => Modify(start, 8 * 4, d, m) \in Quiets(f, o)
  BY PlacedQuiet
<1>3. n % 1 = 0 /\ 8 * 1 = 8 /\ 8 * 2 = 16 /\ 8 * 4 = 32
  OBVIOUS
<1> QED BY <1>1, <1>2, <1>3 DEF Place

(* The registers of the block.                                             *)
LEMMA OnBlock ==
  ASSUME NEW f, Descriptor(f)
  PROVE  \A n \in Nat : /\ Place(f, <<"block">>, AdcReg(f, n), n)
                        /\ Place(f, <<"block">>, DacReg(f, n), n)
                        /\ Place(f, <<"block">>, AdioReg(f, n), n)
                        /\ Place(f, <<"block">>, ExtReg(f, n), n)
<1> TAKE n \in Nat
<1>1. /\ AdcReg(f, n) = Base(f, <<"block">>) + n
      /\ DacReg(f, n) = Base(f, <<"block">>) + n
      /\ AdioReg(f, n) = Base(f, <<"block">>) + n
      /\ ExtReg(f, n) = Base(f, <<"block">>) + n
  BY DEF Base, AdcReg, DacReg, AdioReg, ExtReg
<1>2. <<"block">> \in Owners(f)
  BY DEF Owners
<1> QED BY <1>1, <1>2, Places

(* The registers of a channel of the ADC.                                  *)
LEMMA OnAdcChannel ==
  ASSUME NEW f, Descriptor(f), f.type = FUNC_BLOCK.ADC, NEW c \in 0 .. f.num_dma_channels - 1
  PROVE  /\ <<"channel", c>> \in Owners(f)
         /\ \A n \in Nat : AdcChannel(f, c, n) = Base(f, <<"channel", c>>) + n
         /\ \A n \in Nat : Place(f, <<"channel", c>>, AdcChannel(f, c, n), n)
<1> DEFINE o == <<"channel", c>>
<1>1. /\ c \in 0 .. ChannelSlots(f) - 1 /\ c \in Nat
      /\ f.control_offset \in Nat
  BY Sizes DEF Descriptor, WellPlaced
<1>2. o \in Owners(f)
  BY <1>1 DEF Owners, Analog
<1>3. ASSUME NEW n \in Nat
      PROVE  AdcChannel(f, c, n) = Base(f, o) + n
  <2> DEFINE START == ADC_CHAN.START
             SIZE == ADC_CHAN.SIZE
  <2>1. AdcChannel(f, c, n) = f.control_offset + START + c * SIZE + n
    BY DEF AdcChannel
  <2>2. START = 44 /\ SIZE = 24
    BY DEF ADC_CHAN
  <2>3. Base(f, o) = f.control_offset + 44 + 24 * c
    BY DEF Base
  <2> HIDE DEF START, SIZE
  <2> QED BY <1>1, <2>1, <2>2, <2>3
<1>4. ASSUME NEW n \in Nat
      PROVE  Place(f, o, AdcChannel(f, c, n), n)
  BY <1>2, <1>3, Places
<1> QED BY <1>2, <1>3, <1>4

(* The registers of a channel of the DAC.                                  *)
LEMMA OnDacChannel ==
  ASSUME NEW f, Descriptor(f), f.type = FUNC_BLOCK.DAC, NEW c \in 0 .. 3
  PROVE  /\ <<"channel", c>> \in Owners(f)
         /\ \A n \in Nat : DacChannel(f, c, n) = Base(f, <<"channel", c>>) + n
         /\ \A n \in Nat : Place(f, <<"channel", c>>, DacChannel(f, c, n), n)
<1> DEFINE o == <<"channel", c>>
<1>1. /\ c \in 0 .. ChannelSlots(f) - 1 /\ c \in Nat
      /\ f.control_offset \in Nat
  BY Sizes DEF FUNC_BLOCK
<1>2. o \in Owners(f)
  BY <1>1 DEF Owners, Analog
<1>3. ASSUME NEW n \in Nat
      PROVE  DacChannel(f, c, n) = Base(f, o) + n
  <2> DEFINE START == DAC_CHAN.START
             SIZE == DAC_CHAN.SIZE
  <2>1. DacChannel(f, c, n) = f.control_offset + START + c * SIZE + n
    BY DEF DacChannel
  <2>2. START = 44 /\ SIZE = 20
    BY DEF DAC_CHAN
  <2>3. Base(f, o) = f.control_offset + 44 + 20 * c
    BY DEF Base, FUNC_BLOCK
  <2> HIDE DEF START, SIZE
  <2> QED BY <1>1, <2>1, <2>2, <2>3
<1>4. ASSUME NEW n \in Nat
      PROVE  Place(f, o, DacChannel(f, c, n), n)
  BY <1>2, <1>3, Places
<1> QED BY <1>2, <1>3, <1>4

(* The registers of the pins of the ADIO.                                  *)
LEMMA OnPins ==
  ASSUME NEW f, Descriptor(f), f.type = FUNC_BLOCK.ADIO
  PROVE  \A n \in Nat : Place(f, <<"pins">>, AdioPins(f, n), n)
<1> TAKE n \in Nat
<1>1. <<"pins">> \in Owners(f)
  BY DEF Owners
<1>2. ADIO_CHAN.START = 40
  BY DEF ADIO_CHAN
<1>3. AdioPins(f, n) = Base(f, <<"pins">>) + n
  BY <1>2 DEF AdioPins, Base
<1> QED BY <1>1, <1>3, Places

(* The FIFO of a channel.                                                  *)
LEMMA OnFifo ==
  ASSUME NEW f, Descriptor(f), NEW c \in 0 .. f.num_dma_channels - 1
  PROVE  /\ f.type = FUNC_BLOCK.ADC =>
              Place(f, <<"fifo", c>>, f.fb_offset + ADC_CHAN.FIFO_START + c * ADC_CHAN.FIFO_SIZE, 0)
         /\ f.type = FUNC_BLOCK.DAC =>
              Place(f, <<"fifo", c>>, f.fb_offset + DAC_CHAN.FIFO_START + c * DAC_CHAN.FIFO_SIZE, 0)
         /\ f.type = FUNC_BLOCK.ADIO => Place(f, <<"fifo", c>>, AdioFifo(f, c), 0)
<1> DEFINE o == <<"fifo", c>>
<1>1. /\ c \in 0 .. ChannelSlots(f) - 1 /\ c \in Nat
      /\ f.fb_offset \in Nat
  BY Sizes DEF Descriptor, WellPlaced
<1>2. f.type # FUNC_BLOCK.EXT_CLOCKING => o \in Owners(f)
  BY <1>1 DEF Owners
<1>3. ASSUME f.type = FUNC_BLOCK.ADC
      PROVE  Place(f, o, f.fb_offset + ADC_CHAN.FIFO_START + c * ADC_CHAN.FIFO_SIZE, 0)
  <2> DEFINE START == ADC_CHAN.FIFO_START
             SIZE == ADC_CHAN.FIFO_SIZE
  <2>1. START = 820 /\ SIZE = 4
    BY DEF ADC_CHAN
  <2>2. Base(f, o) = f.fb_offset + 820 + 4 * c /\ o \in Owners(f)
    BY <1>2, <1>3 DEF Base, FUNC_BLOCK
  <2> HIDE DEF START, SIZE
  <2>3. f.fb_offset + START + c * SIZE = Base(f, o) + 0
    BY <1>1, <2>1, <2>2
  <2>4. Place(f, o, f.fb_offset + START + c * SIZE, 0)
    BY <2>2, <2>3, Places
  <2> QED BY <2>4 DEF START, SIZE
<1>4. ASSUME f.type = FUNC_BLOCK.DAC
      PROVE  Place(f, o, f.fb_offset + DAC_CHAN.FIFO_START + c * DAC_CHAN.FIFO_SIZE, 0)
  <2> DEFINE START == DAC_CHAN.FIFO_START
             SIZE == DAC_CHAN.FIFO_SIZE
  <2>1. START = 132 /\ SIZE = 4
    BY DEF DAC_CHAN
  <2>2. Base(f, o) = f.fb_offset + 132 + 4 * c /\ o \in Owners(f)
    BY <1>2, <1>4 DEF Base, FUNC_BLOCK
  <2> HIDE DEF START, SIZE
  <2>3. f.fb_offset + START + c * SIZE = Base(f, o) + 0
    BY <1>1, <2>1, <2>2
  <2>4. Place(f, o, f.fb_offset + START + c * SIZE, 0)
    BY <2>2, <2>3, Places
  <2> QED BY <2>4 DEF START, SIZE
<1>5. ASSUME f.type = FUNC_BLOCK.ADIO
      PROVE  Place(f, o, AdioFifo(f, c), 0)
  <2> DEFINE START == ADIO_CHAN.FIFO_START
             SIZE == ADIO_CHAN.FIFO_SIZE
  <2>1. START = 80 /\ SIZE = 4
    BY DEF ADIO_CHAN
  <2>2. Base(f, o) = f.fb_offset + 80 + 4 * c /\ o \in Owners(f)
    BY <1>2, <1>5 DEF Base, FUNC_BLOCK
  <2>3. AdioFifo(f, c) = f.fb_offset + START + c * SIZE
    BY DEF AdioFifo
  <2> HIDE DEF START, SIZE
  <2>4. AdioFifo(f, c) = Base(f, o) + 0
    BY <1>1, <2>1, <2>2, <2>3
  <2> QED BY <2>2, <2>4, Places
<1> QED BY <1>3, <1>4, <1>5

(* The registers of a DMA channel.                                         *)
LEMMA OnDma ==
  ASSUME NEW f, Descriptor(f), NEW c \in 0 .. f.num_dma_channels - 1
  PROVE  \A n \in Nat : Place(f, <<"dma", c>>, DmaReg(f, c, n), n)
<1> TAKE n \in Nat
<1>1. <<"dma", c>> \in Owners(f)
  BY DEF Owners
<1>2. DmaReg(f, c, n) = Base(f, <<"dma", c>>) + n
  BY DEF DmaReg, Base
<1> QED BY <1>1, <1>2, Places

(* The registers of a DMA buffer.                                          *)
LEMMA OnBuffer ==
  ASSUME NEW f, Descriptor(f), NEW c, NEW b, BufferOk(f, c, b)
  PROVE  \A n \in Nat : Place(f, <<"buffer", c, b>>, DmaBufferReg(f, c, b, n), n)
<1> TAKE n \in Nat
<1>1. <<"buffer", c, b>> \in Owners(f)
  BY DEF Owners, BufferOk, AdcChannelOk
<1>2. DmaBufferReg(f, c, b, n) = Base(f, <<"buffer", c, b>>) + n
  BY DEF DmaBufferReg, Base
<1> QED BY <1>1, <1>2, Places

(* A plan of one access, or of none; two plans one after the other.        *)
LEMMA Plans ==
  ASSUME NEW f, NEW o
  PROVE  /\ \A a \in Quiets(f, o) : QuietPlan(f, o, Request(<<a>>))
         /\ \A errno : errno # "none" => QuietPlan(f, o, Rejected(errno))
<1>1. \A a \in Quiets(f, o) : <<a>> \in Seq(Quiets(f, o)) /\ <<a>> # <<>>
  OBVIOUS
<1> QED BY <1>1 DEF QuietPlan, Request, Rejected

(* The plan of a function that looks at the number of the channel: quiet   *)
(* if it is for a channel that there is.                                   *)
LEMMA ChannelPlans ==
  ASSUME NEW f, NEW o, NEW c
  PROVE  \A a : (AdcChannelOk(f, c) => a \in Quiets(f, o))
                   => QuietPlan(f, o, OnChannel(f, c, <<a>>))
<1>1. ASSUME NEW a, AdcChannelOk(f, c), a \in Quiets(f, o)
      PROVE  QuietPlan(f, o, OnChannel(f, c, <<a>>))
  <2>1. OnChannel(f, c, <<a>>) = Request(<<a>>)
    BY <1>1 DEF OnChannel, Checked
  <2> QED BY <1>1, <2>1, Plans
<1>2. ASSUME NEW a, ~AdcChannelOk(f, c)
      PROVE  QuietPlan(f, o, OnChannel(f, c, <<a>>))
  <2>1. OnChannel(f, c, <<a>>) = Rejected("EINVAL")
    BY <1>2 DEF OnChannel, Checked
  <2> QED BY <2>1, Plans
<1> QED BY <1>1, <1>2

(* Where the registers of the block are, as numbers.                       *)
LEMMA BlockPlaces ==
  /\ ADC.MODE_STATUS = 0 /\ ADC.CLK_SRC = 1 /\ ADC.START_TRIG = 2 /\ ADC.STOP_TRIG = 3
  /\ ADC.CLK_DIV = 4 /\ ADC.PRE_CAPT_COUNT = 12 /\ ADC.POST_CAPT_COUNT = 16 /\ ADC.CLK_BUS2 = 34
  /\ DAC.MODE_STATUS = 0 /\ DAC.CLK_SRC = 1 /\ DAC.START_TRIG = 2 /\ DAC.STOP_TRIG = 3
  /\ DAC.CLK_DIV = 4 /\ DAC.POST_STOP_CONV = 16 /\ DAC.CLK_BUS2 = 34
  /\ ADIO.MODE_STATUS = 0 /\ ADIO.CLK_SRC = 1 /\ ADIO.START_TRIG = 2 /\ ADIO.STOP_TRIG = 3
  /\ ADIO.CLK_DIV = 4 /\ ADIO.PRE_CAPT_COUNT = 12 /\ ADIO.POST_CAPT_COUNT = 16
  /\ ADIO.CLK_BUS2 = 34
<1>1. /\ ADC.MODE_STATUS = 0 /\ ADC.CLK_SRC = 1 /\ ADC.START_TRIG = 2 /\ ADC.STOP_TRIG = 3
      /\ ADC.CLK_DIV = 4 /\ ADC.PRE_CAPT_COUNT = 12 /\ ADC.POST_CAPT_COUNT = 16
      /\ ADC.CLK_BUS2 = 34
  BY DEF ADC
<1>2. /\ DAC.MODE_STATUS = 0 /\ DAC.CLK_SRC = 1 /\ DAC.START_TRIG = 2 /\ DAC.STOP_TRIG = 3
      /\ DAC.CLK_DIV = 4 /\ DAC.POST_STOP_CONV = 16 /\ DAC.CLK_BUS2 = 34
  BY DEF DAC
<1>3. /\ ADIO.MODE_STATUS = 0 /\ ADIO.CLK_SRC = 1 /\ ADIO.START_TRIG = 2
      /\ ADIO.STOP_TRIG = 3 /\ ADIO.CLK_DIV = 4 /\ ADIO.PRE_CAPT_COUNT = 12
      /\ ADIO.POST_CAPT_COUNT = 16 /\ ADIO.CLK_BUS2 = 34
  BY DEF ADIO
<1> QED BY <1>1, <1>2, <1>3
(* Where the registers of a channel are, as numbers.                       *)
LEMMA ChannelPlaces ==
  /\ ADC_CHAN.FRONT_END_CONFIG = 0 /\ ADC_CHAN.FILTER = 9 /\ ADC_CHAN.LOW_THRESHOLD = 12
  /\ ADC_CHAN.HIGH_THRESHOLD = 16 /\ ADC_CHAN.LAST_SAMPLE = 20
  /\ DAC_CHAN.FRONT_END_CONFIG = 0 /\ DAC_CHAN.MARKER_STATUS = 10
  /\ DAC_CHAN.MARKER_ENABLE = 11 /\ DAC_CHAN.LAST_CONVERSION = 16
  BY DEF ADC_CHAN, DAC_CHAN

(* What the functions of the ADC library ask of the block, interrupts      *)
(* aside.                                                                  *)
LEMMA AdcBlock ==
  ASSUME NEW f, Descriptor(f), f.type = FUNC_BLOCK.ADC, NEW k, NEW d \in SUBSET Int
  PROVE  /\ QuietPlan(f, <<"block">>, Adc_Set_Start_Trigger(f, k))
         /\ QuietPlan(f, <<"block">>, Adc_Set_Stop_Trigger(f, k))
         /\ QuietPlan(f, <<"block">>, Adc_Set_Clock_Src(f, k))
         /\ QuietPlan(f, <<"block">>, Adc_Set_Pre_Trigger_Samples(f, k))
         /\ QuietPlan(f, <<"block">>, Adc_Set_Post_Stop_Samples(f, d))
         /\ QuietPlan(f, <<"block">>, Adc_Set_Clk_Divider(f, d))
         /\ \A bus : QuietPlan(f, <<"block">>, Adc_Set_Clock_Source_Global(f, bus, k))
         /\ \A mode : QuietPlan(f, <<"block">>, AdcMode(f, mode))
<1>1. Room(f, <<"block">>) = 44
  BY DEF Room, FUNC_BLOCK
<1>2. \A n : Bits(n) \in SUBSET Int
  BY DataTypes
<1> USE <1>1, <1>2, BlockPlaces, OnBlock, Plans DEF Checked, Place, Spare
<1>3. QuietPlan(f, <<"block">>, Adc_Set_Start_Trigger(f, k))
  BY DEF Adc_Set_Start_Trigger
<1>4. QuietPlan(f, <<"block">>, Adc_Set_Stop_Trigger(f, k))
  BY DEF Adc_Set_Stop_Trigger
<1>5. QuietPlan(f, <<"block">>, Adc_Set_Clock_Src(f, k))
  BY DEF Adc_Set_Clock_Src
<1>6. QuietPlan(f, <<"block">>, Adc_Set_Pre_Trigger_Samples(f, k))
  BY DEF Adc_Set_Pre_Trigger_Samples
<1>7. QuietPlan(f, <<"block">>, Adc_Set_Post_Stop_Samples(f, d))
  BY DEF Adc_Set_Post_Stop_Samples
<1>8. QuietPlan(f, <<"block">>, Adc_Set_Clk_Divider(f, d))
  BY DEF Adc_Set_Clk_Divider
<1>9. ASSUME NEW bus
      PROVE  QuietPlan(f, <<"block">>, Adc_Set_Clock_Source_Global(f, bus, k))
  <2>1. bus \in Buses => BusRegister(ADC.CLK_BUS2, bus) \in 34 .. 39
    BY DEF Buses, BusRegister
  <2>2. bus \in Buses => Write(AdcReg(f, BusRegister(ADC.CLK_BUS2, bus)), 8, Bits(k))
                           \in Quiets(f, <<"block">>)
    BY <2>1
  <2> QED BY <2>2 DEF Adc_Set_Clock_Source_Global, Adc_Validate_Clock_Global_Source
<1>10. \A mode : QuietPlan(f, <<"block">>, AdcMode(f, mode))
  BY DEF AdcMode
<1> QED BY <1>3, <1>4, <1>5, <1>6, <1>7, <1>8, <1>9, <1>10

(* And of a channel and its FIFO.                                          *)
LEMMA AdcOfChannel ==
  ASSUME NEW f, Descriptor(f), f.type = FUNC_BLOCK.ADC, NEW c, NEW k, NEW d \in SUBSET Int
  PROVE  /\ \A delay, range, mode :
              QuietPlan(f, <<"channel", c>>, Adc_Channel_Setup(f, c, delay, range, mode))
         /\ QuietPlan(f, <<"channel", c>>, Adc_Channel_Reset(f, c))
         /\ QuietPlan(f, <<"channel", c>>, Adc_Channel_Set_Filter(f, c, d))
         /\ QuietPlan(f, <<"channel", c>>, Adc_Channel_Get_Filter(f, c, d))
         /\ QuietPlan(f, <<"channel", c>>, Adc_Channel_Set_Low_Threshold(f, c, k))
         /\ QuietPlan(f, <<"channel", c>>, Adc_Channel_Set_High_Threshold(f, c, k))
         /\ QuietPlan(f, <<"fifo", c>>, Adc_Fifo_Channel_Read(f, c))
         /\ c \in Channels(f) => QuietPlan(f, <<"channel", c>>, Adc_Channel_Get_Last_Sample(f, c))
<1>1. Room(f, <<"channel", c>>) = 24 /\ Room(f, <<"fifo", c>>) = 4
  BY DEF Room, FUNC_BLOCK
<1>2. AdcChannelOk(f, c) => \A n \in Nat : Place(f, <<"channel", c>>, AdcChannel(f, c, n), n)
  BY OnAdcChannel DEF AdcChannelOk
<1>3. Bits(k) \in SUBSET Int /\ \A b, m : Get_Maskable(b, m) \in SUBSET Int
  BY DataTypes
<1> USE <1>1, <1>2, <1>3, ChannelPlaces, Plans, ChannelPlans DEF Checked, Place, Spare
<1>4. ASSUME NEW delay, NEW range, NEW mode
      PROVE  QuietPlan(f, <<"channel", c>>, Adc_Channel_Setup(f, c, delay, range, mode))
  <2> DEFINE data ==
             Get_Maskable(Bits(64 * delay), Bits(ADC_FE_CONFIG.DELAY))
               \cup Get_Maskable(Bits(range.code),
                                 Bits(ADC_FE_CONFIG.GAIN + ADC_FE_CONFIG.POLARITY))
               \cup Get_Maskable(Bits((IF mode = "differential" THEN 1 ELSE 0)
                                        + ADC_FE_CONFIG.ENABLE),
                                 Bits(ADC_FE_CONFIG.MODE + ADC_FE_CONFIG.ENABLE))
             valid == Adc_Validate_Channel_Setup(f, c, delay, range, mode)
  <2>1. data \in SUBSET Int
    OBVIOUS
  <2>2. Adc_Channel_Setup(f, c, delay, range, mode)
          = IF valid THEN Request(<<Write(FrontEnd(f, c), 32, data)>>) ELSE Rejected("EINVAL")
    BY DEF Adc_Channel_Setup
  <2> HIDE DEF data
  <2>3. valid => Write(FrontEnd(f, c), 32, data) \in Quiets(f, <<"channel", c>>)
    BY <2>1 DEF Adc_Validate_Channel_Setup, FrontEnd
  <2> HIDE DEF valid
  <2> QED BY <2>2, <2>3
<1>5. QuietPlan(f, <<"channel", c>>, Adc_Channel_Reset(f, c))
  BY DEF Adc_Channel_Reset, FrontEnd
<1>6. QuietPlan(f, <<"channel", c>>, Adc_Channel_Set_Filter(f, c, d))
  BY DEF Adc_Channel_Set_Filter
<1>7. QuietPlan(f, <<"channel", c>>, Adc_Channel_Get_Filter(f, c, d))
  BY DEF Adc_Channel_Get_Filter
<1>8. QuietPlan(f, <<"channel", c>>, Adc_Channel_Set_Low_Threshold(f, c, k))
  <2> DEFINE a == Write(AdcChannel(f, c, ADC_CHAN.LOW_THRESHOLD), 32, Bits(k))
             valid == AdcChannelOk(f, c) /\ k \in Thresholds
  <2>1. valid => a \in Quiets(f, <<"channel", c>>)
    OBVIOUS
  <2>2. Adc_Channel_Set_Low_Threshold(f, c, k)
          = IF valid THEN Request(<<a>>) ELSE Rejected("EINVAL")
    BY DEF Adc_Channel_Set_Low_Threshold
  <2> HIDE DEF valid, a
  <2> QED BY <2>1, <2>2
<1>9. QuietPlan(f, <<"channel", c>>, Adc_Channel_Set_High_Threshold(f, c, k))
  <2> DEFINE a == Write(AdcChannel(f, c, ADC_CHAN.HIGH_THRESHOLD), 32, Bits(k))
             valid == AdcChannelOk(f, c) /\ k \in Thresholds
  <2>1. valid => a \in Quiets(f, <<"channel", c>>)
    OBVIOUS
  <2>2. Adc_Channel_Set_High_Threshold(f, c, k)
          = IF valid THEN Request(<<a>>) ELSE Rejected("EINVAL")
    BY DEF Adc_Channel_Set_High_Threshold
  <2> HIDE DEF valid, a
  <2> QED BY <2>1, <2>2
<1>10. QuietPlan(f, <<"fifo", c>>, Adc_Fifo_Channel_Read(f, c))
  <2> DEFINE a == Read(f.fb_offset + ADC_CHAN.FIFO_START + c * ADC_CHAN.FIFO_SIZE, 32)
             denied == AdcChannelOk(f, c) /\ ~HasFifo(f)
  <2>1. ASSUME AdcChannelOk(f, c)
        PROVE  a \in Quiets(f, <<"fifo", c>>)
    <3> DEFINE start == f.fb_offset + ADC_CHAN.FIFO_START + c * ADC_CHAN.FIFO_SIZE
    <3>1. c \in 0 .. f.num_dma_channels - 1
      BY <2>1 DEF AdcChannelOk
    <3>2. Place(f, <<"fifo", c>>, start, 0)
      BY <3>1, OnFifo
    <3> HIDE DEF start
    <3>3. Read(start, 32) \in Quiets(f, <<"fifo", c>>)
      BY <3>2
    <3> QED BY <3>3 DEF start
  <2>2. Adc_Fifo_Channel_Read(f, c) = IF denied THEN Rejected("EPERM") ELSE OnChannel(f, c, <<a>>)
    BY DEF Adc_Fifo_Channel_Read
  <2> HIDE DEF denied, a
  <2> QED BY <2>1, <2>2
<1>11. c \in Channels(f) => QuietPlan(f, <<"channel", c>>, Adc_Channel_Get_Last_Sample(f, c))
  BY DEF Adc_Channel_Get_Last_Sample, Channels, AdcChannelOk
<1> QED BY <1>4, <1>5, <1>6, <1>7, <1>8, <1>9, <1>10, <1>11

(* A conversion with its markers is a set of bits.                         *)
LEMMA LastData ==
  ASSUME NEW k \in SUBSET Int, NEW d \in SUBSET Int
  PROVE  {b + 24 : b \in k} \cup SignExtended(d) \in SUBSET Int
<1>1. {b + 24 : b \in k} \in SUBSET Int
  OBVIOUS
<1>2. SignExtended(d) \in SUBSET Int
  BY DEF SignExtended
<1> QED BY <1>1, <1>2

(* What the functions of the DAC library ask of the block, interrupts      *)
(* aside.                                                                  *)
LEMMA DacBlock ==
  ASSUME NEW f, Descriptor(f), f.type = FUNC_BLOCK.DAC, NEW k, NEW d \in SUBSET Int
  PROVE  /\ QuietPlan(f, <<"block">>, Dac_Set_Start_Trigger(f, k))
         /\ QuietPlan(f, <<"block">>, Dac_Set_Stop_Trigger(f, k))
         /\ QuietPlan(f, <<"block">>, Dac_Set_Clock_Src(f, k))
         /\ QuietPlan(f, <<"block">>, Dac_Set_Post_Stop_Conversion_Count(f, d))
         /\ QuietPlan(f, <<"block">>, Dac_Set_Clock_Div(f, d))
         /\ \A bus : QuietPlan(f, <<"block">>, Dac_Set_Clock_Source_Global(f, bus, k))
         /\ \A mode : QuietPlan(f, <<"block">>, DacMode(f, mode))
<1>1. Room(f, <<"block">>) = 44
  BY DEF Room, FUNC_BLOCK
<1>2. \A n : Bits(n) \in SUBSET Int
  BY DataTypes
<1> USE <1>1, <1>2, BlockPlaces, OnBlock, Plans DEF Checked, Place, Spare
<1>3. QuietPlan(f, <<"block">>, Dac_Set_Start_Trigger(f, k))
  BY DEF Dac_Set_Start_Trigger
<1>4. QuietPlan(f, <<"block">>, Dac_Set_Stop_Trigger(f, k))
  BY DEF Dac_Set_Stop_Trigger
<1>5. QuietPlan(f, <<"block">>, Dac_Set_Clock_Src(f, k))
  BY DEF Dac_Set_Clock_Src
<1>6. QuietPlan(f, <<"block">>, Dac_Set_Post_Stop_Conversion_Count(f, d))
  BY DEF Dac_Set_Post_Stop_Conversion_Count
<1>7. QuietPlan(f, <<"block">>, Dac_Set_Clock_Div(f, d))
  BY DEF Dac_Set_Clock_Div
<1>8. ASSUME NEW bus
      PROVE  QuietPlan(f, <<"block">>, Dac_Set_Clock_Source_Global(f, bus, k))
  <2>1. bus \in Buses => BusRegister(DAC.CLK_BUS2, bus) \in 34 .. 39
    BY DEF Buses, BusRegister
  <2>2. bus \in Buses => Write(DacReg(f, BusRegister(DAC.CLK_BUS2, bus)), 8, Bits(k))
                           \in Quiets(f, <<"block">>)
    BY <2>1
  <2> QED BY <2>2 DEF Dac_Set_Clock_Source_Global, Dac_Validate_Clock_Global_Src_Args
<1>9. \A mode : QuietPlan(f, <<"block">>, DacMode(f, mode))
  BY DEF DacMode
<1> QED BY <1>3, <1>4, <1>5, <1>6, <1>7, <1>8, <1>9

(* And of a channel and its FIFO.                                          *)
LEMMA DacOfChannel ==
  ASSUME NEW f, Descriptor(f), f.type = FUNC_BLOCK.DAC, NEW c \in Nat, NEW d \in SUBSET Int
  PROVE  /\ \A range : QuietPlan(f, <<"channel", c>>, Dac_Channel_Setup(f, c, range))
         /\ QuietPlan(f, <<"channel", c>>, Dac_Channel_Reset(f, c))
         /\ QuietPlan(f, <<"fifo", c>>, Dac_Fifo_Channel_Write(f, c, d))
         /\ c < NUM_DAC_DMA_CHANNELS =>
              /\ QuietPlan(f, <<"channel", c>>, Dac_Channel_Set_Marker_Config(f, c, d))
              /\ QuietPlan(f, <<"channel", c>>, Dac_Channel_Clear_Marker_Status(f, c, d))
              /\ QuietPlan(f, <<"channel", c>>, Dac_Channel_Get_Marker_Status(f, c))
              /\ \A markers \in SUBSET Int :
                   QuietPlan(f, <<"channel", c>>, Dac_Set_Last_Conversion(f, c, markers, d))
<1>1. Room(f, <<"channel", c>>) = 20 /\ Room(f, <<"fifo", c>>) = 4
  BY DEF Room, FUNC_BLOCK
<1>2. f.type # FUNC_BLOCK.ADC
  BY DEF FUNC_BLOCK
<1>3. \A b, m : Get_Maskable(b, m) \in SUBSET Int
  BY DataTypes
<1>4. \A n \in Nat : c < NUM_DAC_DMA_CHANNELS
                       => Place(f, <<"channel", c>>, DacChannel(f, c, n), n)
  BY OnDacChannel DEF NUM_DAC_DMA_CHANNELS
<1> USE <1>1, <1>2, <1>3, <1>4, ChannelPlaces, Plans DEF Place, Spare
<1>5. ASSUME NEW range
      PROVE  QuietPlan(f, <<"channel", c>>, Dac_Channel_Setup(f, c, range))
  <2> DEFINE a == Write(DacFrontEnd(f, c), 32,
                        Get_Maskable(Bits(DAC_FE_CONFIG.ENABLE + range.code),
                                     Bits(DAC_FE_CONFIG.ENABLE + DAC_FE_CONFIG.GAIN
                                            + DAC_FE_CONFIG.POLARITY)))
             valid == Dac_Validate_Output_Range(range) /\ c < NUM_DAC_DMA_CHANNELS
  <2>1. Dac_Channel_Setup(f, c, range) = IF valid THEN Request(<<a>>) ELSE Rejected("EINVAL")
    BY DEF Dac_Channel_Setup, Checked
  <2>2. valid => a \in Quiets(f, <<"channel", c>>)
    BY DEF DacFrontEnd
  <2> HIDE DEF a, valid
  <2> QED BY <2>1, <2>2
<1>6. QuietPlan(f, <<"channel", c>>, Dac_Channel_Reset(f, c))
  <2> DEFINE a == Write(DacFrontEnd(f, c), 32, Get_Maskable({}, Width(16)))
             valid == c < NUM_DAC_DMA_CHANNELS
  <2>1. Dac_Channel_Reset(f, c) = IF valid THEN Request(<<a>>) ELSE Rejected("EINVAL")
    BY DEF Dac_Channel_Reset, Checked
  <2>2. valid => a \in Quiets(f, <<"channel", c>>)
    BY DEF DacFrontEnd
  <2> HIDE DEF a, valid
  <2> QED BY <2>1, <2>2
<1>7. QuietPlan(f, <<"fifo", c>>, Dac_Fifo_Channel_Write(f, c, d))
  <2> DEFINE start == f.fb_offset + DAC_CHAN.FIFO_START + c * DAC_CHAN.FIFO_SIZE
             a == Write(start, 32, d)
             denied == AdcChannelOk(f, c) /\ ~HasFifo(f)
  <2>1. ASSUME AdcChannelOk(f, c)
        PROVE  a \in Quiets(f, <<"fifo", c>>)
    <3>1. c \in 0 .. f.num_dma_channels - 1
      BY <2>1 DEF AdcChannelOk
    <3>2. Place(f, <<"fifo", c>>, start, 0)
      BY <3>1, OnFifo
    <3> HIDE DEF start
    <3> QED BY <3>2
  <2>2. Dac_Fifo_Channel_Write(f, c, d)
          = IF denied THEN Rejected("EPERM") ELSE OnChannel(f, c, <<a>>)
    BY DEF Dac_Fifo_Channel_Write
  <2> HIDE DEF denied, a
  <2> QED BY <2>1, <2>2, ChannelPlans
<1>8. ASSUME c < NUM_DAC_DMA_CHANNELS
      PROVE  /\ QuietPlan(f, <<"channel", c>>, Dac_Channel_Set_Marker_Config(f, c, d))
             /\ QuietPlan(f, <<"channel", c>>, Dac_Channel_Clear_Marker_Status(f, c, d))
             /\ QuietPlan(f, <<"channel", c>>, Dac_Channel_Get_Marker_Status(f, c))
  BY <1>8 DEF Dac_Channel_Set_Marker_Config, Dac_Channel_Clear_Marker_Status,
              Dac_Channel_Get_Marker_Status
<1>9. ASSUME c < NUM_DAC_DMA_CHANNELS, NEW markers \in SUBSET Int
      PROVE  QuietPlan(f, <<"channel", c>>, Dac_Set_Last_Conversion(f, c, markers, d))
  <2> DEFINE data == {b + 24 : b \in markers} \cup SignExtended(d)
  <2>1. data \in SUBSET Int
    BY LastData
  <2> HIDE DEF data
  <2>2. Write(DacChannel(f, c, DAC_CHAN.LAST_CONVERSION), 32, data) \in Quiets(f, <<"channel", c>>)
    BY <1>9, <2>1
  <2> QED BY <2>2 DEF Dac_Set_Last_Conversion, data
<1> QED BY <1>5, <1>6, <1>7, <1>8, <1>9

(* What the functions of the ADIO library ask of the block, interrupts     *)
(* aside.                                                                  *)
LEMMA AdioBlock ==
  ASSUME NEW f, Descriptor(f), f.type = FUNC_BLOCK.ADIO, NEW k, NEW d \in SUBSET Int
  PROVE  /\ QuietPlan(f, <<"block">>, Adio_Set_Start_Trigger(f, k))
         /\ QuietPlan(f, <<"block">>, Adio_Set_Stop_Trigger(f, k))
         /\ QuietPlan(f, <<"block">>, Adio_Set_Clock_Src(f, k))
         /\ QuietPlan(f, <<"block">>, Adio_Set_Pre_Trigger_Samples(f, k))
         /\ QuietPlan(f, <<"block">>, Adio_Set_Post_Stop_Samples(f, d))
         /\ QuietPlan(f, <<"block">>, Adio_Set_Clk_Divider(f, d))
         /\ \A bus : QuietPlan(f, <<"block">>, Adio_Set_Clock_Source_Global(f, bus, k))
         /\ \A mode : QuietPlan(f, <<"block">>, AdioMode(f, mode))
<1>1. Room(f, <<"block">>) = 40
  BY DEF Room, FUNC_BLOCK
<1>2. \A n : Bits(n) \in SUBSET Int
  BY DataTypes
<1> USE <1>1, <1>2, BlockPlaces, OnBlock, Plans DEF Checked, Place, Spare
<1>3. QuietPlan(f, <<"block">>, Adio_Set_Start_Trigger(f, k))
  BY DEF Adio_Set_Start_Trigger
<1>4. QuietPlan(f, <<"block">>, Adio_Set_Stop_Trigger(f, k))
  BY DEF Adio_Set_Stop_Trigger
<1>5. QuietPlan(f, <<"block">>, Adio_Set_Clock_Src(f, k))
  BY DEF Adio_Set_Clock_Src
<1>6. QuietPlan(f, <<"block">>, Adio_Set_Pre_Trigger_Samples(f, k))
  BY DEF Adio_Set_Pre_Trigger_Samples
<1>7. QuietPlan(f, <<"block">>, Adio_Set_Post_Stop_Samples(f, d))
  BY DEF Adio_Set_Post_Stop_Samples
<1>8. QuietPlan(f, <<"block">>, Adio_Set_Clk_Divider(f, d))
  BY DEF Adio_Set_Clk_Divider
<1>9. ASSUME NEW bus
      PROVE  QuietPlan(f, <<"block">>, Adio_Set_Clock_Source_Global(f, bus, k))
  <2>1. bus \in Buses => BusRegister(ADIO.CLK_BUS2, bus) \in 34 .. 39
    BY DEF Buses, BusRegister
  <2>2. bus \in Buses => Write(AdioReg(f, BusRegister(ADIO.CLK_BUS2, bus)), 8, Bits(k))
                           \in Quiets(f, <<"block">>)
    BY <2>1
  <2> QED BY <2>2 DEF Adio_Set_Clock_Source_Global, Adio_Validate_Clock_Global_Source
<1>10. \A mode : QuietPlan(f, <<"block">>, AdioMode(f, mode))
  BY DEF AdioMode
<1> QED BY <1>3, <1>4, <1>5, <1>6, <1>7, <1>8, <1>9, <1>10

(* Of the pins.                                                            *)
LEMMA AdioOfPins ==
  ASSUME NEW f, Descriptor(f), f.type = FUNC_BLOCK.ADIO, NEW k, NEW d \in SUBSET Int,
         NEW on \in BOOLEAN
  PROVE  /\ QuietPlan(f, <<"pins">>, Adio_Set_Output_Value(f, d))
         /\ QuietPlan(f, <<"pins">>, Adio_Set_Direction(f, d))
         /\ QuietPlan(f, <<"pins">>, Adio_Set_Adv_Int_Mode(f, k))
         /\ QuietPlan(f, <<"pins">>, Adio_Set_Adv_Int_Mask(f, d))
         /\ QuietPlan(f, <<"pins">>, Adio_Set_Adv_Int_Comp(f, d))
         /\ QuietPlan(f, <<"pins">>, Adio_Set_Adv_Int_Capt(f, d))
         /\ QuietPlan(f, <<"pins">>, Adio_Set_P_Bus_Enable(f, on))
         /\ QuietPlan(f, <<"pins">>, Adio_Set_P_Bus_Ready_Enable(f, on))
<1>1. Room(f, <<"pins">>) = 30
  BY DEF Room
<1>2. Bits(k) \in SUBSET Int
  BY DataTypes
<1>3. /\ ADIO_CHAN.OUTPUT_VAL = 4 /\ ADIO_CHAN.DIRECTION = 8 /\ ADIO_CHAN.ADV_INT_MODE = 12
      /\ ADIO_CHAN.ADV_INT_MASK = 16 /\ ADIO_CHAN.ADV_INT_COMP = 20
      /\ ADIO_CHAN.ADV_INT_CAPT = 24 /\ ADIO_CHAN.P_BUS_ENABLE = 28
      /\ ADIO_CHAN.P_BUS_READY_ENABLE = 29
  BY DEF ADIO_CHAN
<1>4. Flag(on) \in SUBSET Int
  BY DEF Flag
<1> USE <1>1, <1>2, <1>3, <1>4, OnPins, Plans DEF Checked, Place, Spare
<1>5. QuietPlan(f, <<"pins">>, Adio_Set_Output_Value(f, d))
  BY DEF Adio_Set_Output_Value
<1>6. QuietPlan(f, <<"pins">>, Adio_Set_Direction(f, d))
  BY DEF Adio_Set_Direction
<1>7. QuietPlan(f, <<"pins">>, Adio_Set_Adv_Int_Mode(f, k))
  BY DEF Adio_Set_Adv_Int_Mode
<1>8. QuietPlan(f, <<"pins">>, Adio_Set_Adv_Int_Mask(f, d))
  BY DEF Adio_Set_Adv_Int_Mask
<1>9. QuietPlan(f, <<"pins">>, Adio_Set_Adv_Int_Comp(f, d))
  BY DEF Adio_Set_Adv_Int_Comp
<1>10. QuietPlan(f, <<"pins">>, Adio_Set_Adv_Int_Capt(f, d))
  BY DEF Adio_Set_Adv_Int_Capt
<1>11. QuietPlan(f, <<"pins">>, Adio_Set_P_Bus_Enable(f, on))
  BY DEF Adio_Set_P_Bus_Enable
<1>12. QuietPlan(f, <<"pins">>, Adio_Set_P_Bus_Ready_Enable(f, on))
  BY DEF Adio_Set_P_Bus_Ready_Enable
<1> QED BY <1>5, <1>6, <1>7, <1>8, <1>9, <1>10, <1>11, <1>12

(* And of the FIFO of a channel.                                           *)
LEMMA AdioOfFifo ==
  ASSUME NEW f, Descriptor(f), f.type = FUNC_BLOCK.ADIO, NEW c, NEW d \in SUBSET Int
  PROVE  /\ QuietPlan(f, <<"fifo", c>>, Adio_Fifo_Channel_Read(f, c))
         /\ QuietPlan(f, <<"fifo", c>>, Adio_Fifo_Channel_Write(f, c, d))
<1> DEFINE denied == AdcChannelOk(f, c) /\ ~HasFifo(f)
<1>1. ASSUME AdcChannelOk(f, c)
      PROVE  /\ Read(AdioFifo(f, c), 32) \in Quiets(f, <<"fifo", c>>)
             /\ Write(AdioFifo(f, c), 32, d) \in Quiets(f, <<"fifo", c>>)
  <2>1. c \in 0 .. f.num_dma_channels - 1
    BY <1>1 DEF AdcChannelOk
  <2>2. Place(f, <<"fifo", c>>, AdioFifo(f, c), 0)
    BY <2>1, OnFifo
  <2>3. Room(f, <<"fifo", c>>) = 4
    BY DEF Room
  <2> QED BY <2>2, <2>3 DEF Place, Spare
<1>2. /\ Adio_Fifo_Channel_Read(f, c)
           = IF denied THEN Rejected("EPERM")
             ELSE OnChannel(f, c, <<Read(AdioFifo(f, c), 32)>>)
      /\ Adio_Fifo_Channel_Write(f, c, d)
           = IF denied THEN Rejected("EPERM")
             ELSE OnChannel(f, c, <<Write(AdioFifo(f, c), 32, d)>>)
  BY DEF Adio_Fifo_Channel_Read, Adio_Fifo_Channel_Write
<1> HIDE DEF denied
<1> QED BY <1>1, <1>2, Plans, ChannelPlans

(* A function for a global clock bus writes the register of the bus.       *)
LEMMA BusAccess ==
  ASSUME NEW f, NEW bus \in Buses, NEW first, NEW data
  PROVE  OnBus(f, bus, Write(first, 8, data))
           = Request(<<Write(ExtReg(f, BusRegister(first, bus)), 8, data)>>)
<1> DEFINE a == Write(first, 8, data)
           n == BusRegister(first, bus)
<1>1. a.offset = first
  BY DEF Write, Access
<1>2. [a EXCEPT !.offset = ExtReg(f, n)] = Write(ExtReg(f, n), 8, data)
  <2> DEFINE place == ExtReg(f, n)
  <2> HIDE DEF place, n
  <2>1. [a EXCEPT !.offset = place] = Write(place, 8, data)
    BY DEF Write, Access
  <2> QED BY <2>1 DEF place
<1>3. OnBus(f, bus, a)
        = Request(<<[a EXCEPT !.offset = ExtReg(f, BusRegister(a.offset, bus))]>>)
  BY DEF OnBus, Checked
<1> QED BY <1>1, <1>2, <1>3

(* What the functions of the external clocking library ask of the block.   *)
LEMMA ExtBlock ==
  ASSUME NEW f, Descriptor(f), f.type = FUNC_BLOCK.EXT_CLOCKING, NEW bus, NEW k,
         NEW d \in SUBSET Int
  PROVE  /\ QuietPlan(f, <<"block">>, Ext_Clocking_Set_Dir(f, d))
         /\ QuietPlan(f, <<"block">>, Ext_Clocking_Set_Edge(f, d))
         /\ QuietPlan(f, <<"block">>, Ext_Clocking_Set_Pulse_Width(f, bus, d))
         /\ QuietPlan(f, <<"block">>, Ext_Clocking_Set_Method(f, bus, k))
<1>1. Room(f, <<"block">>) = 16
  BY DEF Room, FUNC_BLOCK
<1>2. Bits(k) \in SUBSET Int
  BY DataTypes
<1>3. /\ EXT_CLOCKING.DIR = 2 /\ EXT_CLOCKING.EDGE = 3 /\ EXT_CLOCKING.PW2 = 4
      /\ EXT_CLOCKING.SETUP_GBL2 = 10
  BY DEF EXT_CLOCKING
<1> USE <1>1, <1>2, <1>3, OnBlock, Plans DEF Place, Spare
<1>4. QuietPlan(f, <<"block">>, Ext_Clocking_Set_Dir(f, d))
  BY DEF Ext_Clocking_Set_Dir
<1>5. QuietPlan(f, <<"block">>, Ext_Clocking_Set_Edge(f, d))
  BY DEF Ext_Clocking_Set_Edge
<1>6. ASSUME NEW first \in {4, 10}, NEW data \in SUBSET Int
      PROVE  QuietPlan(f, <<"block">>, OnBus(f, bus, Write(first, 8, data)))
  <2>1. CASE bus \in Buses
    <3> DEFINE n == BusRegister(first, bus)
    <3>1. n \in 0 .. 15
      BY <2>1 DEF Buses, BusRegister
    <3>2. OnBus(f, bus, Write(first, 8, data)) = Request(<<Write(ExtReg(f, n), 8, data)>>)
      BY <2>1, BusAccess
    <3> HIDE DEF n
    <3>3. Place(f, <<"block">>, ExtReg(f, n), n) /\ Spare(f, <<"block">>, n, 1)
      <4>1. n \in Nat /\ n + 1 <= 16 /\ n % 1 = 0 /\ n + 1 <= 24
        BY <3>1
      <4> QED BY ONLY <1>1, <4>1, Descriptor(f), OnBlock DEF Spare
    <3>4. Write(ExtReg(f, n), 8, data) \in Quiets(f, <<"block">>)
      BY ONLY <3>3, data \in SUBSET Int DEF Place
    <3> QED BY <3>2, <3>4
  <2>2. CASE bus \notin Buses
    <3>1. OnBus(f, bus, Write(first, 8, data)) = Rejected("EINVAL")
      BY <2>2 DEF OnBus, Checked
    <3> QED BY <3>1
  <2> QED BY <2>1, <2>2
<1>7. QuietPlan(f, <<"block">>, Ext_Clocking_Set_Pulse_Width(f, bus, d))
  BY <1>6 DEF Ext_Clocking_Set_Pulse_Width
<1>8. QuietPlan(f, <<"block">>, Ext_Clocking_Set_Method(f, bus, k))
  BY <1>6 DEF Ext_Clocking_Set_Method
<1> QED BY <1>4, <1>5, <1>7, <1>8

(* Several accesses to a DMA channel.                                      *)
LEMMA SeveralPlans ==
  ASSUME NEW f, NEW o, NEW c, NEW s, AdcChannelOk(f, c) => s \in Seq(Quiets(f, o)) /\ s # <<>>
  PROVE  /\ QuietPlan(f, o, OnChannel(f, c, s))
         /\ \A wanted : QuietPlan(f, o, Asked(wanted, OnChannel(f, c, s)))
<1>1. QuietPlan(f, o, OnChannel(f, c, s))
  <2>1. CASE AdcChannelOk(f, c)
    <3>1. OnChannel(f, c, s) = Request(s)
      BY <2>1 DEF OnChannel, Checked
    <3> QED BY <2>1, <3>1 DEF QuietPlan, Request
  <2>2. CASE ~AdcChannelOk(f, c)
    <3>1. OnChannel(f, c, s) = Rejected("EINVAL")
      BY <2>2 DEF OnChannel, Checked
    <3> QED BY <3>1, Plans
  <2> QED BY <2>1, <2>2
<1>2. ASSUME NEW wanted
      PROVE  QuietPlan(f, o, Asked(wanted, OnChannel(f, c, s)))
  <2>1. \/ Asked(wanted, OnChannel(f, c, s)) = Rejected("none_set")
        \/ Asked(wanted, OnChannel(f, c, s)) = OnChannel(f, c, s)
    BY DEF Asked
  <2> QED BY <1>1, <2>1, Plans
<1> QED BY <1>1, <1>2

(* What the functions of the DMA library ask of a channel.                 *)
LEMMA DmaOfChannel ==
  ASSUME NEW f, Descriptor(f), NEW c, NEW d, NEW u, NEW e
  PROVE  /\ QuietPlan(f, <<"dma", c>>, Dma_Setup(f, c, d, u))
         /\ QuietPlan(f, <<"dma", c>>, Dma_Setup_Set_Direction(f, c, d))
         /\ QuietPlan(f, <<"dma", c>>, Dma_Setup_Set_Used(f, c, u))
         /\ QuietPlan(f, <<"dma", c>>, Dma_Configure_Interrupts(f, c, u, e))
         /\ QuietPlan(f, <<"dma", c>>,
              Dma_Clear_Interrupt(f, c, {"overflow", "underflow", "used", "invalid", "complete"}))
         /\ QuietPlan(f, <<"dma", c>>,
              Dma_Status(f, c, {"buffer", "count", "action", "overflow", "used", "complete"}))
         /\ QuietPlan(f, <<"dma", c>>, Dma_Get_Fifo_Counts(f, c, {"write", "read"}))
<1> DEFINE o == <<"dma", c>>
           Q == Quiets(f, o)
<1>1. Room(f, o) = 16 /\ o[1] = "dma"
  BY DEF Room
<1>2. AdcChannelOk(f, c) => \A n \in Nat : Place(f, o, DmaReg(f, c, n), n)
  BY OnDma DEF AdcChannelOk
<1>3. /\ DMA.ACTION = 0 /\ DMA.SETUP = 1 /\ DMA.STAT_OVERFLOW = 2 /\ DMA.STAT_UNDERFLOW = 3
      /\ DMA.CURRENT_COUNT = 4 /\ DMA.WR_FIFO_CNT = 8 /\ DMA.RD_FIFO_CNT = 10
      /\ DMA.STAT_USED = 12 /\ DMA.STAT_INVALID = 13 /\ DMA.STAT_COMPLETE = 14
  BY DEF DMA
<1>4. (\A n : Bits(n) \in SUBSET Int) /\ {} \in SUBSET Int
  BY DataTypes
<1>5. \A n \in 0 .. 15 : \A x, y \in SUBSET Int : AdcChannelOk(f, c) =>
        /\ Read(DmaReg(f, c, n), 8) \in Q
        /\ n % 2 = 0 => Read(DmaReg(f, c, n), 16) \in Q
        /\ n % 4 = 0 => Read(DmaReg(f, c, n), 32) \in Q
        /\ Write(DmaReg(f, c, n), 8, x) \in Q
        /\ Modify(DmaReg(f, c, n), 8, x, y) \in Q
  BY <1>1, <1>2 DEF Place, Spare
<1> HIDE DEF o, Q
<1>6. ASSUME NEW x, NEW y
      PROVE  QuietPlan(f, o, OnChannel(f, c, Setup(f, c, x, y)))
  <2>1. AdcChannelOk(f, c) => Modify(DmaReg(f, c, DMA.SETUP), 8, Bits(x), Bits(y)) \in Q
    BY <1>3, <1>4, <1>5
  <2> QED BY <2>1, ChannelPlans DEF Setup, Q
<1>7. QuietPlan(f, o, Dma_Setup(f, c, d, u))
  BY <1>6, Plans DEF Dma_Setup
<1>8. QuietPlan(f, o, Dma_Setup_Set_Direction(f, c, d))
  BY <1>6, Plans DEF Dma_Setup_Set_Direction
<1>9. QuietPlan(f, o, Dma_Setup_Set_Used(f, c, u))
  BY <1>6 DEF Dma_Setup_Set_Used
<1>10. QuietPlan(f, o, Dma_Configure_Interrupts(f, c, u, e))
  BY <1>6 DEF Dma_Configure_Interrupts
<1>11. QuietPlan(f, o,
         Dma_Clear_Interrupt(f, c, {"overflow", "underflow", "used", "invalid", "complete"}))
  <2> DEFINE zero(n) == Write(DmaReg(f, c, n), 8, {})
             s == <<zero(DMA.STAT_OVERFLOW)>> \o <<zero(DMA.STAT_UNDERFLOW)>>
                    \o <<zero(DMA.STAT_USED)>> \o <<zero(DMA.STAT_INVALID)>>
                    \o <<zero(DMA.STAT_COMPLETE)>>
  <2>1. Dma_Clear_Interrupt(f, c, {"overflow", "underflow", "used", "invalid", "complete"})
          = OnChannel(f, c, s)
    BY DEF Dma_Clear_Interrupt, When
  <2>2. AdcChannelOk(f, c) => /\ zero(DMA.STAT_OVERFLOW) \in Q /\ zero(DMA.STAT_UNDERFLOW) \in Q
                              /\ zero(DMA.STAT_USED) \in Q /\ zero(DMA.STAT_INVALID) \in Q
                              /\ zero(DMA.STAT_COMPLETE) \in Q
    BY <1>3, <1>4, <1>5
  <2> HIDE DEF zero
  <2>3. AdcChannelOk(f, c) => s \in Seq(Q) /\ s # <<>>
    BY <2>2
  <2> HIDE DEF s
  <2> QED BY <2>1, <2>3, SeveralPlans DEF Q
<1>12. QuietPlan(f, o,
         Dma_Status(f, c, {"buffer", "count", "action", "overflow", "used", "complete"}))
  <2> DEFINE wanted == {"buffer", "count", "action", "overflow", "used", "complete"}
             errors == wanted \cap {"overflow", "underflow", "used", "invalid"}
             r == <<Read(DmaReg(f, c, DMA.STAT_OVERFLOW), 16)>>
                    \o <<Read(DmaReg(f, c, DMA.STAT_USED), 16)>>
             s == <<Read(DmaReg(f, c, DMA.CURRENT_COUNT), 32)>>
                    \o <<Read(DmaReg(f, c, DMA.ACTION), 8)>>
                    \o Dma_Get_Errors(f, c, errors).accesses
                    \o <<Read(DmaReg(f, c, DMA.STAT_COMPLETE), 8)>>
  <2>1. "overflow" \in errors /\ "used" \in errors
    OBVIOUS
  <2>2. errors \cap {"overflow", "underflow"} # {} /\ errors \cap {"used", "invalid"} # {}
        /\ errors # {}
    BY <2>1
  <2>3. wanted \cap {"buffer", "count"} # {} /\ "action" \in wanted /\ "complete" \in wanted
    OBVIOUS
  <2>4. Dma_Status(f, c, wanted) = Asked(wanted, OnChannel(f, c, s))
    <3> HIDE DEF wanted
    <3> QED BY <2>2, <2>3 DEF Dma_Status, When
  <2> HIDE DEF wanted, errors
  <2>5. AdcChannelOk(f, c) => Dma_Get_Errors(f, c, errors).accesses = r
    BY <2>2 DEF Dma_Get_Errors, When, Asked, OnChannel, Checked, Request
  <2>6. AdcChannelOk(f, c) => /\ Read(DmaReg(f, c, DMA.CURRENT_COUNT), 32) \in Q
                              /\ Read(DmaReg(f, c, DMA.ACTION), 8) \in Q
                              /\ Read(DmaReg(f, c, DMA.STAT_OVERFLOW), 16) \in Q
                              /\ Read(DmaReg(f, c, DMA.STAT_USED), 16) \in Q
                              /\ Read(DmaReg(f, c, DMA.STAT_COMPLETE), 8) \in Q
    BY <1>3, <1>4, <1>5
  <2> DEFINE errs == Dma_Get_Errors(f, c, errors).accesses
  <2>7. ASSUME AdcChannelOk(f, c)
        PROVE  s \in Seq(Q) /\ s # <<>>
    <3>1. errs \in Seq(Q)
      <4>1. r \in Seq(Q)
        BY <2>6, <2>7
      <4>2. errs = r
        BY <2>5, <2>7
      <4> HIDE DEF r, errs
      <4> QED BY <4>1, <4>2
    <3> DEFINE front == <<Read(DmaReg(f, c, DMA.CURRENT_COUNT), 32)>>
                          \o <<Read(DmaReg(f, c, DMA.ACTION), 8)>>
               last == <<Read(DmaReg(f, c, DMA.STAT_COMPLETE), 8)>>
    <3>2. front \in Seq(Q) /\ last \in Seq(Q) /\ Len(last) = 1
      BY <2>6, <2>7
    <3>3. s = (front \o errs) \o last
      OBVIOUS
    <3> HIDE DEF front, last, errs, s
    <3>4. front \o errs \in Seq(Q)
      BY <3>1, <3>2
    <3> DEFINE most == front \o errs
    <3> HIDE DEF most
    <3>5. s = most \o last /\ most \in Seq(Q)
      BY <3>3, <3>4 DEF most
    <3>6. s \in Seq(Q) /\ Len(s) = Len(most) + Len(last)
      BY <3>2, <3>5, ConcatProperties
    <3>7. Len(most) \in Nat /\ Len(s) # 0
      BY <3>2, <3>5, <3>6
    <3> QED BY <3>6, <3>7, EmptySeq
  <2> HIDE DEF s
  <2>8. QuietPlan(f, o, Dma_Status(f, c, wanted))
    BY <2>4, <2>7, SeveralPlans DEF Q
  <2> QED BY <2>8 DEF wanted
<1>13. QuietPlan(f, o, Dma_Get_Fifo_Counts(f, c, {"write", "read"}))
  <2> DEFINE wanted == {"write", "read"}
             s == <<Read(DmaReg(f, c, DMA.WR_FIFO_CNT), 16)>>
                    \o <<Read(DmaReg(f, c, DMA.RD_FIFO_CNT), 16)>>
  <2>1. Dma_Get_Fifo_Counts(f, c, wanted) = Asked(wanted, OnChannel(f, c, s))
    BY DEF Dma_Get_Fifo_Counts, When
  <2>2. AdcChannelOk(f, c) => /\ Read(DmaReg(f, c, DMA.WR_FIFO_CNT), 16) \in Q
                              /\ Read(DmaReg(f, c, DMA.RD_FIFO_CNT), 16) \in Q
    BY <1>3, <1>4, <1>5
  <2>3. AdcChannelOk(f, c) => s \in Seq(Q) /\ s # <<>>
    BY <2>2
  <2> HIDE DEF s, wanted
  <2>4. QuietPlan(f, o, Dma_Get_Fifo_Counts(f, c, wanted))
    BY <2>1, <2>3, SeveralPlans DEF Q
  <2> QED BY <2>4 DEF wanted
<1> QED BY <1>7, <1>8, <1>9, <1>10, <1>11, <1>12, <1>13 DEF o

(* And of a buffer.                                                        *)
LEMMA DmaOfBuffer ==
  ASSUME NEW f, Descriptor(f), NEW c, NEW b, NEW d \in SUBSET Int
  PROVE  /\ QuietPlan(f, <<"buffer", c, b>>, Dma_Buffer_Setup(f, c, b, d))
         /\ QuietPlan(f, <<"buffer", c, b>>, Dma_Reset_Buffer(f, c, b))
         /\ QuietPlan(f, <<"buffer", c, b>>, Dma_Buffer_Set_Size(f, c, b, d))
<1> DEFINE o == <<"buffer", c, b>>
           Q == Quiets(f, o)
<1>1. Room(f, o) = 16 /\ o[1] = "buffer"
  BY DEF Room
<1>2. DMA_BUFFER.STAT = 2 /\ DMA_BUFFER.CTRL = 3 /\ DMA_BUFFER.SIZE = 4
  BY DEF DMA_BUFFER
<1>3. {} \in SUBSET Int /\ Width(24) \in SUBSET Int
  BY DataTypes
<1>4. ASSUME BufferOk(f, c, b)
      PROVE  /\ \A n \in {2, 3} : \A x \in SUBSET Int : Write(DmaBufferReg(f, c, b, n), 8, x) \in Q
             /\ \A x, y \in SUBSET Int : Modify(DmaBufferReg(f, c, b, 4), 32, x, y) \in Q
  BY <1>1, <1>4, OnBuffer DEF Place, Spare
<1> HIDE DEF o, Q
<1>5. QuietPlan(f, o, Dma_Buffer_Setup(f, c, b, d))
  <2> DEFINE a == Write(DmaBufferReg(f, c, b, DMA_BUFFER.CTRL), 8, d)
  <2>1. BufferOk(f, c, b) => a \in Q
    BY <1>2, <1>4
  <2>2. Dma_Buffer_Setup(f, c, b, d) \in {Request(<<a>>), Rejected("EINVAL")}
        /\ (~BufferOk(f, c, b) => Dma_Buffer_Setup(f, c, b, d) = Rejected("EINVAL"))
    BY DEF Dma_Buffer_Setup, Checked
  <2> HIDE DEF a
  <2> QED BY <2>1, <2>2, Plans DEF Q
<1>6. QuietPlan(f, o, Dma_Reset_Buffer(f, c, b))
  <2> DEFINE a == Write(DmaBufferReg(f, c, b, DMA_BUFFER.STAT), 8, {})
  <2>1. BufferOk(f, c, b) => a \in Q
    BY <1>2, <1>3, <1>4
  <2>2. Dma_Reset_Buffer(f, c, b) \in {Request(<<a>>), Rejected("EINVAL")}
        /\ (~BufferOk(f, c, b) => Dma_Reset_Buffer(f, c, b) = Rejected("EINVAL"))
    BY DEF Dma_Reset_Buffer, Checked
  <2> HIDE DEF a
  <2> QED BY <2>1, <2>2, Plans DEF Q
<1>7. QuietPlan(f, o, Dma_Buffer_Set_Size(f, c, b, d))
  <2> DEFINE a == Modify(DmaBufferReg(f, c, b, DMA_BUFFER.SIZE), 32, d, Width(24))
             valid == BufferOk(f, c, b) /\ d \cap {0, 1} = {} /\ d \subseteq Width(24)
  <2>1. valid => a \in Q
    BY <1>2, <1>3, <1>4
  <2>2. Dma_Buffer_Set_Size(f, c, b, d) = IF valid THEN Request(<<a>>) ELSE Rejected("EINVAL")
    BY DEF Dma_Buffer_Set_Size, Checked
  <2> HIDE DEF a, valid
  <2> QED BY <2>1, <2>2, Plans DEF Q
<1> QED BY <1>5, <1>6, <1>7 DEF o

(* The clock that the board is said to have is one of five.                *)
LEMMA StandardClock ==
  ASSUME NEW m, Gbc_Get_Sys_Clock_Freq(m).is_std_clk
  PROVE  /\ Gbc_Get_Sys_Clock_Freq(m).freq \in Nat
         /\ Gbc_Get_Sys_Clock_Freq(m).freq >= 40000000
         /\ Gbc_Get_Sys_Clock_Freq(m).freq <= 100000000
<1> DEFINE clk == Fetch(m, "GBC", GBC.SYS_CLK_FREQ, 16) * 10000
           close == {i \in DOMAIN Near : clk \in Near[i].low .. Near[i].high}
<1>1. Gbc_Get_Sys_Clock_Freq(m) = IF close = {} THEN [freq |-> clk, is_std_clk |-> FALSE]
                                  ELSE [freq |-> Near[Min(close)].clock, is_std_clk |-> TRUE]
  BY DEF Gbc_Get_Sys_Clock_Freq
<1>2. DOMAIN Near = 1 .. 5
  BY DEF Near
<1>3. close \subseteq 1 .. 5
  BY <1>2
<1> HIDE DEF close, clk
<1>4. close # {} /\ Gbc_Get_Sys_Clock_Freq(m).freq = Near[Min(close)].clock
  <2>1. close # {}
    BY <1>1
  <2>2. Gbc_Get_Sys_Clock_Freq(m) = [freq |-> Near[Min(close)].clock, is_std_clk |-> TRUE]
    BY <1>1, <2>1
  <2> QED BY <2>1, <2>2
<1>5. \E x \in close : \A y \in close : x <= y
  <2>1. CASE 1 \in close
    BY <1>3, <2>1
  <2>2. CASE 1 \notin close /\ 2 \in close
    BY <1>3, <2>2
  <2>3. CASE 1 \notin close /\ 2 \notin close /\ 3 \in close
    BY <1>3, <2>3
  <2>4. CASE 1 \notin close /\ 2 \notin close /\ 3 \notin close /\ 4 \in close
    BY <1>3, <2>4
  <2>5. CASE 1 \notin close /\ 2 \notin close /\ 3 \notin close /\ 4 \notin close /\ 5 \in close
    BY <1>3, <2>5
  <2>6. 1 \in close \/ 2 \in close \/ 3 \in close \/ 4 \in close \/ 5 \in close
    <3>1. PICK x : x \in close
      BY <1>4
    <3>2. x \in 1 .. 5
      BY <1>3, <3>1
    <3>3. x = 1 \/ x = 2 \/ x = 3 \/ x = 4 \/ x = 5
      BY <3>2
    <3> QED BY <3>1, <3>3
  <2> QED BY <2>1, <2>2, <2>3, <2>4, <2>5, <2>6
<1>6. Min(close) \in 1 .. 5
  BY <1>3, <1>5 DEF Min
<1>7. ASSUME NEW i \in 1 .. 5
      PROVE  Near[i].clock \in {40000000, 54000000, 100000000, 57600000, 50000000}
  <2>1. i = 1 \/ i = 2 \/ i = 3 \/ i = 4 \/ i = 5
    OBVIOUS
  <2>2. /\ Near[1].clock = 40000000 /\ Near[2].clock = 54000000
        /\ Near[3].clock = 100000000 /\ Near[4].clock = 57600000 /\ Near[5].clock = 50000000
    BY DEF Near
  <2> QED BY <2>1, <2>2
<1> QED BY <1>4, <1>6, <1>7

(* What a quotient of the clock and a rate is.                             *)
LEMMA Quotients ==
  ASSUME NEW a \in Nat, NEW b \in Nat, b > 0
  PROVE  a \div b \in Nat /\ (b <= a => a \div b > 0)
  OBVIOUS

(* The rate that a function answers is a natural number.                   *)
LEMMA ActualRates ==
  ASSUME NEW clock \in Nat, clock >= 40000000, NEW r \in Nat, r > 0
  PROVE  /\ AdcActualRate(clock, r) \in Nat
         /\ r <= ADIO_MAX_FREQ => PacerActualRate(clock, r) \in Nat
<1> DEFINE q == clock \div r
<1>1. q \in Nat /\ (r <= clock => q > 0)
  BY Quotients
<1> HIDE DEF q
<1>2. Max({q, 1}) \in Nat /\ Max({q, 1}) > 0
  <2>1. \E x \in {q, 1} : \A y \in {q, 1} : x >= y
    BY <1>1
  <2>2. Max({q, 1}) \in {q, 1} /\ \A y \in {q, 1} : Max({q, 1}) >= y
    BY <2>1 DEF Max
  <2> QED BY <1>1, <2>2
<1>3. AdcActualRate(clock, r) = clock \div Max({q, 1})
  BY DEF AdcActualRate, AdcDivider, q
<1>4. AdcActualRate(clock, r) \in Nat
  <2> DEFINE divider == Max({q, 1})
  <2>1. divider \in Nat /\ divider > 0 /\ AdcActualRate(clock, r) = clock \div divider
    BY <1>2, <1>3
  <2> HIDE DEF divider
  <2> QED BY <2>1, Quotients
<1>5. r <= ADIO_MAX_FREQ => PacerActualRate(clock, r) \in Nat
  <2>1. PacerActualRate(clock, r) = clock \div q
    BY DEF PacerActualRate, q
  <2>2. r <= ADIO_MAX_FREQ => q > 0
    BY <1>1, SMT DEF ADIO_MAX_FREQ
  <2> QED BY <1>1, <2>1, <2>2, Quotients
<1> QED BY <1>4, <1>5

(* The functions that compute a divider from a rate.                       *)
LEMMA RatePlans ==
  ASSUME NEW f, Descriptor(f), NEW m, NEW r \in Nat, NEW clock,
         clock = Gbc_Get_Sys_Clock_Freq(m).freq
  PROVE  /\ f.type = FUNC_BLOCK.ADC =>
              /\ QuietPlan(f, <<"block">>, Adc_Set_Sample_Rate(m, f, r))
              /\ Adc_Set_Sample_Rate(m, f, r).errno = "none" => AdcActualRate(clock, r) \in Nat
         /\ f.type = FUNC_BLOCK.DAC =>
              /\ QuietPlan(f, <<"block">>, Dac_Set_Conversion_Rate(m, f, r))
              /\ Dac_Set_Conversion_Rate(m, f, r).errno = "none"
                   => PacerActualRate(clock, r) \in Nat
         /\ f.type = FUNC_BLOCK.ADIO =>
              /\ QuietPlan(f, <<"block">>, Adio_Set_Pacer_Clk_Rate(m, f, r))
              /\ Adio_Set_Pacer_Clk_Rate(m, f, r).errno = "none"
                   => PacerActualRate(clock, r) \in Nat
<1> DEFINE gbc == Gbc_Get_Sys_Clock_Freq(m)
           o == <<"block">>
<1>1. gbc.is_std_clk => clock \in Nat /\ clock >= 40000000
  BY StandardClock
<1>2. \A n : Bits(n) \in SUBSET Int
  BY DataTypes
<1>7. /\ QuietPlan(f, o, Rejected("EINVAL")) /\ Rejected("EINVAL").errno # "none"
      /\ QuietPlan(f, o, Rejected("ENODEV")) /\ Rejected("ENODEV").errno # "none"
  BY DEF QuietPlan, Rejected
<1>3. ASSUME f.type = FUNC_BLOCK.ADC
      PROVE  /\ QuietPlan(f, o, Adc_Set_Sample_Rate(m, f, r))
             /\ Adc_Set_Sample_Rate(m, f, r).errno = "none" => AdcActualRate(clock, r) \in Nat
  <2>1. CASE r \notin 1 .. ADC_MAX_RATE
    <3>1. Adc_Set_Sample_Rate(m, f, r) = Rejected("EINVAL")
      BY <2>1 DEF Adc_Set_Sample_Rate
    <3> QED BY <1>7, <3>1
  <2>2. CASE r \in 1 .. ADC_MAX_RATE /\ ~gbc.is_std_clk
    <3>1. Adc_Set_Sample_Rate(m, f, r) = Rejected("ENODEV")
      BY <2>2 DEF Adc_Set_Sample_Rate
    <3> QED BY <1>7, <3>1
  <2>3. CASE r \in 1 .. ADC_MAX_RATE /\ gbc.is_std_clk
    <3> DEFINE data == Bits(AdcDivider(clock, r) - 1)
    <3>1. Adc_Set_Sample_Rate(m, f, r) = Adc_Set_Clk_Divider(f, data)
      BY <2>3 DEF Adc_Set_Sample_Rate
    <3>2. data \in SUBSET Int
      BY <1>2
    <3> HIDE DEF data
    <3>3. QuietPlan(f, o, Adc_Set_Sample_Rate(m, f, r))
      BY <1>3, <3>1, <3>2, AdcBlock
    <3>4. r > 0
      <4>1. r \in 1 .. ADC_MAX_RATE
        BY <2>3
      <4>2. ADC_MAX_RATE \in Nat
        BY DEF ADC_MAX_RATE
      <4> QED BY <4>1, <4>2
    <3> QED BY <1>1, <2>3, <3>3, <3>4, ActualRates
  <2> QED BY <2>1, <2>2, <2>3
<1>4. ASSUME NEW max \in Nat, max <= ADIO_MAX_FREQ, NEW offset, NEW plan,
             plan = PacerRate(m, r, max, offset),
             \A d \in SUBSET Int : Write(offset, 32, d) \in Quiets(f, o)
      PROVE  /\ QuietPlan(f, o, plan)
             /\ plan.errno = "none" => PacerActualRate(clock, r) \in Nat
  <2>1. CASE r \notin 1 .. max
    <3>1. plan = Rejected("EINVAL")
      BY <1>4, <2>1 DEF PacerRate
    <3> QED BY <1>7, <3>1
  <2>2. CASE r \in 1 .. max /\ ~gbc.is_std_clk
    <3>1. plan = Rejected("ENODEV")
      BY <1>4, <2>2 DEF PacerRate
    <3> QED BY <1>7, <3>1
  <2>3. CASE r \in 1 .. max /\ gbc.is_std_clk
    <3> DEFINE data == Bits(PacerDivider(clock \div r))
    <3>1. plan = Request(<<Write(offset, 32, data)>>)
      BY <1>4, <2>3 DEF PacerRate
    <3>2. data \in SUBSET Int
      BY <1>2
    <3> HIDE DEF data
    <3>3. QuietPlan(f, o, plan)
      BY <1>4, <3>1, <3>2, Plans
    <3>4. r > 0 /\ r <= ADIO_MAX_FREQ
      <4>1. r \in 1 .. max
        BY <2>3
      <4>2. ADIO_MAX_FREQ \in Nat
        BY DEF ADIO_MAX_FREQ
      <4> QED BY <1>4, <4>1, <4>2
    <3> QED BY <1>1, <2>3, <3>3, <3>4, ActualRates
  <2> QED BY <2>1, <2>2, <2>3
<1>5. ASSUME f.type = FUNC_BLOCK.DAC
      PROVE  /\ QuietPlan(f, o, Dac_Set_Conversion_Rate(m, f, r))
             /\ Dac_Set_Conversion_Rate(m, f, r).errno = "none" => PacerActualRate(clock, r) \in Nat
  <2>1. Room(f, o) = 44
    BY <1>5 DEF Room, FUNC_BLOCK
  <2>2. \A d \in SUBSET Int : Write(DacReg(f, DAC.CLK_DIV), 32, d) \in Quiets(f, o)
    BY <2>1, BlockPlaces, OnBlock DEF Place, Spare
  <2>3. Dac_Set_Conversion_Rate(m, f, r) = PacerRate(m, r, DAC_MAX_RATE, DacReg(f, DAC.CLK_DIV))
    BY DEF Dac_Set_Conversion_Rate
  <2>4. DAC_MAX_RATE \in Nat /\ DAC_MAX_RATE <= ADIO_MAX_FREQ
    BY DEF DAC_MAX_RATE, ADIO_MAX_FREQ
  <2> QED BY <1>4, <2>2, <2>3, <2>4
<1>6. ASSUME f.type = FUNC_BLOCK.ADIO
      PROVE  /\ QuietPlan(f, o, Adio_Set_Pacer_Clk_Rate(m, f, r))
             /\ Adio_Set_Pacer_Clk_Rate(m, f, r).errno = "none" => PacerActualRate(clock, r) \in Nat
  <2>1. Room(f, o) = 40
    BY <1>6 DEF Room, FUNC_BLOCK
  <2>2. \A d \in SUBSET Int : Write(AdioReg(f, ADIO.CLK_DIV), 32, d) \in Quiets(f, o)
    BY <2>1, BlockPlaces, OnBlock DEF Place, Spare
  <2>3. Adio_Set_Pacer_Clk_Rate(m, f, r) = PacerRate(m, r, ADIO_MAX_FREQ, AdioReg(f, ADIO.CLK_DIV))
    BY DEF Adio_Set_Pacer_Clk_Rate
  <2>4. ADIO_MAX_FREQ \in Nat /\ ADIO_MAX_FREQ <= ADIO_MAX_FREQ
    BY DEF ADIO_MAX_FREQ
  <2> QED BY <1>4, <2>2, <2>3, <2>4
<1> QED BY <1>3, <1>5, <1>6

(* An access to a part of the block is let through and stays in the part.  *)
LEMMA Inside ==
  ASSUME NEW f, Descriptor(f), NEW o \in Owners(f), NEW a \in Requests, a.region = "FB",
         NEW n \in Nat, a.offset = Base(f, o) + n, NEW k \in {1, 2, 4}, a.size = 8 * k,
         n % k = 0, n + k <= Room(f, o)
  PROVE  Allowed(a) /\ Window(a.offset, a.size) \subseteq Extent(f, o)
<1> DEFINE base == Base(f, o)
           room == Room(f, o)
           length == Length["FB"]
           start == a.offset
<1>1. /\ base \in Nat /\ base % 4 = 0 /\ room \in Nat /\ base + room <= length
      /\ Extent(f, o) = 8 * base .. 8 * (base + room) - 1
  BY PartPlaced
<1>2. length \in Nat
  BY LengthAssumption
<1>3. start = base + n
  OBVIOUS
<1> HIDE DEF base, room, length, start
<1>4. start \in Nat /\ start % k = 0 /\ start + k <= length
  BY <1>1, <1>2, <1>3 DEF room
<1>5. Bytes(a.size) = k
  BY DEF Bytes
<1>6. Allowed(a)
  BY <1>4, <1>5, FitsIsAllowed DEF start, length
<1>7. Window(a.offset, a.size) = 8 * start .. 8 * (start + k) - 1
  BY <1>4 DEF Window, start
<1>8. 8 * start .. 8 * (start + k) - 1 \subseteq 8 * base .. 8 * (base + room) - 1
  BY <1>1, <1>3, <1>4 DEF room
<1> QED BY <1>1, <1>6, <1>7, <1>8

(* The pairs of an enable bit and its status bit, by their registers.      *)
LEMMA PairPlaces ==
  ASSUME NEW f, Descriptor(f), NEW p \in EnablePairs(f)
  PROVE  /\ f.type # FUNC_BLOCK.EXT_CLOCKING
         /\ \/ \E b \in 0 .. 15 : /\ p[1] = 8 * (f.control_offset + 26) + b
                                  /\ p[2] = 8 * (f.control_offset + 30) + b
            \/ /\ f.type = FUNC_BLOCK.ADC
               /\ \E c \in 0 .. f.num_dma_channels - 1, b \in 0 .. 7 :
                    /\ p[1] = 8 * (f.control_offset + 55 + 24 * c) + b
                    /\ p[2] = 8 * (f.control_offset + 54 + 24 * c) + b
<1>1. f.type # FUNC_BLOCK.EXT_CLOCKING
  BY DEF EnablePairs
<1>2. f.control_offset \in Nat
  BY Sizes
<1> DEFINE pairs(enable, status, n) == {<<8 * enable + b, 8 * status + b>> : b \in Width(n)}
<1>3. \/ p \in pairs(f.control_offset + ADC.INT_ENABLE + 2, f.control_offset + ADC.INT_STAT, 16)
      \/ /\ f.type = FUNC_BLOCK.ADC
         /\ \E c \in Channels(f) : p \in pairs(AdcChannel(f, c, ADC_CHAN.INTR_ENABLE),
                                              AdcChannel(f, c, ADC_CHAN.INTR_STAT), 8)
  BY <1>1 DEF EnablePairs
<1>4. CASE p \in pairs(f.control_offset + ADC.INT_ENABLE + 2, f.control_offset + ADC.INT_STAT, 16)
  <2>1. PICK b \in 0 .. 15 : /\ p[1] = 8 * (f.control_offset + 26) + b
                            /\ p[2] = 8 * (f.control_offset + 30) + b
    BY <1>2, <1>4 DEF ADC, Width
  <2> QED BY <1>1, <2>1
<1>5. ASSUME f.type = FUNC_BLOCK.ADC,
             NEW c \in Channels(f), p \in pairs(AdcChannel(f, c, ADC_CHAN.INTR_ENABLE),
                                              AdcChannel(f, c, ADC_CHAN.INTR_STAT), 8)
      PROVE  \E d \in 0 .. f.num_dma_channels - 1, b \in 0 .. 7 :
                    /\ p[1] = 8 * (f.control_offset + 55 + 24 * d) + b
                    /\ p[2] = 8 * (f.control_offset + 54 + 24 * d) + b
  <2>1. c \in 0 .. f.num_dma_channels - 1 /\ f.num_dma_channels \in Nat
    BY Sizes DEF Channels
  <2>2. /\ AdcChannel(f, c, ADC_CHAN.INTR_ENABLE) = f.control_offset + 55 + 24 * c
        /\ AdcChannel(f, c, ADC_CHAN.INTR_STAT) = f.control_offset + 54 + 24 * c
    BY <1>2, <2>1 DEF AdcChannel, ADC_CHAN
  <2>3. PICK b \in 0 .. 7 : /\ p[1] = 8 * (f.control_offset + 55 + 24 * c) + b
                           /\ p[2] = 8 * (f.control_offset + 54 + 24 * c) + b
    BY <1>5, <2>2 DEF Width
  <2> QED BY <2>1, <2>3
<1> QED BY <1>1, <1>3, <1>4, <1>5

(* The access that clears status bits of the block, and the one that       *)
(* enables or disables its sources.                                        *)
LEMMA BlockInterruptAccesses ==
  ASSUME NEW f, Descriptor(f), f.type # FUNC_BLOCK.EXT_CLOCKING, NEW s \in SUBSET Int,
         NEW on \in BOOLEAN, NEW clear, NEW enable,
         clear = Write(AdcReg(f, ADC.INT_STAT), 16, s),
         enable = Write(AdcReg(f, ADC.INT_ENABLE), 32,
                        Get_Maskable(IF on THEN Width(16) ELSE {}, s))
  PROVE  /\ \A c : c.owner = <<"block">> =>
                     clear \in GoodAccesses(f, c) /\ enable \in GoodAccesses(f, c)
         /\ Armed(f, clear) = {}
         /\ on => Armed(f, enable) \subseteq Cleared(f, clear)
         /\ ~on => Armed(f, enable) = {}
<1> DEFINE control == f.control_offset
           data == Get_Maskable(IF on THEN Width(16) ELSE {}, s)
           o == <<"block">>
<1>1. control \in Nat /\ ADC.INT_STAT = 30 /\ ADC.INT_ENABLE = 24
  BY Sizes DEF ADC
<1>2. data \in SUBSET Int
  BY DataTypes
<1>3. /\ \A b \in 0 .. 15 : b \in data => b \in s
      /\ ~on => \A b \in 0 .. 15 : b + 16 \notin data
  BY DEF Get_Maskable, HighHalf, Width
<1> HIDE DEF data
<1>4. /\ clear \in Requests /\ clear.region = "FB" /\ clear.offset = control + 30
      /\ clear.size = 16 /\ clear.op = "write" /\ clear.data = s
  BY <1>1, RequestTypes DEF AdcReg, Write, Access
<1>5. /\ enable \in Requests /\ enable.region = "FB" /\ enable.offset = control + 24
      /\ enable.size = 32 /\ enable.op = "write" /\ enable.data = data
  <2>1. enable = Write(control + 24, 32, data)
    BY <1>1 DEF AdcReg, data
  <2> QED BY <1>1, <1>2, <2>1, RequestTypes DEF Write, Access
<1>6. o \in Owners(f) /\ Base(f, o) = control /\ Room(f, o) \in {40, 44}
  BY Sizes DEF Owners, Base, Room, FUNC_BLOCK
<1>7. Allowed(clear) /\ Window(clear.offset, clear.size) \subseteq Extent(f, o)
  <2>1. clear.offset = Base(f, o) + 30 /\ clear.size = 8 * 2 /\ 30 % 2 = 0 /\ 30 + 2 <= Room(f, o)
    BY <1>4, <1>6
  <2> QED BY <1>4, <1>6, <2>1, Inside
<1>8. Allowed(enable) /\ Window(enable.offset, enable.size) \subseteq Extent(f, o)
  <2>1. enable.offset = Base(f, o) + 24 /\ enable.size = 8 * 4 /\ 24 % 4 = 0 /\ 24 + 4 <= Room(f, o)
    BY <1>5, <1>6
  <2> QED BY <1>5, <1>6, <2>1, Inside
<1>9. ClearsBlock(f, clear) /\ EnablesBlock(f, enable)
  BY <1>4, <1>5 DEF ClearsBlock, EnablesBlock
<1>10. Window(clear.offset, clear.size) = 8 * (control + 30) .. 8 * (control + 32) - 1
  BY <1>1, <1>4 DEF Window
<1>11. Window(enable.offset, enable.size) = 8 * (control + 24) .. 8 * (control + 28) - 1
  BY <1>1, <1>5 DEF Window
<1>12. Cleared(f, clear) = {8 * (control + 30) + b : b \in s \cap Width(16)}
  BY <1>4, <1>9 DEF Cleared
<1> HIDE DEF control
<1>13. ASSUME NEW p \in EnablePairs(f)
       PROVE  /\ p[1] \notin Window(clear.offset, clear.size)
              /\ p[1] \in Window(enable.offset, enable.size) =>
                   \E b \in 0 .. 15 : /\ p[1] - 8 * enable.offset = b + 16
                                      /\ p[2] = 8 * (control + 30) + b
  <2>1. CASE \E b \in 0 .. 15 : p[1] = 8 * (control + 26) + b /\ p[2] = 8 * (control + 30) + b
    <3>1. PICK b \in 0 .. 15 : p[1] = 8 * (control + 26) + b /\ p[2] = 8 * (control + 30) + b
      BY <2>1
    <3>2. p[1] - 8 * enable.offset = b + 16
      BY <1>1, <1>5, <3>1
    <3>3. p[1] \notin Window(clear.offset, clear.size)
      BY <1>1, <1>10, <3>1
    <3> QED BY <3>1, <3>2, <3>3
  <2>2. CASE \E c \in 0 .. f.num_dma_channels - 1, b \in 0 .. 7 :
               /\ p[1] = 8 * (control + 55 + 24 * c) + b
               /\ p[2] = 8 * (control + 54 + 24 * c) + b
    BY <1>1, <1>5, <1>10, <1>11, <2>2, Sizes
  <2> QED BY <2>1, <2>2, PairPlaces DEF control
<1>14. Armed(f, clear) = {}
  BY <1>13 DEF Armed
<1>15. ASSUME NEW x \in Armed(f, enable)
       PROVE  on /\ x \in Cleared(f, clear)
  <2>1. PICK p \in EnablePairs(f) : /\ x = p[2] /\ p[1] \in Window(enable.offset, enable.size)
                                   /\ Enabling(enable, p[1] - 8 * enable.offset)
    BY <1>15 DEF Armed
  <2>2. PICK b \in 0 .. 15 : p[1] - 8 * enable.offset = b + 16 /\ p[2] = 8 * (control + 30) + b
    BY <1>13, <2>1
  <2>3. b + 16 \in data /\ (b + 16) - 16 \in data
    BY <1>5, <2>1, <2>2 DEF Enabling
  <2>4. on /\ b \in s \cap Width(16)
    BY <1>3, <2>3 DEF Width
  <2> QED BY <1>12, <2>1, <2>2, <2>4
<1>16. ASSUME NEW c, c.owner = o
       PROVE  clear \in GoodAccesses(f, c) /\ enable \in GoodAccesses(f, c)
  BY <1>4, <1>5, <1>7, <1>8, <1>9, <1>16 DEF GoodAccesses, GoodAccess, Calm
<1> QED BY <1>14, <1>15, <1>16

(* The access that clears status bits of a channel of the ADC, and the one *)
(* that enables or disables its sources.                                   *)
LEMMA ChannelInterruptAccesses ==
  ASSUME NEW f, Descriptor(f), f.type = FUNC_BLOCK.ADC, NEW s \in SUBSET Int,
         NEW c \in 0 .. f.num_dma_channels - 1,
         NEW on \in BOOLEAN, NEW clear, NEW enable,
         clear = Modify(AdcChannel(f, c, ADC_CHAN.INTR_STAT), 8, Width(8), s),
         enable = Modify(AdcChannel(f, c, ADC_CHAN.INTR_ENABLE), 8,
                         IF on THEN Width(8) ELSE {}, s)
  PROVE  /\ \A call : call.owner = <<"channel", c>> =>
                        clear \in GoodAccesses(f, call) /\ enable \in GoodAccesses(f, call)
         /\ Armed(f, clear) = {}
         /\ on => Armed(f, enable) \subseteq Cleared(f, clear)
         /\ ~on => Armed(f, enable) = {}
<1> DEFINE control == f.control_offset
           base == control + 44 + 24 * c
           data == IF on THEN Width(8) ELSE {}
           o == <<"channel", c>>
<1>1. /\ control \in Nat /\ c \in Nat /\ f.num_dma_channels \in Nat
      /\ ADC_CHAN.INTR_STAT = 10 /\ ADC_CHAN.INTR_ENABLE = 11
  BY Sizes DEF ADC_CHAN
<1>2. data \in SUBSET Int /\ Width(8) \in SUBSET Int
  BY DataTypes
<1>3. ~on => data = {}
  OBVIOUS
<1> HIDE DEF data
<1>4. o \in Owners(f) /\ Base(f, o) = base /\ Room(f, o) = 24 /\ base \in Nat
  BY <1>1, OnAdcChannel DEF Base, Room
<1>5. /\ AdcChannel(f, c, ADC_CHAN.INTR_STAT) = base + 10
      /\ AdcChannel(f, c, ADC_CHAN.INTR_ENABLE) = base + 11
  BY <1>1, <1>4, OnAdcChannel
<1>6. base = control + 44 + 24 * c
  OBVIOUS
<1> HIDE DEF base
<1>7. /\ clear \in Requests /\ clear.region = "FB" /\ clear.offset = base + 10
      /\ clear.size = 8 /\ clear.op = "modify" /\ clear.data = Width(8)
  <2>1. clear = Modify(base + 10, 8, Width(8), s)
    BY <1>5
  <2> QED BY <1>2, <1>4, <2>1, RequestTypes DEF Modify, Access
<1>8. /\ enable \in Requests /\ enable.region = "FB" /\ enable.offset = base + 11
      /\ enable.size = 8 /\ enable.op = "modify" /\ enable.data = data
  <2>1. enable = Modify(base + 11, 8, data, s)
    BY <1>5 DEF data
  <2> QED BY <1>2, <1>4, <2>1, RequestTypes DEF Modify, Access
<1>9. Allowed(clear) /\ Window(clear.offset, clear.size) \subseteq Extent(f, o)
  <2>1. clear.offset = Base(f, o) + 10 /\ clear.size = 8 * 1 /\ 10 % 1 = 0 /\ 10 + 1 <= Room(f, o)
    BY <1>4, <1>7
  <2> QED BY <1>4, <1>7, <2>1, Inside
<1>10. Allowed(enable) /\ Window(enable.offset, enable.size) \subseteq Extent(f, o)
  <2>1. enable.offset = Base(f, o) + 11 /\ enable.size = 8 * 1 /\ 11 % 1 = 0 /\ 11 + 1 <= Room(f, o)
    BY <1>4, <1>8
  <2> QED BY <1>4, <1>8, <2>1, Inside
<1>11. ClearsChannel(f, clear) /\ EnablesChannel(f, enable)
  <2>1. clear.offset = f.control_offset + 54 + 24 * c
    BY <1>1, <1>6, <1>7
  <2>2. enable.offset = f.control_offset + 55 + 24 * c
    BY <1>1, <1>6, <1>8
  <2> QED BY <1>7, <1>8, <2>1, <2>2 DEF ClearsChannel, EnablesChannel
<1>12. Window(clear.offset, clear.size) = 8 * (base + 10) .. 8 * (base + 11) - 1
  BY <1>4, <1>7 DEF Window
<1>13. Window(enable.offset, enable.size) = 8 * (base + 11) .. 8 * (base + 12) - 1
  BY <1>4, <1>8 DEF Window
<1>14. Cleared(f, clear) = 8 * (base + 10) .. 8 * (base + 11) - 1
  <2>1. ~ClearsBlock(f, clear)
    BY <1>7 DEF ClearsBlock
  <2> QED BY <1>7, <1>11, <1>12, <2>1 DEF Cleared
<1> HIDE DEF control
<1>15. ASSUME NEW p \in EnablePairs(f)
       PROVE  /\ p[1] \notin Window(clear.offset, clear.size)
              /\ p[1] \in Window(enable.offset, enable.size) =>
                   p[2] \in 8 * (base + 10) .. 8 * (base + 11) - 1
  <2>1. CASE \E b \in 0 .. 15 : p[1] = 8 * (control + 26) + b /\ p[2] = 8 * (control + 30) + b
    <3>1. PICK b \in 0 .. 15 : p[1] = 8 * (control + 26) + b
      BY <2>1
    <3> QED BY <1>1, <1>6, <1>12, <1>13, <3>1
  <2>2. CASE \E d \in 0 .. f.num_dma_channels - 1, b \in 0 .. 7 :
               /\ p[1] = 8 * (control + 55 + 24 * d) + b
               /\ p[2] = 8 * (control + 54 + 24 * d) + b
    <3>1. PICK d \in 0 .. f.num_dma_channels - 1, b \in 0 .. 7 :
               /\ p[1] = 8 * (control + 55 + 24 * d) + b
               /\ p[2] = 8 * (control + 54 + 24 * d) + b
      BY <2>2
    <3>2. d \in Nat
      BY <1>1
    <3>3. p[1] \notin Window(clear.offset, clear.size)
      BY <1>1, <1>6, <1>12, <3>1, <3>2
    <3>4. p[1] \in Window(enable.offset, enable.size) => d = c
      BY <1>1, <1>6, <1>13, <3>1, <3>2
    <3>5. d = c => p[2] \in 8 * (base + 10) .. 8 * (base + 11) - 1
      BY <1>1, <1>6, <3>1
    <3> QED BY <3>3, <3>4, <3>5
  <2> QED BY <2>1, <2>2, PairPlaces DEF control
<1>16. Armed(f, clear) = {}
  BY <1>15 DEF Armed
<1>17. ASSUME NEW x \in Armed(f, enable)
       PROVE  on /\ x \in Cleared(f, clear)
  <2>1. PICK p \in EnablePairs(f) : /\ x = p[2] /\ p[1] \in Window(enable.offset, enable.size)
                                   /\ Enabling(enable, p[1] - 8 * enable.offset)
    BY <1>17 DEF Armed
  <2>2. on
    BY <1>3, <1>8, <2>1 DEF Enabling
  <2> QED BY <1>14, <1>15, <2>1, <2>2
<1>18. ASSUME NEW call, call.owner = o
       PROVE  clear \in GoodAccesses(f, call) /\ enable \in GoodAccesses(f, call)
  BY <1>7, <1>8, <1>9, <1>10, <1>11, <1>18 DEF GoodAccesses, GoodAccess, Calm
<1> QED BY <1>16, <1>17, <1>18

(* A call with a plan of one good access.                                  *)
LEMMA OneGood ==
  ASSUME NEW f, NEW c, NEW a \in GoodAccesses(f, c), Armed(f, a) = {}, c.rate \in Nat,
         c.plan = Request(<<a>>)
  PROVE  GoodCall(f, c)
<1>1. c.plan.accesses = <<a>>
  BY DEF Request
<1>2. <<a>> \in Seq(GoodAccesses(f, c)) /\ <<a>> # <<>> /\ <<a>>[1] = a /\ Len(<<a>>) = 1
  OBVIOUS
<1>3. Prepared(f, <<a>>)
  BY <1>2 DEF Prepared
<1> QED BY <1>1, <1>2, <1>3 DEF GoodCall

(* A call with a plan of two good accesses, the first of which prepares    *)
(* the second.                                                             *)
LEMMA TwoGood ==
  ASSUME NEW f, NEW c, NEW a \in GoodAccesses(f, c), NEW b \in GoodAccesses(f, c),
         Armed(f, a) = {}, Armed(f, b) \subseteq Cleared(f, a), c.rate \in Nat,
         c.plan.accesses = <<a, b>>
  PROVE  GoodCall(f, c)
<1>1. /\ <<a, b>> \in Seq(GoodAccesses(f, c)) /\ <<a, b>> # <<>> /\ <<a, b>>[1] = a
      /\ <<a, b>>[2] = b /\ Len(<<a, b>>) = 2
  OBVIOUS
<1>2. Prepared(f, <<a, b>>)
  <2>1. \A i \in 2 .. 2 : i = 2 /\ i - 1 = 1
    OBVIOUS
  <2> QED BY <1>1, <2>1 DEF Prepared
<1> QED BY <1>1, <1>2 DEF GoodCall

(* Two requests, one after the other.                                      *)
LEMMA Appended ==
  ASSUME NEW s, NEW t
  PROVE  Then(Request(s), Request(t)) = Request(s \o t)
<1> DEFINE r == Request(t)
           u == s \o t
<1>1. Request(s).errno = "none" /\ r.errno = "none" /\ Request(s).accesses = s
  BY DEF Request
<1>2. r.accesses = t
  BY DEF Request
<1>3. Then(Request(s), r) = [r EXCEPT !.accesses = s \o r.accesses]
  BY <1>1 DEF Then
<1>5. \A v : [r EXCEPT !.accesses = v] = Request(v)
  <2>1. ASSUME NEW v PROVE [r EXCEPT !.accesses = v] = Request(v)
    <3>1. r = [errno |-> "none", accesses |-> t, shift |-> 0]
      BY DEF Request
    <3>2. Request(v) = [errno |-> "none", accesses |-> v, shift |-> 0]
      BY DEF Request
    <3> HIDE DEF r
    <3> QED BY <3>1, <3>2
  <2> QED BY <2>1
<1> HIDE DEF r
<1>6. Then(Request(s), r) = [r EXCEPT !.accesses = u]
  BY <1>2, <1>3
<1> QED BY <1>5, <1>6 DEF r

(* Two requests of one access each, or of none and one.                    *)
LEMMA TwoRequests ==
  ASSUME NEW a, NEW b
  PROVE  /\ Then(Request(<<a>>), Request(<<b>>)).accesses = <<a, b>>
         /\ Then(Request(<<>>), Request(<<b>>)) = Request(<<b>>)
<1> DEFINE S == {a, b}
<1>1. <<a>> \in Seq(S) /\ <<b>> \in Seq(S) /\ <<>> \in Seq(S)
  OBVIOUS
<1>2. <<a>> \o <<b>> = <<a, b>> /\ <<>> \o <<b>> = <<b>>
  <2>1. <<a>> \o <<b>> \in Seq(S) /\ <<a, b>> \in Seq(S) /\ Len(<<a>> \o <<b>>) = 2 /\ Len(<<a, b>>) = 2
    BY <1>1, ConcatProperties
  <2>2. \A i \in 1 .. 2 : (<<a>> \o <<b>>)[i] = <<a, b>>[i]
    BY <1>1, ConcatProperties
  <2>3. <<a>> \o <<b>> = <<a, b>>
    BY <2>1, <2>2, SeqEqual
  <2> QED BY <1>1, <2>3, ConcatEmptySeq
<1>3. Request(<<a, b>>).accesses = <<a, b>>
  BY DEF Request
<1> QED BY <1>2, <1>3, Appended

(* The calls about the interrupts of the block.                            *)
LEMMA BlockInterruptCalls ==
  ASSUME NEW f, Descriptor(f), f.type # FUNC_BLOCK.EXT_CLOCKING, NEW s \in SUBSET Int,
         NEW on \in BOOLEAN, NEW clear, NEW enable,
         clear = Write(AdcReg(f, ADC.INT_STAT), 16, s),
         enable = Write(AdcReg(f, ADC.INT_ENABLE), 32,
                        Get_Maskable(IF on THEN Width(16) ELSE {}, s))
  PROVE  /\ GoodCall(f, AskBlock(Request(<<clear>>)))
         /\ \A field, set, of :
              GoodCall(f, Call(<<"block">>, field, set, of,
                               Then(IF on THEN Request(<<clear>>) ELSE Request(<<>>),
                                    Request(<<enable>>))))
<1>1. /\ \A c : c.owner = <<"block">> =>
                  clear \in GoodAccesses(f, c) /\ enable \in GoodAccesses(f, c)
      /\ Armed(f, clear) = {}
      /\ on => Armed(f, enable) \subseteq Cleared(f, clear)
      /\ ~on => Armed(f, enable) = {}
  BY BlockInterruptAccesses
<1>2. GoodCall(f, AskBlock(Request(<<clear>>)))
  <2> DEFINE c == AskBlock(Request(<<clear>>))
  <2>1. c.owner = <<"block">> /\ c.rate = 0 /\ c.plan = Request(<<clear>>)
    BY DEF AskBlock, Query, Call
  <2> HIDE DEF c
  <2>2. GoodCall(f, c)
    BY <1>1, <2>1, OneGood
  <2> QED BY <2>2 DEF c
<1>3. ASSUME NEW field, NEW set, NEW of
      PROVE  GoodCall(f, Call(<<"block">>, field, set, of,
                              Then(IF on THEN Request(<<clear>>) ELSE Request(<<>>),
                                   Request(<<enable>>))))
  <2> DEFINE plan == Then(IF on THEN Request(<<clear>>) ELSE Request(<<>>), Request(<<enable>>))
             c == Call(<<"block">>, field, set, of, plan)
  <2>1. c.owner = <<"block">> /\ c.rate = 0 /\ c.plan = plan
    BY DEF Call
  <2>2. CASE on
    <3>1. plan.accesses = <<clear, enable>>
      BY <2>2, TwoRequests
    <3> HIDE DEF c, plan
    <3>2. GoodCall(f, c)
      BY <1>1, <2>1, <2>2, <3>1, TwoGood
    <3> QED BY <3>2 DEF c, plan
  <2>3. CASE ~on
    <3>1. plan = Request(<<enable>>)
      BY <2>3 DEF Then, Request
    <3> HIDE DEF c, plan
    <3>2. GoodCall(f, c)
      BY <1>1, <2>1, <2>3, <3>1, OneGood
    <3> QED BY <3>2 DEF c, plan
  <2> QED BY <2>2, <2>3
<1> QED BY <1>2, <1>3

(* And of a channel of the ADC.                                            *)
LEMMA ChannelInterruptCalls ==
  ASSUME NEW f, Descriptor(f), f.type = FUNC_BLOCK.ADC, NEW s \in SUBSET Int,
         NEW c, NEW on \in BOOLEAN
  PROVE  /\ GoodCall(f, Query(<<"channel", c>>, Adc_Channel_Interrupt_Clear_Status(f, c, s)))
         /\ \A field, set, of :
              GoodCall(f, Call(<<"channel", c>>, field, set, of,
                               Adc_Channel_Interrupt_Set_Config(f, c, s, on)))
<1> DEFINE clear == Modify(AdcChannel(f, c, ADC_CHAN.INTR_STAT), 8, Width(8), s)
           enable == Modify(AdcChannel(f, c, ADC_CHAN.INTR_ENABLE), 8,
                            IF on THEN Width(8) ELSE {}, s)
           o == <<"channel", c>>
<1>1. Adc_Channel_Interrupt_Clear_Status(f, c, s) = OnChannel(f, c, <<clear>>)
  BY DEF Adc_Channel_Interrupt_Clear_Status
<1>2. Adc_Channel_Interrupt_Set_Config(f, c, s, on)
        = Then(IF on THEN OnChannel(f, c, <<clear>>) ELSE OnChannel(f, c, <<>>),
               OnChannel(f, c, <<enable>>))
  BY <1>1 DEF Adc_Channel_Interrupt_Set_Config
<1>3. CASE ~AdcChannelOk(f, c)
  <2>1. \A accesses : OnChannel(f, c, accesses) = Rejected("EINVAL")
    BY <1>3 DEF OnChannel, Checked
  <2>2. Rejected("EINVAL").errno # "none"
    BY DEF Rejected
  <2>3. /\ Adc_Channel_Interrupt_Clear_Status(f, c, s).errno # "none"
        /\ Adc_Channel_Interrupt_Set_Config(f, c, s, on).errno # "none"
    BY <1>1, <1>2, <2>1, <2>2 DEF Then
  <2> QED BY <2>3 DEF GoodCall, Query, Call
<1>4. CASE AdcChannelOk(f, c)
  <2>1. \A accesses : OnChannel(f, c, accesses) = Request(accesses)
    BY <1>4 DEF OnChannel, Checked
  <2>2. c \in 0 .. f.num_dma_channels - 1
    BY <1>4 DEF AdcChannelOk
  <2>3. /\ \A call : call.owner = o =>
                       clear \in GoodAccesses(f, call) /\ enable \in GoodAccesses(f, call)
        /\ Armed(f, clear) = {}
        /\ on => Armed(f, enable) \subseteq Cleared(f, clear)
        /\ ~on => Armed(f, enable) = {}
    BY <2>2, ChannelInterruptAccesses
  <2> HIDE DEF clear, enable
  <2>4. GoodCall(f, Query(o, Adc_Channel_Interrupt_Clear_Status(f, c, s)))
    <3> DEFINE call == Query(o, Adc_Channel_Interrupt_Clear_Status(f, c, s))
    <3>1. call.owner = o /\ call.rate = 0 /\ call.plan = Request(<<clear>>)
      BY <1>1, <2>1 DEF Query, Call
    <3> HIDE DEF call
    <3>2. GoodCall(f, call)
      BY <2>3, <3>1, OneGood
    <3> QED BY <3>2 DEF call
  <2>5. ASSUME NEW field, NEW set, NEW of
        PROVE  GoodCall(f, Call(o, field, set, of, Adc_Channel_Interrupt_Set_Config(f, c, s, on)))
    <3> DEFINE plan == Adc_Channel_Interrupt_Set_Config(f, c, s, on)
               call == Call(o, field, set, of, plan)
    <3>1. call.owner = o /\ call.rate = 0 /\ call.plan = plan
      BY DEF Call
    <3>2. plan = Then(IF on THEN Request(<<clear>>) ELSE Request(<<>>), Request(<<enable>>))
      BY <1>2, <2>1
    <3>3. CASE on
      <4>1. plan.accesses = <<clear, enable>>
        BY <3>2, <3>3, TwoRequests
      <4> HIDE DEF call, plan
      <4>2. GoodCall(f, call)
        BY <2>3, <3>1, <3>3, <4>1, TwoGood
      <4> QED BY <4>2 DEF call, plan
    <3>4. CASE ~on
      <4>1. plan = Request(<<enable>>)
        BY <3>2, <3>4 DEF Then, Request
      <4> HIDE DEF call, plan
      <4>2. GoodCall(f, call)
        BY <2>3, <3>1, <3>4, <4>1, OneGood
      <4> QED BY <4>2 DEF call, plan
    <3> QED BY <3>3, <3>4
  <2> QED BY <2>4, <2>5
<1> QED BY <1>3, <1>4
(* The calls about the board: registers before the table, and of those that *)
(* are written the ones for the reset and the acknowledgement.              *)
LEMMA BoardAccess ==
  ASSUME NEW f, NEW a \in Requests, a.region = "GBC", a.offset \in {0, 1, 2, 3, 4, 8},
         a.size \in {8, 32}, a.size = 32 => a.offset \in {4, 8},
         a.op = "read" \/ (a.offset \in {2, 3} /\ a.size = 8)
  PROVE  /\ Armed(f, a) = {}
         /\ \A c : c.owner[1] = "board" => a \in GoodAccesses(f, c)
<1>1. Armed(f, a) = {}
  BY DEF Armed
<1>2. Length["GBC"] \in Nat /\ Length["GBC"] >= 12
  BY LengthAssumption DEF GBC, MAX_FB
<1>3. Bytes(8) = 1 /\ Bytes(32) = 4
  BY DEF Bytes
<1>4. a.offset % Bytes(a.size) = 0 /\ a.offset + Bytes(a.size) <= Length[a.region]
  BY <1>2, <1>3
<1>5. Allowed(a)
  BY <1>4, FitsIsAllowed
<1>6. a.op # "read" => Window(a.offset, a.size) \subseteq 16 .. 31
  BY DEF Window
<1> QED BY <1>1, <1>5, <1>6 DEF GoodAccesses, GoodAccess

(* The calls about the board are good.                                     *)
LEMMA BoardCalls ==
  ASSUME NEW f
  PROVE  \A c \in GbcCalls : GoodCall(f, c)
<1> DEFINE access(op, offset, size, data) == Access(op, "GBC", offset, size, data, {})
<1>1. ASSUME NEW op \in {"read", "write"}, NEW offset \in {0, 1, 2, 3, 4, 8},
             NEW size \in {8, 32}, NEW data \in SUBSET Int,
             size = 32 => offset \in {4, 8},
             op = "read" \/ (offset \in {2, 3} /\ size = 8)
      PROVE  GoodCall(f, Query(<<"board">>, Request(<<access(op, offset, size, data)>>)))
  <2> DEFINE a == access(op, offset, size, data)
             c == Query(<<"board">>, Request(<<a>>))
  <2>1. /\ a.op = op /\ a.region = "GBC" /\ a.offset = offset /\ a.size = size
        /\ a \in Requests
    BY DEF Access, Requests, Ops
  <2>2. c.owner[1] = "board" /\ c.rate = 0 /\ c.plan = Request(<<a>>)
    BY DEF Query, Call
  <2> HIDE DEF a
  <2>3. Armed(f, a) = {} /\ \A x : x.owner[1] = "board" => a \in GoodAccesses(f, x)
    BY <1>1, <2>1, BoardAccess
  <2> HIDE DEF c
  <2>4. GoodCall(f, c)
    BY <2>2, <2>3, OneGood
  <2> QED BY <2>4 DEF c, a
<1>2. /\ Gbc_Board_Reset = Request(<<access("write", 3, 8, Bits(170))>>)
      /\ Gbc_Ack_Interrupt = Request(<<access("write", 2, 8, Bits(1))>>)
      /\ Gbc_Get_Format = Request(<<access("read", 0, 8, {})>>)
      /\ Gbc_Get_Revision = Request(<<access("read", 1, 8, {})>>)
      /\ Gbc_Get_Pdp_Number = Request(<<access("read", 4, 32, {})>>)
      /\ Gbc_Get_Fpga_Build = Request(<<access("read", 8, 32, {})>>)
  <2>1. /\ GBC.BOARD_RESET = 3 /\ GBC.END_INTERRUPT = 2 /\ GBC.FORMAT = 0 /\ GBC.REV = 1
        /\ GBC.PDP_NUMBER = 4 /\ GBC.FPGA_BUILD = 8
    BY DEF GBC
  <2>2. /\ Gbc_Board_Reset = Request(<<access("write", 3, 8, Bits(170))>>)
        /\ Gbc_Ack_Interrupt = Request(<<access("write", 2, 8, Bits(1))>>)
    BY <2>1 DEF Gbc_Board_Reset, Gbc_Ack_Interrupt, GbcWrite
  <2>3. /\ Gbc_Get_Format = Request(<<access("read", 0, 8, {})>>)
        /\ Gbc_Get_Revision = Request(<<access("read", 1, 8, {})>>)
        /\ Gbc_Get_Pdp_Number = Request(<<access("read", 4, 32, {})>>)
        /\ Gbc_Get_Fpga_Build = Request(<<access("read", 8, 32, {})>>)
    BY <2>1 DEF Gbc_Get_Format, Gbc_Get_Revision, Gbc_Get_Pdp_Number, Gbc_Get_Fpga_Build, GbcRead
  <2> QED BY <2>2, <2>3
<1>3. Bits(170) \in SUBSET Int /\ Bits(1) \in SUBSET Int /\ {} \in SUBSET Int
  BY DataTypes
<1> HIDE DEF access
<1>4. /\ GoodCall(f, Query(<<"board">>, Gbc_Board_Reset))
      /\ GoodCall(f, Query(<<"board">>, Gbc_Ack_Interrupt))
  BY <1>1, <1>2, <1>3
<1>5. /\ GoodCall(f, Query(<<"board">>, Gbc_Get_Format))
      /\ GoodCall(f, Query(<<"board">>, Gbc_Get_Revision))
  BY <1>1, <1>2, <1>3
<1>6. /\ GoodCall(f, Query(<<"board">>, Gbc_Get_Pdp_Number))
      /\ GoodCall(f, Query(<<"board">>, Gbc_Get_Fpga_Build))
  BY <1>1, <1>2, <1>3
<1> QED BY <1>4, <1>5, <1>6 DEF GbcCalls

(* The call on a channel that the DAC does not have: the driver decides,   *)
(* and what it may let through is behind the block's own registers.        *)
LEMMA UncheckedCall ==
  ASSUME NEW f, Descriptor(f), f.type = FUNC_BLOCK.DAC, NEW k \in SUBSET Int, NEW d \in SUBSET Int
  PROVE  GoodCall(f, Asking("unchecked", AskChannel(150, Dac_Set_Last_Conversion(f, 150, k, d))))
<1> DEFINE o == <<"channel", 150>>
           start == f.control_offset + 3060
           data == {b + 24 : b \in k} \cup SignExtended(d)
           a == Write(start, 32, data)
           plan == Dac_Set_Last_Conversion(f, 150, k, d)
           c == Asking("unchecked", AskChannel(150, plan))
<1>1. start \in Nat
  BY Sizes
<1>2. plan = Request(<<a>>)
  <2>1. DacChannel(f, 150, DAC_CHAN.LAST_CONVERSION) = start
    BY Sizes DEF DacChannel, DAC_CHAN
  <2> QED BY <2>1 DEF Dac_Set_Last_Conversion
<1>3. data \in SUBSET Int
  BY LastData
<1>4. c.owner = o /\ c.rate = 0 /\ c.plan = plan /\ c.asks = "unchecked"
  BY DEF Asking, AskChannel, Query, Call
<1> HIDE DEF data, plan
<1>5. a \in Requests /\ a.region = "FB" /\ a.offset = start /\ a.size = 32
  <2> HIDE DEF start
  <2> QED BY <1>1, <1>3 DEF Requests, Ops, Write, Access
<1> HIDE DEF a, c
<1>6. Extent(f, o) = 8 * (f.control_offset + 3044) .. 8 * (f.control_offset + 3064) - 1
  <2> DEFINE START == DAC_CHAN.START
             SIZE == DAC_CHAN.SIZE
  <2>1. Extent(f, o) = 8 * (f.control_offset + START + 150 * SIZE)
                        .. 8 * (f.control_offset + START + 150 * SIZE + SIZE) - 1
    BY DEF Extent, FUNC_BLOCK
  <2>2. START = 44 /\ SIZE = 20
    BY DEF DAC_CHAN
  <2> HIDE DEF START, SIZE
  <2>3. /\ f.control_offset + START + 150 * SIZE = f.control_offset + 3044
        /\ f.control_offset + START + 150 * SIZE + SIZE = f.control_offset + 3064
    BY <2>2, Sizes
  <2> QED BY <2>1, <2>3
<1>7. Window(a.offset, a.size) = 8 * start .. 8 * start + 31
  BY <1>1, <1>5 DEF Window
<1>8. Window(a.offset, a.size) \subseteq Extent(f, o)
  BY <1>6, <1>7, Sizes
<1>9. Window(a.offset, a.size) \cap Watched(f) = {}
  <2>1. ASSUME NEW x \in Watched(f)
        PROVE  x \notin Window(a.offset, a.size)
    <3>1. f.type # 4096
      BY DEF FUNC_BLOCK
    <3>2. \/ x \in 8 * (f.control_offset + 26) .. 8 * (f.control_offset + 28) - 1
          \/ x \in 8 * (f.control_offset + 30) .. 8 * (f.control_offset + 32) - 1
      BY <3>1, WatchedBits
    <3> QED BY <1>7, <3>2, Sizes
  <2> QED BY <2>1
<1>10. Armed(f, a) = {}
  BY <1>9 DEF Armed, Watched
<1>11. a \in GoodAccesses(f, c)
  BY <1>4, <1>5, <1>8, <1>9 DEF GoodAccesses, GoodAccess, Calm
<1> HIDE DEF start
<1>12. GoodCall(f, c)
  BY <1>2, <1>4, <1>10, <1>11, OneGood
<1> QED BY <1>12 DEF c, plan

(* What the argument sets are made of.                                     *)
LEMMA Arguments ==
  ASSUME NEW f, Descriptor(f)
  PROVE  /\ \A c \in ChannelArgs(f) : c \in Nat
         /\ \A c \in Channels(f) : c \in 0 .. f.num_dma_channels - 1
         /\ \A d \in Patterns(32) \cup Patterns(12) \cup Patterns(8) \cup Patterns(5) :
              d \in SUBSET Int
         /\ \A s \in Sources : s \in SUBSET Int
<1>1. \A c \in ChannelArgs(f) : c \in Nat
  BY Sizes DEF ChannelArgs, Channels
<1>2. \A c \in Channels(f) : c \in 0 .. f.num_dma_channels - 1
  BY DEF Channels
<1> QED BY <1>1, <1>2, DataTypes

(* The calls about the block of an ADC are good.                           *)
LEMMA AdcBlockGood ==
  ASSUME NEW f, Descriptor(f), f.type = FUNC_BLOCK.ADC, NEW x \in AdcBlockCalls(f)
  PROVE  GoodCall(f, x)
<1>1. /\ \A o, field, set, of, plan :
           QuietPlan(f, o, plan) => GoodCall(f, Call(o, field, set, of, plan))
      /\ \A field, data, plan :
           QuietPlan(f, <<"block">>, plan) => GoodCall(f, OfBlock(field, data, plan))
      /\ \A plan : QuietPlan(f, <<"block">>, plan) => GoodCall(f, AskBlock(plan))
  BY QuietCalls
<1>2. \A k : /\ QuietPlan(f, <<"block">>, Adc_Set_Start_Trigger(f, k))
             /\ QuietPlan(f, <<"block">>, Adc_Set_Stop_Trigger(f, k))
             /\ QuietPlan(f, <<"block">>, Adc_Set_Clock_Src(f, k))
             /\ QuietPlan(f, <<"block">>, Adc_Set_Pre_Trigger_Samples(f, k))
             /\ \A bus : QuietPlan(f, <<"block">>, Adc_Set_Clock_Source_Global(f, bus, k))
             /\ QuietPlan(f, <<"block">>, AdcMode(f, k))
  BY AdcBlock
<1>3. \A d \in Patterns(32) : /\ QuietPlan(f, <<"block">>, Adc_Set_Post_Stop_Samples(f, d))
                              /\ QuietPlan(f, <<"block">>, Adc_Set_Clk_Divider(f, d))
  BY Arguments, AdcBlock
<1>4. \A p \in {Adc_Start(f), Adc_Start_Rearm(f), Adc_Reset(f), Adc_Pause(f), Adc_Uninitialize(f)} :
        QuietPlan(f, <<"block">>, p)
  BY <1>2 DEF Adc_Start, Adc_Start_Rearm, Adc_Reset, Adc_Pause, Adc_Uninitialize
<1>5. \A k : /\ GoodCall(f, OfBlock("start_trigger", Bits(k), Adc_Set_Start_Trigger(f, k)))
             /\ GoodCall(f, OfBlock("stop_trigger", Bits(k), Adc_Set_Stop_Trigger(f, k)))
             /\ GoodCall(f, OfBlock("clock_src", Bits(k), Adc_Set_Clock_Src(f, k)))
             /\ GoodCall(f, OfBlock("pre", Bits(k), Adc_Set_Pre_Trigger_Samples(f, k)))
  BY <1>1, <1>2
<1>6. \A d \in Patterns(32) :
        /\ GoodCall(f, OfBlock("post", d, Adc_Set_Post_Stop_Samples(f, d)))
        /\ GoodCall(f, OfBlock("clk_div", d, Adc_Set_Clk_Divider(f, d)))
  BY <1>1, <1>3
<1>7. \A b, k : GoodCall(f, OnBusField("bus", b, Bits(k), Adc_Set_Clock_Source_Global(f, b, k)))
  BY <1>1, <1>2 DEF OnBusField
<1>8. \A p \in {Adc_Start(f), Adc_Start_Rearm(f), Adc_Reset(f), Adc_Pause(f), Adc_Uninitialize(f)} :
        GoodCall(f, AskBlock(p))
  BY <1>1, <1>4
<1> QED BY ONLY <1>5, <1>6, <1>7, <1>8, x \in AdcBlockCalls(f) DEF AdcBlockCalls

(* A call that differs in what it remembers, and one with a rate.          *)
LEMMA AlteredCalls ==
  ASSUME NEW f, Descriptor(f)
  PROVE  /\ \A o, field, set, of, plan, x :
              QuietPlan(f, o, plan) =>
                GoodCall(f, Ranged(x, Call(o, field, set, of, plan)))
         /\ \A o, plan, x :
              QuietPlan(f, o, plan) => GoodCall(f, Asking(x, Query(o, plan)))
         /\ \A field, data, plan : \A x \in Nat :
              QuietPlan(f, <<"block">>, plan) =>
                GoodCall(f, [OfBlock(field, data, plan) EXCEPT !.rate = x])
<1>1. ASSUME NEW c, QuietPlan(f, c.owner, c.plan), c.rate \in Nat
      PROVE  GoodCall(f, c)
  BY <1>1, AllQuiet DEF QuietPlan
<1>2. ASSUME NEW o, NEW field, NEW set, NEW of, NEW plan, NEW x, QuietPlan(f, o, plan)
      PROVE  /\ GoodCall(f, [Call(o, field, set, of, plan) EXCEPT !.range = x])
             /\ GoodCall(f, [Call(o, field, set, of, plan) EXCEPT !.asks = x])
             /\ x \in Nat => GoodCall(f, [Call(o, field, set, of, plan) EXCEPT !.rate = x])
  <2> DEFINE c == [Call(o, field, set, of, plan) EXCEPT !.range = x]
             d == [Call(o, field, set, of, plan) EXCEPT !.asks = x]
             e == [Call(o, field, set, of, plan) EXCEPT !.rate = x]
  <2>1. c.owner = o /\ c.plan = plan /\ c.rate = 0
    BY DEF Call
  <2>2. d.owner = o /\ d.plan = plan /\ d.rate = 0
    BY DEF Call
  <2>3. e.owner = o /\ e.plan = plan /\ e.rate = x
    BY DEF Call
  <2> HIDE DEF c, d, e
  <2>4. GoodCall(f, c) /\ GoodCall(f, d) /\ (x \in Nat => GoodCall(f, e))
    BY <1>1, <1>2, <2>1, <2>2, <2>3
  <2> QED BY <2>4 DEF c, d, e
<1> QED BY <1>2 DEF Query, OfBlock, Ranged, Asking

(* And those about a channel of it.                                        *)
LEMMA AdcChannelGood ==
  ASSUME NEW f, Descriptor(f), f.type = FUNC_BLOCK.ADC, NEW c, NEW x \in AdcChannelCalls(f, c)
  PROVE  GoodCall(f, x)
<1> DEFINE o == <<"channel", c>>
<1>1. /\ \A field, set, of, plan :
           QuietPlan(f, o, plan) => GoodCall(f, OnField(field, c, set, of, plan))
      /\ \A plan : QuietPlan(f, <<"fifo", c>>, plan) => GoodCall(f, AskFifo(c, plan))
  BY QuietCalls DEF OnField, AskFifo
<1>2. /\ \A field, set, of, plan, r : QuietPlan(f, o, plan) =>
           GoodCall(f, Ranged(r, OnField(field, c, set, of, plan)))
      /\ \A plan, s : QuietPlan(f, o, plan) => GoodCall(f, Asking(s, AskChannel(c, plan)))
  BY AlteredCalls DEF OnField, AskChannel
<1>3. {} \in SUBSET Int
  OBVIOUS
<1>4. \A r : GoodCall(f, Ranged(r, OnField("fe_config", c,
                                           Bits(64 * 3 + r.code + ADC_FE_CONFIG.ENABLE), Width(8),
                                           Adc_Channel_Setup(f, c, 3, r, "single_ended"))))
  BY <1>2, <1>3, AdcOfChannel
<1>5. GoodCall(f, OnField("fe_config", c, {}, Width(16), Adc_Channel_Reset(f, c)))
  BY <1>1, <1>3, AdcOfChannel
<1>6. \A s \in Sources, e \in BOOLEAN :
        GoodCall(f, OnField("chan_int", c, IF e THEN s ELSE {}, s,
                            Adc_Channel_Interrupt_Set_Config(f, c, s, e)))
  BY Arguments, ChannelInterruptCalls DEF OnField
<1>7. \A s \in Sources : GoodCall(f, AskChannel(c, Adc_Channel_Interrupt_Clear_Status(f, c, s)))
  BY Arguments, ChannelInterruptCalls DEF AskChannel
<1>8. \A d \in Patterns(8) :
        /\ GoodCall(f, OnField("filter", c, d, Width(8), Adc_Channel_Set_Filter(f, c, d)))
        /\ GoodCall(f, Asking("filter", AskChannel(c, Adc_Channel_Get_Filter(f, c, d))))
  BY <1>1, <1>2, Arguments, AdcOfChannel
<1>9. \A k : /\ GoodCall(f, OnField("low", c, Bits(k), Width(32),
                                    Adc_Channel_Set_Low_Threshold(f, c, k)))
             /\ GoodCall(f, OnField("high", c, Bits(k), Width(32),
                                    Adc_Channel_Set_High_Threshold(f, c, k)))
  BY <1>1, <1>3, AdcOfChannel
<1>10. GoodCall(f, AskFifo(c, Adc_Fifo_Channel_Read(f, c)))
  BY <1>1, <1>3, AdcOfChannel
<1> DEFINE interrupts == {OnField("chan_int", c, IF e THEN s ELSE {}, s,
                                  Adc_Channel_Interrupt_Set_Config(f, c, s, e)) :
                            s \in Sources, e \in BOOLEAN}
<1>11. \A y \in interrupts : GoodCall(f, y)
  BY <1>6
<1>12. CASE x \in interrupts
  BY <1>11, <1>12
<1>13. CASE x \notin interrupts
  <2>1. GoodCall(f, x)
    BY ONLY <1>4, <1>5, <1>7, <1>8, <1>9, <1>10, <1>13, x \in AdcChannelCalls(f, c)
      DEF AdcChannelCalls
  <2> QED BY <2>1
<1> QED BY <1>12, <1>13

(* The calls that give a rate.                                             *)
LEMMA RatesGood ==
  ASSUME NEW f, Descriptor(f), NEW m
  PROVE  /\ f.type = FUNC_BLOCK.ADC => \A x \in AdcRates(m, f) : GoodCall(f, x)
         /\ f.type = FUNC_BLOCK.DAC => \A x \in DacRates(m, f) : GoodCall(f, x)
         /\ f.type = FUNC_BLOCK.ADIO => \A x \in AdioRates(m, f) : GoodCall(f, x)
<1> DEFINE clock == Gbc_Get_Sys_Clock_Freq(m).freq
<1>1. /\ \A plan : QuietPlan(f, <<"block">>, plan) => GoodCall(f, AskBlock(plan))
      /\ \A field, plan : \A n \in Nat :
           QuietPlan(f, <<"block">>, plan) => GoodCall(f, Rated(field, m, plan, n))
  BY QuietCalls, AlteredCalls DEF Rated
<1>2. /\ \A r \in Rates(ADC_MAX_RATE) : r \in Nat
      /\ \A r \in Rates(DAC_MAX_RATE) : r \in Nat
      /\ \A r \in Rates(ADIO_MAX_FREQ) : r \in Nat
  BY SMT DEF Rates, ADC_MAX_RATE, DAC_MAX_RATE, ADIO_MAX_FREQ
<1>3. ASSUME f.type = FUNC_BLOCK.ADC
      PROVE  \A x \in AdcRates(m, f) : GoodCall(f, x)
  <2>1. \A r \in Rates(ADC_MAX_RATE) : GoodCall(f, AskBlock(Adc_Set_Sample_Rate(m, f, r)))
    BY <1>1, <1>2, <1>3, RatePlans
  <2>2. \A r \in Rates(ADC_MAX_RATE) : Adc_Set_Sample_Rate(m, f, r).errno = "none" =>
          GoodCall(f, Rated("clk_div", m, Adc_Set_Sample_Rate(m, f, r), AdcActualRate(clock, r)))
    BY <1>1, <1>2, <1>3, RatePlans
  <2> QED BY <2>1, <2>2 DEF AdcRates, RateCalls
<1>4. ASSUME f.type = FUNC_BLOCK.DAC
      PROVE  \A x \in DacRates(m, f) : GoodCall(f, x)
  <2>1. \A r \in Rates(DAC_MAX_RATE) : GoodCall(f, AskBlock(Dac_Set_Conversion_Rate(m, f, r)))
    BY <1>1, <1>2, <1>4, RatePlans
  <2>2. \A r \in Rates(DAC_MAX_RATE) : Dac_Set_Conversion_Rate(m, f, r).errno = "none" =>
          GoodCall(f, Rated("clk_div", m, Dac_Set_Conversion_Rate(m, f, r),
                            PacerActualRate(clock, r)))
    BY <1>1, <1>2, <1>4, RatePlans
  <2> QED BY <2>1, <2>2 DEF DacRates, RateCalls
<1>5. ASSUME f.type = FUNC_BLOCK.ADIO
      PROVE  \A x \in AdioRates(m, f) : GoodCall(f, x)
  <2>1. \A r \in Rates(ADIO_MAX_FREQ) : GoodCall(f, AskBlock(Adio_Set_Pacer_Clk_Rate(m, f, r)))
    BY <1>1, <1>2, <1>5, RatePlans
  <2>2. \A r \in Rates(ADIO_MAX_FREQ) : Adio_Set_Pacer_Clk_Rate(m, f, r).errno = "none" =>
          GoodCall(f, Rated("clk_div", m, Adio_Set_Pacer_Clk_Rate(m, f, r),
                            PacerActualRate(clock, r)))
    BY <1>1, <1>2, <1>5, RatePlans
  <2> QED BY <2>1, <2>2 DEF AdioRates, RateCalls
<1> QED BY <1>3, <1>4, <1>5

(* The calls about the interrupts of a block.                              *)
LEMMA InterruptsGood ==
  ASSUME NEW f, Descriptor(f), f.type # FUNC_BLOCK.EXT_CLOCKING
  PROVE  /\ \A x \in AdcInterrupts(f) : GoodCall(f, x)
         /\ \A x \in DacInterrupts(f) : GoodCall(f, x)
         /\ \A x \in AdioInterrupts(f) : GoodCall(f, x)
<1> DEFINE clear(s) == Write(AdcReg(f, ADC.INT_STAT), 16, s)
           enable(s, on) == Write(AdcReg(f, ADC.INT_ENABLE), 32,
                                  Get_Maskable(IF on THEN Width(16) ELSE {}, s))
           config(s, on) == Then(IF on THEN Request(<<clear(s)>>) ELSE Request(<<>>),
                                 Request(<<enable(s, on)>>))
<1>1. \A s \in Sources, on \in BOOLEAN :
        /\ GoodCall(f, AskBlock(Request(<<clear(s)>>)))
        /\ GoodCall(f, OnIntConfig(s, on, config(s, on)))
  BY Arguments, BlockInterruptCalls DEF OnIntConfig
<1>2. \A s : /\ Adc_Interrupt_Clear_Status(f, s) = Request(<<clear(s)>>)
             /\ Dac_Interrupt_Clear_Status(f, s) = Request(<<clear(s)>>)
             /\ Adio_Interrupt_Clear_Status(f, s) = Request(<<clear(s)>>)
  BY DEF Adc_Interrupt_Clear_Status, Dac_Interrupt_Clear_Status, Adio_Interrupt_Clear_Status,
         AdcReg, DacReg, AdioReg, ADC, DAC, ADIO
<1>3. \A s, on : /\ Adc_Interrupt_Set_Config(f, s, on) = config(s, on)
                 /\ Dac_Interrupt_Set_Config(f, s, on) = config(s, on)
                 /\ Adio_Interrupt_Set_Config(f, s, on) = config(s, on)
  BY <1>2 DEF Adc_Interrupt_Set_Config, Dac_Interrupt_Set_Config, Adio_Interrupt_Set_Config,
         AdcReg, DacReg, AdioReg, ADC, DAC, ADIO
<1> HIDE DEF clear, config
<1>4. \A s \in Sources, on \in BOOLEAN :
        /\ GoodCall(f, AskBlock(Adc_Interrupt_Clear_Status(f, s)))
        /\ GoodCall(f, AskBlock(Dac_Interrupt_Clear_Status(f, s)))
        /\ GoodCall(f, AskBlock(Adio_Interrupt_Clear_Status(f, s)))
  BY <1>1, <1>2
<1>5. \A s \in Sources, on \in BOOLEAN :
        /\ GoodCall(f, OnIntConfig(s, on, Adc_Interrupt_Set_Config(f, s, on)))
        /\ GoodCall(f, OnIntConfig(s, on, Dac_Interrupt_Set_Config(f, s, on)))
        /\ GoodCall(f, OnIntConfig(s, on, Adio_Interrupt_Set_Config(f, s, on)))
  BY <1>1, <1>3
<1>6. ASSUME NEW x \in AdcInterrupts(f)
      PROVE  GoodCall(f, x)
  <2> DEFINE configs == {OnIntConfig(s, e, Adc_Interrupt_Set_Config(f, s, e)) :
                           s \in Sources, e \in BOOLEAN}
             clears == {AskBlock(Adc_Interrupt_Clear_Status(f, s)) : s \in Sources}
  <2>1. x \in configs \/ x \in clears
    BY DEF AdcInterrupts, IntConfig
  <2>2. \A y \in configs : GoodCall(f, y)
    BY <1>5
  <2>3. \A y \in clears : GoodCall(f, y)
    BY <1>4
  <2> QED BY <2>1, <2>2, <2>3
<1>7. ASSUME NEW x \in DacInterrupts(f)
      PROVE  GoodCall(f, x)
  <2> DEFINE configs == {OnIntConfig(s, e, Dac_Interrupt_Set_Config(f, s, e)) :
                           s \in Sources, e \in BOOLEAN}
             clears == {AskBlock(Dac_Interrupt_Clear_Status(f, s)) : s \in Sources}
  <2>1. x \in configs \/ x \in clears
    BY DEF DacInterrupts, IntConfig
  <2>2. \A y \in configs : GoodCall(f, y)
    BY <1>5
  <2>3. \A y \in clears : GoodCall(f, y)
    BY <1>4
  <2> QED BY <2>1, <2>2, <2>3
<1>8. ASSUME NEW x \in AdioInterrupts(f)
      PROVE  GoodCall(f, x)
  <2> DEFINE configs == {OnIntConfig(s, e, Adio_Interrupt_Set_Config(f, s, e)) :
                           s \in Sources, e \in BOOLEAN}
             clears == {AskBlock(Adio_Interrupt_Clear_Status(f, s)) : s \in Sources}
  <2>1. x \in configs \/ x \in clears
    BY DEF AdioInterrupts, IntConfig
  <2>2. \A y \in configs : GoodCall(f, y)
    BY <1>5
  <2>3. \A y \in clears : GoodCall(f, y)
    BY <1>4
  <2> QED BY <2>1, <2>2, <2>3
<1> QED BY <1>6, <1>7, <1>8

(* The calls about the block of a DAC are good.                            *)
LEMMA DacBlockGood ==
  ASSUME NEW f, Descriptor(f), f.type = FUNC_BLOCK.DAC, NEW x \in DacBlockCalls(f)
  PROVE  GoodCall(f, x)
<1>1. /\ \A o, field, set, of, plan :
           QuietPlan(f, o, plan) => GoodCall(f, Call(o, field, set, of, plan))
      /\ \A field, data, plan :
           QuietPlan(f, <<"block">>, plan) => GoodCall(f, OfBlock(field, data, plan))
      /\ \A plan : QuietPlan(f, <<"block">>, plan) => GoodCall(f, AskBlock(plan))
  BY QuietCalls
<1>2. {} \in SUBSET Int
  OBVIOUS
<1>3. \A k : /\ GoodCall(f, OfBlock("start_trigger", Bits(k), Dac_Set_Start_Trigger(f, k)))
             /\ GoodCall(f, OfBlock("stop_trigger", Bits(k), Dac_Set_Stop_Trigger(f, k)))
             /\ GoodCall(f, OfBlock("clock_src", Bits(k), Dac_Set_Clock_Src(f, k)))
  BY <1>1, <1>2, DacBlock
<1>4. \A d \in Patterns(32) :
        /\ GoodCall(f, OfBlock("post", d, Dac_Set_Post_Stop_Conversion_Count(f, d)))
        /\ GoodCall(f, OfBlock("clk_div", d, Dac_Set_Clock_Div(f, d)))
  BY <1>1, Arguments, DacBlock
<1>5. \A b, k : GoodCall(f, OnBusField("bus", b, Bits(k), Dac_Set_Clock_Source_Global(f, b, k)))
  BY <1>1, <1>2, DacBlock DEF OnBusField
<1>6. \A p \in {Dac_Start(f), Dac_Reset(f), Dac_Pause(f)} : GoodCall(f, AskBlock(p))
  <2>1. \A mode : GoodCall(f, AskBlock(DacMode(f, mode)))
    BY <1>1, <1>2, DacBlock
  <2> QED BY <2>1 DEF Dac_Start, Dac_Reset, Dac_Pause
<1> QED BY ONLY <1>3, <1>4, <1>5, <1>6, x \in DacBlockCalls(f) DEF DacBlockCalls

(* And those about a channel of it, by the functions that look at its      *)
(* number and by those that do not.                                        *)
LEMMA DacChannelGood ==
  ASSUME NEW f, Descriptor(f), f.type = FUNC_BLOCK.DAC, NEW c \in Nat
  PROVE  /\ \A x \in DacChannelCalls(f, c) : GoodCall(f, x)
         /\ c < NUM_DAC_DMA_CHANNELS => \A x \in DacTrustingCalls(f, c) : GoodCall(f, x)
<1> DEFINE o == <<"channel", c>>
<1>1. /\ \A field, set, of, plan :
           QuietPlan(f, o, plan) => GoodCall(f, OnField(field, c, set, of, plan))
      /\ \A plan : QuietPlan(f, o, plan) => GoodCall(f, AskChannel(c, plan))
      /\ \A plan : QuietPlan(f, <<"fifo", c>>, plan) => GoodCall(f, AskFifo(c, plan))
  BY QuietCalls DEF OnField, AskFifo, AskChannel
<1>2. \A field, set, of, plan, r : QuietPlan(f, o, plan) =>
        GoodCall(f, Ranged(r, OnField(field, c, set, of, plan)))
  BY AlteredCalls DEF OnField
<1>3. {} \in SUBSET Int
  OBVIOUS
<1>4. \A r : GoodCall(f, Ranged(r, OnField("fe_config", c, Bits(DAC_FE_CONFIG.ENABLE + r.code),
                                           Width(3), Dac_Channel_Setup(f, c, r))))
  BY <1>2, <1>3, DacOfChannel
<1>5. GoodCall(f, OnField("fe_config", c, {}, Width(16), Dac_Channel_Reset(f, c)))
  BY <1>1, <1>3, DacOfChannel
<1>6. \A d \in Patterns(32) : GoodCall(f, AskFifo(c, Dac_Fifo_Channel_Write(f, c, d)))
  BY <1>1, Arguments, DacOfChannel
<1>7. \A x \in DacChannelCalls(f, c) : GoodCall(f, x)
  BY ONLY <1>4, <1>5, <1>6 DEF DacChannelCalls
<1>8. ASSUME c < NUM_DAC_DMA_CHANNELS, NEW x \in DacTrustingCalls(f, c)
      PROVE  GoodCall(f, x)
  <2>1. \A d \in Patterns(8) :
          GoodCall(f, OnField("marker_config", c, d, Width(8),
                              Dac_Channel_Set_Marker_Config(f, c, d)))
    BY <1>1, <1>8, Arguments, DacOfChannel
  <2>2. \A s \in Sources : GoodCall(f, AskChannel(c, Dac_Channel_Clear_Marker_Status(f, c, s)))
    BY <1>1, <1>8, Arguments, DacOfChannel
  <2>3. GoodCall(f, AskChannel(c, Dac_Channel_Get_Marker_Status(f, c)))
    BY <1>1, <1>3, <1>8, DacOfChannel
  <2>4. \A k \in Patterns(8), d \in Patterns(12) :
          GoodCall(f, OnField("last", c, Marked(k, d), Width(32),
                              Dac_Set_Last_Conversion(f, c, k, d)))
    BY <1>1, <1>8, Arguments, DacOfChannel
  <2> QED BY ONLY <2>1, <2>2, <2>3, <2>4, x \in DacTrustingCalls(f, c) DEF DacTrustingCalls
<1> QED BY <1>7, <1>8

(* The calls about the block of an ADIO are good.                          *)
LEMMA AdioBlockGood ==
  ASSUME NEW f, Descriptor(f), f.type = FUNC_BLOCK.ADIO, NEW x \in AdioBlockCalls(f)
  PROVE  GoodCall(f, x)
<1>1. /\ \A o, field, set, of, plan :
           QuietPlan(f, o, plan) => GoodCall(f, Call(o, field, set, of, plan))
      /\ \A field, data, plan :
           QuietPlan(f, <<"block">>, plan) => GoodCall(f, OfBlock(field, data, plan))
      /\ \A plan : QuietPlan(f, <<"block">>, plan) => GoodCall(f, AskBlock(plan))
  BY QuietCalls
<1>2. {} \in SUBSET Int
  OBVIOUS
<1>3. \A k : /\ GoodCall(f, AskBlock(Adio_Set_Start_Trigger(f, k)))
             /\ GoodCall(f, AskBlock(Adio_Set_Stop_Trigger(f, k)))
             /\ GoodCall(f, AskBlock(Adio_Set_Pre_Trigger_Samples(f, k)))
             /\ GoodCall(f, OfBlock("clock_src", Bits(k), Adio_Set_Clock_Src(f, k)))
  BY <1>1, <1>2, AdioBlock
<1>4. \A d \in Patterns(32) :
        /\ GoodCall(f, AskBlock(Adio_Set_Post_Stop_Samples(f, d)))
        /\ GoodCall(f, OfBlock("clk_div", d, Adio_Set_Clk_Divider(f, d)))
  BY <1>1, Arguments, AdioBlock
<1>5. \A b, k : GoodCall(f, OnBusField("bus", b, Bits(k), Adio_Set_Clock_Source_Global(f, b, k)))
  BY <1>1, <1>2, AdioBlock DEF OnBusField
<1>6. \A p \in {Adio_Start(f), Adio_Start_Rearm(f), Adio_Reset(f), Adio_Pause(f),
                Adio_Uninitialize(f)} : GoodCall(f, AskBlock(p))
  <2>1. \A mode : GoodCall(f, AskBlock(AdioMode(f, mode)))
    BY <1>1, <1>2, AdioBlock
  <2> QED BY <2>1 DEF Adio_Start, Adio_Start_Rearm, Adio_Reset, Adio_Pause, Adio_Uninitialize
<1> QED BY ONLY <1>3, <1>4, <1>5, <1>6, x \in AdioBlockCalls(f) DEF AdioBlockCalls

(* And those about its pins.                                               *)
LEMMA AdioPinsGood ==
  ASSUME NEW f, Descriptor(f), f.type = FUNC_BLOCK.ADIO, NEW x \in AdioPinCalls(f)
  PROVE  GoodCall(f, x)
<1>1. \A field, data, plan :
        QuietPlan(f, <<"pins">>, plan) => GoodCall(f, OnPinField(field, data, plan))
  BY QuietCalls DEF OnPinField
<1>2. {} \in SUBSET Int /\ TRUE \in BOOLEAN
  OBVIOUS
<1>3. \A d \in Patterns(32) :
        /\ GoodCall(f, OnPinField("output", d, Adio_Set_Output_Value(f, d)))
        /\ GoodCall(f, OnPinField("direction", d, Adio_Set_Direction(f, d)))
        /\ GoodCall(f, OnPinField("adv_int_mask", d, Adio_Set_Adv_Int_Mask(f, d)))
        /\ GoodCall(f, OnPinField("adv_int_comp", d, Adio_Set_Adv_Int_Comp(f, d)))
        /\ GoodCall(f, OnPinField("adv_int_capt", d, Adio_Set_Adv_Int_Capt(f, d)))
  BY <1>1, <1>2, Arguments, AdioOfPins
<1>4. \A k : GoodCall(f, OnPinField("adv_int_mode", Bits(k), Adio_Set_Adv_Int_Mode(f, k)))
  BY <1>1, <1>2, AdioOfPins
<1>5. \A e \in BOOLEAN :
        /\ GoodCall(f, OnPinField("p_bus", Flag(e), Adio_Set_P_Bus_Enable(f, e)))
        /\ GoodCall(f, OnPinField("p_bus_ready", Flag(e), Adio_Set_P_Bus_Ready_Enable(f, e)))
  BY <1>1, <1>2, AdioOfPins
<1> DEFINE enables == {OnPinField("p_bus", Flag(e), Adio_Set_P_Bus_Enable(f, e)) : e \in BOOLEAN}
           readies == {OnPinField("p_bus_ready", Flag(e), Adio_Set_P_Bus_Ready_Enable(f, e)) :
                         e \in BOOLEAN}
<1>6. CASE x \in enables \cup readies
  <2>1. \A y \in enables : GoodCall(f, y)
    BY <1>5
  <2>2. \A y \in readies : GoodCall(f, y)
    BY <1>5
  <2> QED BY <1>6, <2>1, <2>2
<1>7. CASE x \notin enables \cup readies
  <2>1. GoodCall(f, x)
    BY ONLY <1>3, <1>4, <1>7, x \in AdioPinCalls(f) DEF AdioPinCalls
  <2> QED BY <2>1
<1> QED BY <1>6, <1>7

(* And about its FIFOs.                                                    *)
LEMMA AdioFifoGood ==
  ASSUME NEW f, Descriptor(f), f.type = FUNC_BLOCK.ADIO, NEW c
  PROVE  /\ GoodCall(f, AskFifo(c, Adio_Fifo_Channel_Read(f, c)))
         /\ \A d \in Patterns(32) : GoodCall(f, AskFifo(c, Adio_Fifo_Channel_Write(f, c, d)))
<1>1. \A plan : QuietPlan(f, <<"fifo", c>>, plan) => GoodCall(f, AskFifo(c, plan))
  BY QuietCalls DEF AskFifo
<1>2. {} \in SUBSET Int
  OBVIOUS
<1> QED BY <1>1, <1>2, Arguments, AdioOfFifo

(* The calls of the external clocking library are good.                    *)
LEMMA ExtGood ==
  ASSUME NEW f, Descriptor(f), f.type = FUNC_BLOCK.EXT_CLOCKING, NEW x \in ExtCalls(f)
  PROVE  GoodCall(f, x)
<1>1. /\ \A o, field, set, of, plan :
           QuietPlan(f, o, plan) => GoodCall(f, Call(o, field, set, of, plan))
      /\ \A field, data, plan :
           QuietPlan(f, <<"block">>, plan) => GoodCall(f, OfBlock(field, data, plan))
  BY QuietCalls
<1>2. {} \in SUBSET Int
  OBVIOUS
<1>3. \A d \in Patterns(8) :
        /\ GoodCall(f, OfBlock("dir", d, Ext_Clocking_Set_Dir(f, d)))
        /\ GoodCall(f, OfBlock("edge", d, Ext_Clocking_Set_Edge(f, d)))
  BY <1>1, Arguments, ExtBlock
<1>4. \A b : \A d \in Patterns(8) :
        GoodCall(f, OnBusField("width", b, d, Ext_Clocking_Set_Pulse_Width(f, b, d)))
  BY <1>1, Arguments, ExtBlock DEF OnBusField
<1>5. \A b, k : GoodCall(f, OnBusField("method", b, Bits(k), Ext_Clocking_Set_Method(f, b, k)))
  BY <1>1, <1>2, ExtBlock DEF OnBusField
<1> QED BY ONLY <1>3, <1>4, <1>5, x \in ExtCalls(f) DEF ExtCalls

(* The calls about a DMA channel are good, whether there is the channel or *)
(* not.                                                                    *)
LEMMA DmaChannelGood ==
  ASSUME NEW f, Descriptor(f), NEW c, NEW x \in DmaChannelCalls(f, c)
  PROVE  GoodCall(f, x)
<1>1. /\ \A data, mask, plan :
           QuietPlan(f, <<"dma", c>>, plan) => GoodCall(f, OnDmaField(c, data, mask, plan))
      /\ \A plan : QuietPlan(f, <<"dma", c>>, plan) => GoodCall(f, AskDma(c, plan))
  BY QuietCalls DEF OnDmaField, AskDma
<1>2. \A data, mask, d : \A u, e \in BOOLEAN :
        /\ GoodCall(f, OnDmaField(c, data, mask, Dma_Setup(f, c, d, u)))
        /\ GoodCall(f, OnDmaField(c, data, mask, Dma_Setup_Set_Direction(f, c, d)))
        /\ GoodCall(f, OnDmaField(c, data, mask, Dma_Setup_Set_Used(f, c, u)))
        /\ GoodCall(f, OnDmaField(c, data, mask, Dma_Configure_Interrupts(f, c, u, e)))
  BY <1>1, DmaOfChannel
<1>3. /\ GoodCall(f, AskDma(c, Dma_Clear_Interrupt(f, c, {"overflow", "underflow", "used",
                                                           "invalid", "complete"})))
      /\ GoodCall(f, AskDma(c, Dma_Status(f, c, {"buffer", "count", "action", "overflow",
                                                 "used", "complete"})))
      /\ GoodCall(f, AskDma(c, Dma_Get_Fifo_Counts(f, c, {"write", "read"})))
  BY <1>1, DmaOfChannel
<1> DEFINE setups == {OnDmaField(c, Bits(4) \cup Bits(Choose(u, 8)), {2, 3}, Dma_Setup(f, c, 4, u)) :
                        u \in BOOLEAN}
           used == {OnDmaField(c, Bits(Choose(u, 8)), {3}, Dma_Setup_Set_Used(f, c, u)) :
                      u \in BOOLEAN}
           interrupts == {OnDmaField(c, Bits(Choose(e, 1) + 2), {0, 1},
                                     Dma_Configure_Interrupts(f, c, e, TRUE)) : e \in BOOLEAN}
<1>4. /\ \A y \in setups : GoodCall(f, y)
      /\ \A y \in used : GoodCall(f, y)
      /\ \A y \in interrupts : GoodCall(f, y)
  <2>1. \A u \in BOOLEAN : GoodCall(f, OnDmaField(c, Bits(4) \cup Bits(Choose(u, 8)), {2, 3},
                                                  Dma_Setup(f, c, 4, u)))
    BY <1>2
  <2>2. \A u \in BOOLEAN : GoodCall(f, OnDmaField(c, Bits(Choose(u, 8)), {3},
                                                  Dma_Setup_Set_Used(f, c, u)))
    BY <1>2
  <2>3. \A e \in BOOLEAN : GoodCall(f, OnDmaField(c, Bits(Choose(e, 1) + 2), {0, 1},
                                                  Dma_Configure_Interrupts(f, c, e, TRUE)))
    BY <1>2
  <2>4. \A y \in setups : GoodCall(f, y)
    BY <2>1
  <2>5. \A y \in used : GoodCall(f, y)
    BY <2>2
  <2>6. \A y \in interrupts : GoodCall(f, y)
    BY <2>3
  <2> QED BY <2>4, <2>5, <2>6
<1> DEFINE directions == {OnDmaField(c, Bits(d), {2}, Dma_Setup_Set_Direction(f, c, d)) :
                            d \in {0, 3, 4}}
           plans == {Dma_Clear_Interrupt(f, c, {"overflow", "underflow", "used", "invalid",
                                                "complete"}),
                     Dma_Status(f, c, {"buffer", "count", "action", "overflow", "used",
                                       "complete"}),
                     Dma_Get_Fifo_Counts(f, c, {"write", "read"})}
           asked == {AskDma(c, p) : p \in plans}
<1>5. \A y \in directions : GoodCall(f, y)
  <2>1. \A d \in {0, 3, 4} :
          GoodCall(f, OnDmaField(c, Bits(d), {2}, Dma_Setup_Set_Direction(f, c, d)))
    BY <1>2
  <2> QED BY <2>1
<1>6. \A y \in asked : GoodCall(f, y)
  <2>1. \A p \in plans : GoodCall(f, AskDma(c, p))
    BY <1>3
  <2> QED BY <2>1
<1>7. x \in setups \/ x \in directions \/ x \in used \/ x \in interrupts \/ x \in asked
  BY x \in DmaChannelCalls(f, c) DEF DmaChannelCalls
<1> HIDE DEF setups, directions, used, interrupts, asked
<1> QED BY <1>4, <1>5, <1>6, <1>7

(* And those about a buffer.                                               *)
LEMMA DmaBufferGood ==
  ASSUME NEW f, Descriptor(f), NEW c, NEW b, NEW x \in DmaBufferCalls(f, c, b)
  PROVE  GoodCall(f, x)
<1>1. /\ \A field, data, plan : QuietPlan(f, <<"buffer", c, b>>, plan) =>
           GoodCall(f, OnBufferField(c, b, field, data, plan))
      /\ \A plan : QuietPlan(f, <<"buffer", c, b>>, plan) => GoodCall(f, AskBuffer(c, b, plan))
  BY QuietCalls DEF OnBufferField, AskBuffer
<1>2. {} \in SUBSET Int /\ \A d \in {{1}, 2 .. 23, 2 .. 24} : d \in SUBSET Int
  OBVIOUS
<1>3. \A d \in Patterns(5) :
        GoodCall(f, OnBufferField(c, b, "buffer_ctrl", d, Dma_Buffer_Setup(f, c, b, d)))
  BY <1>1, Arguments, DmaOfBuffer
<1>4. \A d \in {{1}, 2 .. 23, 2 .. 24} :
        GoodCall(f, OnBufferField(c, b, "buffer_size", d, Dma_Buffer_Set_Size(f, c, b, d)))
  BY <1>1, <1>2, DmaOfBuffer
<1>5. GoodCall(f, AskBuffer(c, b, Dma_Reset_Buffer(f, c, b)))
  BY <1>1, <1>2, DmaOfBuffer
<1> QED BY ONLY <1>3, <1>4, <1>5, x \in DmaBufferCalls(f, c, b) DEF DmaBufferCalls

(* Whatever a thread calls: each access of the call is one that the driver *)
(* lets through, to the part of the block that the call is about, and an   *)
(* access that enables a source follows one that clears its status.        *)
LEMMA EveryCall ==
  ASSUME NEW f, Descriptor(f), NEW m, NEW x \in Calls(m, f)
  PROVE  GoodCall(f, x)
<1>1. ASSUME NEW y \in GbcCalls
      PROVE  GoodCall(f, y)
  BY BoardCalls
<1>2. ASSUME NEW y \in DmaCalls(f)
      PROVE  GoodCall(f, y)
  <2>1. \A c, b : /\ \A z \in DmaChannelCalls(f, c) : GoodCall(f, z)
                  /\ \A z \in DmaBufferCalls(f, c, b) : GoodCall(f, z)
    BY DmaChannelGood, DmaBufferGood
  <2> QED BY <2>1 DEF DmaCalls
<1>3. ASSUME f.type = FUNC_BLOCK.ADC, NEW y \in AdcCalls(m, f)
      PROVE  GoodCall(f, y)
  <2>1. \A z \in AdcBlockCalls(f) \cup AdcRates(m, f) \cup AdcInterrupts(f) : GoodCall(f, z)
    <3>1. f.type # FUNC_BLOCK.EXT_CLOCKING
      BY <1>3 DEF FUNC_BLOCK
    <3> QED BY <1>3, <3>1, AdcBlockGood, RatesGood, InterruptsGood
  <2>2. \A c : \A z \in AdcChannelCalls(f, c) : GoodCall(f, z)
    BY <1>3, AdcChannelGood
  <2>3. \A c \in Channels(f) : GoodCall(f, AskChannel(c, Adc_Channel_Get_Last_Sample(f, c)))
    <3>1. {} \in SUBSET Int
      OBVIOUS
    <3> QED BY <1>3, <3>1, QuietCalls, AdcOfChannel DEF AskChannel
  <2>4. \/ y \in AdcBlockCalls(f) \cup AdcRates(m, f) \cup AdcInterrupts(f)
        \/ \E c : y \in AdcChannelCalls(f, c)
        \/ \E c \in Channels(f) : y = AskChannel(c, Adc_Channel_Get_Last_Sample(f, c))
    BY <1>3 DEF AdcCalls
  <2> QED BY ONLY <2>1, <2>2, <2>3, <2>4
<1>4. ASSUME f.type = FUNC_BLOCK.DAC, NEW y \in DacCalls(m, f)
      PROVE  GoodCall(f, y)
  <2>1. \A z \in DacBlockCalls(f) \cup DacRates(m, f) \cup DacInterrupts(f) : GoodCall(f, z)
    <3>1. f.type # FUNC_BLOCK.EXT_CLOCKING
      BY <1>4 DEF FUNC_BLOCK
    <3> QED BY <1>4, <3>1, DacBlockGood, RatesGood, InterruptsGood
  <2>2. \A c \in ChannelArgs(f) : \A z \in DacChannelCalls(f, c) : GoodCall(f, z)
    BY <1>4, Arguments, DacChannelGood
  <2>3. \A c \in Channels(f) : \A z \in DacTrustingCalls(f, c) : GoodCall(f, z)
    <3>1. \A c \in Channels(f) : c \in Nat /\ c < NUM_DAC_DMA_CHANNELS
      <4>1. f.num_dma_channels \in Nat /\ f.num_dma_channels <= 4
        BY <1>4, Sizes DEF Descriptor, WellPlaced, FUNC_BLOCK
      <4> QED BY <4>1, Arguments DEF NUM_DAC_DMA_CHANNELS
    <3> QED BY <1>4, <3>1, DacChannelGood
  <2>4. GoodCall(f, Asking("unchecked", AskChannel(150, Dac_Set_Last_Conversion(f, 150, {0}, {0}))))
    BY <1>4, UncheckedCall
  <2>5. \/ y \in DacBlockCalls(f) \cup DacRates(m, f) \cup DacInterrupts(f)
        \/ \E c \in ChannelArgs(f) : y \in DacChannelCalls(f, c)
        \/ \E c \in Channels(f) : y \in DacTrustingCalls(f, c)
        \/ y = Asking("unchecked", AskChannel(150, Dac_Set_Last_Conversion(f, 150, {0}, {0})))
    BY <1>4 DEF DacCalls
  <2> QED BY ONLY <2>1, <2>2, <2>3, <2>4, <2>5
<1>5. ASSUME f.type = FUNC_BLOCK.ADIO, NEW y \in AdioCalls(m, f)
      PROVE  GoodCall(f, y)
  <2>1. \A z \in AdioBlockCalls(f) \cup AdioRates(m, f) \cup AdioInterrupts(f)
                    \cup AdioPinCalls(f) : GoodCall(f, z)
    <3>1. f.type # FUNC_BLOCK.EXT_CLOCKING
      BY <1>5 DEF FUNC_BLOCK
    <3> QED BY <1>5, <3>1, AdioBlockGood, AdioPinsGood, RatesGood, InterruptsGood
  <2>2. \A c : /\ GoodCall(f, AskFifo(c, Adio_Fifo_Channel_Read(f, c)))
               /\ \A d \in Patterns(32) : GoodCall(f, AskFifo(c, Adio_Fifo_Channel_Write(f, c, d)))
    BY <1>5, AdioFifoGood
  <2>3. \/ y \in AdioBlockCalls(f) \cup AdioRates(m, f) \cup AdioInterrupts(f) \cup AdioPinCalls(f)
        \/ \E c : y = AskFifo(c, Adio_Fifo_Channel_Read(f, c))
        \/ \E c : \E d \in Patterns(32) : y = AskFifo(c, Adio_Fifo_Channel_Write(f, c, d))
    BY <1>5 DEF AdioCalls
  <2> QED BY ONLY <2>1, <2>2, <2>3
<1>6. ASSUME f.type = FUNC_BLOCK.EXT_CLOCKING, NEW y \in ExtCalls(f)
      PROVE  GoodCall(f, y)
  BY <1>6, ExtGood
<1>7. ASSUME NEW y \in KindCalls(m, f)
      PROVE  GoodCall(f, y)
  <2>1. /\ f.type = FUNC_BLOCK.ADC => KindCalls(m, f) = AdcCalls(m, f)
        /\ f.type = FUNC_BLOCK.DAC => KindCalls(m, f) = DacCalls(m, f)
        /\ f.type = FUNC_BLOCK.ADIO => KindCalls(m, f) = AdioCalls(m, f)
        /\ f.type = FUNC_BLOCK.EXT_CLOCKING => KindCalls(m, f) = ExtCalls(f)
    BY DEF KindCalls, FUNC_BLOCK
  <2>2. f.type \in Blocks4
    BY DEF Descriptor
  <2> QED BY <1>3, <1>4, <1>5, <1>6, <1>7, <2>1, <2>2 DEF Blocks4
<1> QED BY <1>1, <1>2, <1>7 DEF Calls

(* The least number of a set is one of it.                                 *)
LEMMA LeastMember ==
  ASSUME NEW S \in SUBSET Nat, S # {}
  PROVE  Min(S) \in S
<1>1. PICK x \in S : \A y \in S : ~(<<y, x>> \in OpToRel(<, Nat))
  BY NatLessThanWellFounded, WFMin
<1>2. \A y \in S : <<y, x>> \in OpToRel(<, Nat) <=> y < x
  BY DEF OpToRel
<1>3. \A y \in S : x =< y
  <2> TAKE y \in S
  <2>1. x \in Nat /\ y \in Nat /\ ~(y < x)
    BY <1>1, <1>2
  <2> QED BY <2>1
<1>4. \E z \in S : \A y \in S : z =< y
  BY <1>3
<1> QED BY <1>4 DEF Min

(* Opening a block of a type answers the descriptor that an entry of the   *)
(* table gives, an entry of that type: the search never answers an entry   *)
(* that it could not open.                                                 *)
LEMMA OpenedBlock ==
  ASSUME NEW m, NEW type \in Blocks4, NEW r,
         r = Function_Block_Open_Module(m, type, 0), r.errno = "none"
  PROVE  \E n \in Nat : r.fb = FbDescriptor(m, n) /\ FbType(m, n) = type
<1> DEFINE last == MAX_FB - 1
           failing == {n \in 0 .. last : Function_Block_Open(m, n).errno # "none"}
           wanted == {n \in 0 .. last :
                        /\ FbType(m, n) = type
                        /\ Cardinality({k \in 0 .. n - 1 : FbType(m, k) = type}) = 0}
           choice == CHOOSE n \in wanted : TRUE
<1>1. r = IF failing # {} /\ \A n \in wanted : Min(failing) <= n
            THEN Function_Block_Open(m, Min(failing))
          ELSE IF wanted = {} THEN Rejected("ENODEV")
          ELSE Function_Block_Open(m, choice)
  BY DEF Function_Block_Open_Module
<1>2. failing \in SUBSET Nat
  BY DEF MAX_FB
<1>3. failing # {} => Function_Block_Open(m, Min(failing)).errno # "none"
  <2> SUFFICES ASSUME failing # {} PROVE Min(failing) \in failing
    OBVIOUS
  <2> HIDE DEF failing
  <2> QED BY <1>2, LeastMember
<1>4. Rejected("ENODEV").errno # "none"
  BY DEF Rejected
<1>5. wanted # {} /\ r = Function_Block_Open(m, choice)
  <2> HIDE DEF failing, wanted, choice
  <2> QED BY <1>1, <1>3, <1>4
<1>6. choice \in wanted
  <2> HIDE DEF wanted
  <2> QED BY <1>5
<1>7. choice \in Nat /\ choice < MAX_FB /\ FbType(m, choice) = type
  <2>1. choice \in 0 .. last /\ FbType(m, choice) = type
    BY <1>6
  <2> HIDE DEF choice
  <2> QED BY <2>1 DEF MAX_FB
<1> HIDE DEF failing, wanted, choice
<1>8. ~IsInvalid(type)
  BY DEF IsInvalid, Blocks4, FUNC_BLOCK
<1>9. r.fb = FbDescriptor(m, choice)
  <2> DEFINE d == FbDescriptor(m, choice)
  <2>1. ~(choice >= MAX_FB) /\ ~IsInvalid(FbType(m, choice))
    <3>1. ~(choice >= MAX_FB)
      BY <1>7 DEF MAX_FB
    <3> QED BY <1>7, <1>8, <3>1
  <2> DEFINE errors == HeaderErrors(m, d)
             found == {i \in 1 .. 6 : errors[i] # "none"}
  <2>2. Function_Block_Open(m, choice) = IF found # {} THEN Rejected(errors[Min(found)])
                                         ELSE [errno |-> "none", fb |-> d]
    BY <2>1 DEF Function_Block_Open
  <2>3. found # {} => errors[Min(found)] # "none"
    <3>1. found \in SUBSET Nat /\ \A i \in found : errors[i] # "none"
      OBVIOUS
    <3> HIDE DEF found, errors
    <3> QED BY <3>1, LeastMember
  <2>5. \A e : Rejected(e).errno = e
    BY DEF Rejected
  <2> HIDE DEF d, errors, found
  <2>4. r = [errno |-> "none", fb |-> d]
    BY <1>5, <2>2, <2>3, <2>5
  <2> QED BY <2>4 DEF d
<1> QED BY <1>7, <1>9

(* The descriptor of a block that an application has opened is one of the  *)
(* types that its library knows, with its registers where the layout says, *)
(* on a board whose tables are true.                                       *)
LEMMA OpenedDescriptor ==
  ASSUME NEW m \in Images, NEW r \in Opened(m)
  PROVE  Descriptor(r.fb)
<1>1. r.errno = "none" /\ WellPlaced(r.fb)
  BY ImagesAssumption DEF Opened
<1>2. PICK type \in Blocks4 : r = Function_Block_Open_Module(m, type, 0)
  BY DEF Opened, Adc_Open, Dac_Open, Adio_Open, Ext_Clocking_Open, Blocks4
<1>3. PICK n \in Nat : r.fb = FbDescriptor(m, n) /\ FbType(m, n) = type
  BY <1>1, <1>2, OpenedBlock
<1>4. /\ FbDescriptor(m, n).type = FbType(m, n)
      /\ FbDescriptor(m, n).control_offset = FbDescriptor(m, n).fb_offset + FB.CTRL_START
  BY DEF FbDescriptor
<1> QED BY <1>1, <1>2, <1>3, <1>4 DEF Descriptor
-----------------------------------------------------------------------------
(* What holds of every state.                                              *)

(* A thread is in a call: the accesses that are left are good ones, each   *)
(* prepared by the one before it, and what the next one enables is clear   *)
(* but for what the board has raised since the call began.                 *)
Underway(f, m, seen, w) ==
  /\ w = [accesses |-> w.accesses, call |-> w.call]
  /\ w.accesses \in Seq(GoodAccesses(f, w.call)) /\ w.accesses # <<>>
  /\ w.call.rate \in Nat
  /\ Prepared(f, w.accesses)
  /\ Armed(f, Head(w.accesses)) \cap m["FB"] \subseteq seen

(* The registers lie in their regions.                                     *)
InRegions(m) ==
  /\ m \in [{"GBC", "FB"} -> SUBSET Int]
  /\ \A r \in {"GBC", "FB"} : m[r] \subseteq RegionBits(Length[r])

(* The inductive invariant: before a block is open the registers are those *)
(* of an image, whose tables are true, and no thread is in a call.         *)
IInv ==
  /\ InRegions(mem)
  /\ fb = None => mem \in Images /\ todo = [t \in Callers |-> Idle]
  /\ fb # None => Descriptor(fb)
  /\ todo = [t \in Callers |-> todo[t]]
  /\ fresh = [t \in Callers |-> fresh[t]]
  /\ \A t \in Callers :
       todo[t] = Idle \/ (fb # None /\ Underway(fb, mem, fresh[t], todo[t]))
  /\ rate \in Nat /\ calls \in 0 .. MaxCalls /\ events \in 0 .. MaxEvents
  /\ ~refused
-----------------------------------------------------------------------------
(* What an access does.                                                    *)

(* What the board makes of a write that the driver lets through: it stays  *)
(* in the register, sets no bit but those of the value, where the low half *)
(* masks only those that it names, and clears where ones clear.            *)
LEMMA WriteOfBoard ==
  ASSUME NEW f, NEW m, InRegions(m), NEW a \in Requests, Allowed(a), NEW data,
         NEW n, n = BoardWrite(f, m, a, data)
  PROVE  /\ InRegions(n)
         /\ \A r \in {"GBC", "FB"} : r # a.region => n[r] = m[r]
         /\ \A x : x \notin Window(a.offset, a.size) => (x \in n[a.region] <=> x \in m[a.region])
         /\ \A b \in Width(a.size) :
              8 * a.offset + b \in n[a.region] /\ 8 * a.offset + b \notin m[a.region] =>
                /\ b \in data
                /\ a.region = "FB" /\ a.offset \in Maskable(f) => b - 16 \in data
         /\ a.region = "FB" /\ a.offset \in WriteOneToClear(f) \ Maskable(f) =>
              \A b \in Width(a.size) :
                8 * a.offset + b \in n["FB"] <=> 8 * a.offset + b \in m["FB"] /\ b \notin data
<1> DEFINE old == region_read(m[a.region], a.offset, a.size)
           masked == HighHalf(data \cap Width(16))
           new == CASE a.region = "FB" /\ a.offset \in Maskable(f) ->
                         (old \ masked) \cup (data \cap masked)
                    [] a.region = "FB" /\ a.offset \in WriteOneToClear(f) -> old \ data
                    [] OTHER -> data
           region == a.region
           after == region_write(m[region], a.offset, a.size, new)
<1>1. region \in {"GBC", "FB"} /\ a.offset \in Nat /\ a.size \in {8, 16, 32} /\ a.size \in Nat
  BY DEF Requests
<1>2. n = [m EXCEPT ![region] = after]
  <2>1. n = [m EXCEPT ![a.region] = region_write(@, a.offset, a.size, new)]
    BY DEF BoardWrite
  <2> QED BY <2>1
<1>3. /\ \A b \in Width(a.size) : 8 * a.offset + b \in after <=> b \in new
      /\ \A x : x \notin Window(a.offset, a.size) => (x \in after <=> x \in m[region])
  <2> HIDE DEF new
  <2> QED BY <1>1, BitsAfterWrite
<1>4. \A b \in Width(a.size) : b \in old <=> 8 * a.offset + b \in m[region]
  BY DEF region_read
<1>5. \A b \in masked : b - 16 \in data
  BY DEF HighHalf, Width
<1>6. /\ a.region = "FB" /\ a.offset \in Maskable(f)
           => new = (old \ masked) \cup (data \cap masked) \/ new = old \ data
      /\ a.region = "FB" /\ a.offset \in WriteOneToClear(f) \ Maskable(f) => new = old \ data
      /\ new = (old \ masked) \cup (data \cap masked) \/ new = old \ data \/ new = data
  <2> DEFINE P == a.region = "FB" /\ a.offset \in Maskable(f)
             Q == a.region = "FB" /\ a.offset \in WriteOneToClear(f)
             replaced == (old \ masked) \cup (data \cap masked)
             cleared == old \ data
  <2>1. new = CASE P -> replaced [] Q -> cleared [] OTHER -> data
    OBVIOUS
  <2>2. a.region = "FB" /\ a.offset \in WriteOneToClear(f) \ Maskable(f) => Q /\ ~P
    OBVIOUS
  <2> HIDE DEF P, Q, replaced, cleared, new
  <2>4. (P => new = replaced \/ new = cleared) /\ (Q /\ ~P => new = cleared) /\ (~P /\ ~Q => new = data)
    BY <2>1
  <2> QED BY <2>2, <2>4 DEF P, replaced, cleared
<1>7. after \subseteq RegionBits(Length[region])
  <2>1. m[region] \in SUBSET RegionBits(Length[region])
    BY <1>1 DEF InRegions
  <2> HIDE DEF new
  <2>2. Length \in [{"GBC", "FB"} -> Nat] /\ Length["GBC"] >= 4 /\ Length["FB"] >= 4
    BY LengthAssumption
  <2>3. Bytes(a.size) <= Length[a.region]
    BY <1>1, <2>2, AcceptedFits DEF Allowed, Bytes
  <2> QED BY <1>1, <2>1, <2>2, <2>3, AcceptedStaysInside DEF Allowed
<1> HIDE DEF old, masked, new, after
<1>8. /\ n[region] = after
      /\ \A r \in {"GBC", "FB"} : r # region => n[r] = m[r]
      /\ n \in [{"GBC", "FB"} -> SUBSET Int]
  <2>1. after \in SUBSET Int
    BY <1>7 DEF RegionBits
  <2> HIDE DEF region
  <2> QED BY <1>1, <1>2, <2>1 DEF InRegions
<1>9. InRegions(n)
  <2> HIDE DEF region
  <2> QED BY <1>1, <1>7, <1>8 DEF InRegions
<1>10. \A b \in Width(a.size) :
              8 * a.offset + b \in n[a.region] /\ 8 * a.offset + b \notin m[a.region] =>
                /\ b \in data
                /\ a.region = "FB" /\ a.offset \in Maskable(f) => b - 16 \in data
  BY <1>3, <1>4, <1>5, <1>6, <1>8
<1>11. a.region = "FB" /\ a.offset \in WriteOneToClear(f) \ Maskable(f) =>
              \A b \in Width(a.size) :
                8 * a.offset + b \in n["FB"] <=> 8 * a.offset + b \in m["FB"] /\ b \notin data
  BY <1>3, <1>4, <1>6, <1>8
<1> QED BY <1>3, <1>8, <1>9, <1>10, <1>11

(* The registers of the interrupts of the block and of the channels of an  *)
(* ADC are those where a mask counts, and where ones clear.                *)
LEMMA InterruptRegisters ==
  ASSUME NEW f, Descriptor(f), f.type # FUNC_BLOCK.EXT_CLOCKING
  PROVE  /\ f.control_offset + 24 \in Maskable(f)
         /\ f.control_offset + 30 \in WriteOneToClear(f) \ Maskable(f)
         /\ f.type = FUNC_BLOCK.ADC =>
              \A c \in 0 .. f.num_dma_channels - 1 :
                f.control_offset + 54 + 24 * c \in WriteOneToClear(f) \ Maskable(f)
<1> DEFINE control == f.control_offset
           stride == IF f.type = FUNC_BLOCK.ADC THEN 24 ELSE 20
<1>1. control \in Nat /\ f.num_dma_channels \in Nat /\ stride \in {20, 24}
  BY Sizes
<1>2. ASSUME IsAnalog(f), NEW c \in 0 .. f.num_dma_channels - 1
      PROVE  ChannelStart(f, c) = control + 44 + stride * c
  <2>1. c \in Nat
    BY <1>1
  <2>2. CASE f.type = FUNC_BLOCK.ADC
    <3>1. ChannelStart(f, c) = AdcChannel(f, c, 0)
      BY <2>2 DEF ChannelStart
    <3>2. AdcChannel(f, c, 0) = Base(f, <<"channel", c>>) + 0
      BY <2>2, OnAdcChannel
    <3>3. Base(f, <<"channel", c>>) = control + 44 + 24 * c
      BY <2>2 DEF Base
    <3> QED BY <1>1, <2>1, <2>2, <3>1, <3>2, <3>3
  <2>3. CASE f.type = FUNC_BLOCK.DAC
    <3>1. f.type # FUNC_BLOCK.ADC /\ f.num_dma_channels <= 4
      BY <2>3, Sizes DEF FUNC_BLOCK, Descriptor, WellPlaced
    <3>2. ChannelStart(f, c) = DacChannel(f, c, 0)
      BY <3>1 DEF ChannelStart
    <3>3. DacChannel(f, c, 0) = Base(f, <<"channel", c>>) + 0
      BY <1>1, <2>3, <3>1, OnDacChannel
    <3>4. Base(f, <<"channel", c>>) = control + 44 + 20 * c
      BY <3>1 DEF Base
    <3> QED BY <1>1, <2>1, <3>1, <3>2, <3>3, <3>4
  <2> QED BY <1>2, <2>2, <2>3 DEF IsAnalog
<1>3. /\ ADC.INT_ENABLE = 24 /\ ADC.INT_STAT = 30
      /\ ADC_CHAN.FRONT_END_CONFIG = 0 /\ ADC_CHAN.INTR_STAT = 10
  BY DEF ADC, ADC_CHAN
<1>4. control + 24 \in Maskable(f) /\ control + 30 \in WriteOneToClear(f)
  BY <1>3 DEF Maskable, WriteOneToClear
<1>5. \A x \in Maskable(f) :
        \/ x = control + 24
        \/ /\ IsAnalog(f)
           /\ \E c \in 0 .. f.num_dma_channels - 1 : x = ChannelStart(f, c) + 0
  BY <1>3 DEF Maskable, Offsets
<1>6. ASSUME NEW x \in Maskable(f)
      PROVE  \/ x = control + 24
             \/ \E c \in Nat : x = control + 44 + stride * c
  <2>1. CASE IsAnalog(f) /\ \E c \in 0 .. f.num_dma_channels - 1 : x = ChannelStart(f, c) + 0
    <3>1. PICK c \in 0 .. f.num_dma_channels - 1 : x = ChannelStart(f, c) + 0
      BY <2>1
    <3>2. c \in Nat /\ ChannelStart(f, c) = control + 44 + stride * c
      BY <1>1, <1>2, <2>1, <3>1
    <3> HIDE DEF control, stride
    <3>3. x = control + 44 + stride * c
      BY <1>1, <3>1, <3>2
    <3> QED BY <3>2, <3>3
  <2> QED BY <1>5, <2>1
<1>7. control + 30 \notin Maskable(f)
  <2> HIDE DEF control, stride
  <2> SUFFICES ASSUME NEW c \in Nat PROVE control + 30 # control + 44 + stride * c
    BY <1>1, <1>6
  <2> QED BY <1>1
<1>8. ASSUME f.type = FUNC_BLOCK.ADC, NEW c \in 0 .. f.num_dma_channels - 1
      PROVE  control + 54 + 24 * c \in WriteOneToClear(f) \ Maskable(f)
  <2>1. c \in Nat /\ IsAnalog(f) /\ stride = 24
    BY <1>1, <1>8 DEF IsAnalog
  <2>2. ChannelStart(f, c) + 10 \in WriteOneToClear(f)
    BY <1>3, <1>8, <2>1 DEF WriteOneToClear, Offsets
  <2>3. ChannelStart(f, c) + 10 = control + 54 + 24 * c
    BY <1>1, <1>2, <2>1
  <2> HIDE DEF control, stride
  <2>4. control + 54 + 24 * c \notin Maskable(f)
    <3> SUFFICES ASSUME NEW d \in Nat PROVE control + 54 + 24 * c # control + 44 + 24 * d
      BY <1>1, <1>6, <2>1
    <3> QED BY <1>1, <2>1
  <2> QED BY <2>2, <2>3, <2>4
<1> QED BY <1>4, <1>7, <1>8

(* What an access of a call does.  The registers stay in their regions;    *)
(* none changes but those of the part of the block, or of the board's own  *)
(* registers, that the call is about; no status bit is set; and a source   *)
(* becomes enabled only when the access arms it.                           *)
LEMMA Performed ==
  ASSUME NEW f, Descriptor(f), NEW m, InRegions(m), NEW c, NEW a \in GoodAccesses(f, c),
         NEW n, n = Perform(f, m, a)
  PROVE  /\ InRegions(n)
         /\ (n["FB"] \ m["FB"]) \cup (m["FB"] \ n["FB"]) \subseteq Extent(f, c.owner)
         /\ (n["GBC"] \ m["GBC"]) \cup (m["GBC"] \ n["GBC"])
              \subseteq (IF c.owner[1] = "board" THEN 16 .. 31 ELSE {})
         /\ Allowed(a) \/ c.asks = "unchecked"
         /\ \A p \in EnablePairs(f) :
              /\ p[2] \in n["FB"] => p[2] \in m["FB"]
              /\ p[1] \in n["FB"] \ m["FB"] => p[2] \in Armed(f, a)
         /\ Cleared(f, a) \cap n["FB"] = {}
<1> DEFINE window == Window(a.offset, a.size)
<1>1. a \in Requests /\ GoodAccess(f, c, a)
  BY DEF GoodAccesses
<1>2. /\ a.region \in {"GBC", "FB"} /\ a.op \in Ops
      /\ a.offset \in Nat /\ a.size \in {8, 16, 32} /\ a.size \in Nat
  BY <1>1 DEF Requests
<1>3. Allowed(a) \/ c.asks = "unchecked"
  BY <1>1 DEF GoodAccess
<1>4. a.region = "FB" => window \subseteq Extent(f, c.owner) /\ Calm(f, a)
  BY <1>1 DEF GoodAccess
<1>5. a.region = "GBC" =>
        a.op = "read" \/ (c.owner[1] = "board" /\ window \subseteq 16 .. 31)
  BY <1>1 DEF GoodAccess
\* An access that clears is let through: it is to the block or to a channel.
<1>6. a.region = "FB" /\ (ClearsBlock(f, a) \/ ClearsChannel(f, a)) => Allowed(a)
  <2>1. CASE a.region = "FB" /\ ClearsBlock(f, a)
    <3> DEFINE o == <<"block">>
    <3>1. o \in Owners(f) /\ Base(f, o) = f.control_offset /\ Room(f, o) \in {40, 44}
      BY <2>1, Sizes DEF ClearsBlock, Owners, Base, Room, FUNC_BLOCK
    <3>2. a.offset = Base(f, o) + 30 /\ a.size = 8 * 2 /\ 30 % 2 = 0 /\ 30 + 2 <= Room(f, o)
      BY <2>1, <3>1 DEF ClearsBlock
    <3> QED BY <1>1, <2>1, <3>1, <3>2, Inside
  <2>2. CASE a.region = "FB" /\ ClearsChannel(f, a)
    <3>1. PICK d \in 0 .. f.num_dma_channels - 1 : a.offset = f.control_offset + 54 + 24 * d
      BY <2>2 DEF ClearsChannel
    <3> DEFINE o == <<"channel", d>>
    <3>2. f.type = FUNC_BLOCK.ADC /\ a.size = 8
      BY <2>2 DEF ClearsChannel
    <3>3. o \in Owners(f) /\ Base(f, o) = f.control_offset + 44 + 24 * d /\ Room(f, o) = 24
      BY <3>2, OnAdcChannel DEF Base, Room
    <3>4. f.control_offset \in Nat /\ d \in Nat
      BY Sizes
    <3>5. a.offset = Base(f, o) + 10 /\ a.size = 8 * 1 /\ 10 % 1 = 0 /\ 10 + 1 <= Room(f, o)
      BY <3>1, <3>2, <3>3, <3>4
    <3> QED BY <1>1, <2>2, <3>3, <3>5, Inside
  <2> QED BY <2>1, <2>2
<1>7. CASE ~Allowed(a) \/ a.op = "read"
  <2>1. n = m
    BY <1>7 DEF Perform
  <2>2. Cleared(f, a) = {}
    BY <1>6, <1>7 DEF Cleared, ClearsBlock, ClearsChannel
  <2> QED BY <1>3, <2>1, <2>2
<1>8. CASE Allowed(a) /\ a.op # "read"
  <2> DEFINE Value(data) == /\ n = BoardWrite(f, m, a, data)
                            /\ a.op = "write" => data = a.data
                            /\ a.op = "modify" =>
                                 data = modified(region_read(m[a.region], a.offset, a.size),
                                                 a.data, a.mask)
  <2>1. PICK data : Value(data)
    <3>1. CASE a.op = "write"
      BY <1>8, <3>1 DEF Perform
    <3>2. CASE a.op = "modify"
      BY <1>8, <3>2 DEF Perform
    <3> QED BY <1>2, <1>8, <3>1, <3>2 DEF Ops
  <2>2. /\ InRegions(n)
        /\ \A r \in {"GBC", "FB"} : r # a.region => n[r] = m[r]
        /\ \A x : x \notin window => (x \in n[a.region] <=> x \in m[a.region])
        /\ \A b \in Width(a.size) :
              8 * a.offset + b \in n[a.region] /\ 8 * a.offset + b \notin m[a.region] =>
                /\ b \in data
                /\ a.region = "FB" /\ a.offset \in Maskable(f) => b - 16 \in data
        /\ a.region = "FB" /\ a.offset \in WriteOneToClear(f) \ Maskable(f) =>
              \A b \in Width(a.size) :
                8 * a.offset + b \in n["FB"] <=> 8 * a.offset + b \in m["FB"] /\ b \notin data
    BY <1>1, <1>8, <2>1, WriteOfBoard
  <2>3. (n["FB"] \ m["FB"]) \cup (m["FB"] \ n["FB"]) \subseteq Extent(f, c.owner)
    <3>1. CASE a.region = "FB"
      BY <1>4, <2>2, <3>1
    <3>2. CASE a.region = "GBC"
      BY <2>2, <3>2
    <3> QED BY <1>2, <3>1, <3>2
  <2>4. (n["GBC"] \ m["GBC"]) \cup (m["GBC"] \ n["GBC"])
              \subseteq (IF c.owner[1] = "board" THEN 16 .. 31 ELSE {})
    <3>1. CASE a.region = "FB"
      BY <2>2, <3>1
    <3>2. CASE a.region = "GBC"
      BY <1>5, <1>8, <2>2, <3>2
    <3> QED BY <1>2, <3>1, <3>2
  <2>5. a.region = "FB" /\ ClearsBlock(f, a) =>
          a.offset \in WriteOneToClear(f) \ Maskable(f) /\ a.size = 16 /\ data = a.data
    BY <2>1, InterruptRegisters DEF ClearsBlock
  <2>6. a.region = "FB" /\ ClearsChannel(f, a) =>
          /\ a.offset \in WriteOneToClear(f) \ Maskable(f) /\ a.size = 8
          /\ data = modified(region_read(m["FB"], a.offset, a.size), Width(8), a.mask)
    <3> SUFFICES ASSUME a.region = "FB", ClearsChannel(f, a)
                 PROVE  /\ a.offset \in WriteOneToClear(f) \ Maskable(f) /\ a.size = 8
                        /\ data = modified(region_read(m["FB"], a.offset, a.size), Width(8), a.mask)
      OBVIOUS
    <3>1. /\ f.type = FUNC_BLOCK.ADC /\ a.op = "modify" /\ a.size = 8 /\ a.data = Width(8)
          /\ \E d \in 0 .. f.num_dma_channels - 1 : a.offset = f.control_offset + 54 + 24 * d
      BY DEF ClearsChannel
    <3>2. f.type # FUNC_BLOCK.EXT_CLOCKING
      BY <3>1 DEF FUNC_BLOCK
    <3>3. a.offset \in WriteOneToClear(f) \ Maskable(f)
      BY <3>1, <3>2, InterruptRegisters
    <3> QED BY <2>1, <3>1, <3>3
  <2> HIDE DEF Value
  <2>7. Cleared(f, a) \cap n["FB"] = {}
    <3>1. CASE a.region = "FB" /\ ClearsBlock(f, a)
      <4>1. Cleared(f, a) = {8 * a.offset + b : b \in a.data \cap Width(16)}
        BY <3>1 DEF Cleared
      <4> QED BY <2>2, <2>5, <3>1, <4>1
    <3>2. CASE a.region = "FB" /\ ~ClearsBlock(f, a) /\ ClearsChannel(f, a)
      <4>1. Cleared(f, a) = window
        BY <3>2 DEF Cleared
      <4> SUFFICES ASSUME NEW x \in window, x \in n["FB"]
                   PROVE  FALSE
        BY <4>1
      <4>2. PICK b \in Width(a.size) : x = 8 * a.offset + b
        BY <1>2, WindowIsWidth
      <4>3. x \in m["FB"] /\ b \notin data /\ b \in Width(8)
        BY <2>2, <2>6, <3>2, <4>2
      <4>4. b \in region_read(m["FB"], a.offset, a.size)
        BY <4>2, <4>3 DEF region_read
      <4> QED BY <2>6, <3>2, <4>3, <4>4 DEF modified
    <3> QED BY <3>1, <3>2 DEF Cleared
  <2>8. ASSUME NEW p \in EnablePairs(f)
        PROVE  /\ p[2] \in n["FB"] => p[2] \in m["FB"]
               /\ p[1] \in n["FB"] \ m["FB"] => p[2] \in Armed(f, a)
    <3> DEFINE control == f.control_offset
    <3>1. CASE a.region = "GBC" \/ window \cap Watched(f) = {}
      BY <1>2, <2>2, <3>1 DEF Watched
    <3>2. CASE a.region = "FB" /\ (ClearsBlock(f, a) \/ ClearsChannel(f, a))
      <4>1. \A b \in Width(a.size) :
                8 * a.offset + b \in n["FB"] => 8 * a.offset + b \in m["FB"]
        BY <2>2, <2>5, <2>6, <3>2
      <4>2. \A x \in n["FB"] : x \in m["FB"]
        BY <1>2, <2>2, <3>2, <4>1, WindowIsWidth
      <4> QED BY <4>2
    <3>3. /\ control \in Nat
          /\ \/ \E b \in 0 .. 15 : /\ p[1] = 8 * (control + 26) + b
                                  /\ p[2] = 8 * (control + 30) + b
             \/ \E d \in Nat, b \in 0 .. 7 : /\ p[1] = 8 * (control + 55 + 24 * d) + b
                                            /\ p[2] = 8 * (control + 54 + 24 * d) + b
      <4>1. control \in Nat /\ 0 .. f.num_dma_channels - 1 \subseteq Nat
        BY Sizes
      <4> QED BY <4>1, PairPlaces
    <3> HIDE DEF control
    <3>4. CASE a.region = "FB" /\ EnablesBlock(f, a)
      <4>1. /\ f.type # FUNC_BLOCK.EXT_CLOCKING
            /\ a.op = "write" /\ a.offset = control + 24 /\ a.size = 32
        BY <3>4 DEF EnablesBlock, control
      <4>2. data = a.data /\ a.offset \in Maskable(f)
        BY <2>1, <4>1, InterruptRegisters DEF Value, control
      <4>3. window = 8 * (control + 24) .. 8 * (control + 28) - 1
        BY <3>3, <4>1 DEF Window
      <4>4. p[2] \notin window
        BY <3>3, <4>3
      <4>5. ASSUME p[1] \in n["FB"] \ m["FB"]
            PROVE  p[2] \in Armed(f, a)
        <5>1. p[1] \in window
          BY <2>2, <3>4, <4>5
        <5>2. PICK b \in Width(a.size) : p[1] = 8 * a.offset + b
          BY <1>2, <5>1, WindowIsWidth
        <5>3. b \in a.data /\ b - 16 \in a.data
          BY <2>2, <3>4, <4>2, <4>5, <5>2
        <5>4. p[1] - 8 * a.offset = b
          BY <1>2, <5>2 DEF Width
        <5>5. Enabling(a, p[1] - 8 * a.offset)
          BY <4>1, <5>3, <5>4 DEF Enabling
        <5> QED BY <3>4, <4>1, <5>1, <5>5 DEF Armed
      <4> QED BY <2>2, <3>4, <4>4, <4>5
    <3>5. CASE a.region = "FB" /\ EnablesChannel(f, a)
      <4>1. PICK d \in 0 .. f.num_dma_channels - 1 : a.offset = control + 55 + 24 * d
        BY <3>5 DEF EnablesChannel, control
      <4>2. d \in Nat /\ a.op = "modify" /\ a.size = 8
        BY <3>5, Sizes DEF EnablesChannel
      <4>3. window = 8 * (control + 55 + 24 * d) .. 8 * (control + 56 + 24 * d) - 1
        BY <3>3, <4>1, <4>2 DEF Window
      <4>4. p[2] \notin window
        <5> HIDE DEF window
        <5>1. CASE \E b \in 0 .. 15 : p[2] = 8 * (control + 30) + b
          BY <3>3, <4>2, <4>3, <5>1
        <5>2. ASSUME NEW e \in Nat, NEW b \in 0 .. 7, p[2] = 8 * (control + 54 + 24 * e) + b
              PROVE  p[2] \notin window
          <6>1. 54 + 24 * e # 55 + 24 * d
            BY <4>2
          <6> QED BY <3>3, <4>2, <4>3, <5>2, <6>1
        <5> QED BY <3>3, <5>1, <5>2
      <4>5. ASSUME p[1] \in n["FB"] \ m["FB"]
            PROVE  p[2] \in Armed(f, a)
        <5>1. p[1] \in window
          BY <2>2, <3>5, <4>5
        <5>2. PICK b \in Width(a.size) : p[1] = 8 * a.offset + b
          BY <1>2, <5>1, WindowIsWidth
        <5>3. b \in data /\ b \notin region_read(m["FB"], a.offset, a.size)
          BY <2>2, <3>5, <4>5, <5>2 DEF region_read
        <5>4. b \in a.data /\ b \in a.mask
          BY <2>1, <3>5, <4>2, <5>3 DEF Value, modified
        <5>5. p[1] - 8 * a.offset = b
          BY <1>2, <5>2 DEF Width
        <5>6. Enabling(a, p[1] - 8 * a.offset)
          BY <4>2, <5>4, <5>5 DEF Enabling
        <5> QED BY <3>5, <4>2, <5>1, <5>6 DEF Armed
      <4> QED BY <2>2, <3>5, <4>4, <4>5
    <3> QED BY <1>2, <1>4, <1>8, <3>1, <3>2, <3>4, <3>5 DEF Calm
  <2> QED BY <1>3, <2>2, <2>3, <2>4, <2>7, <2>8
<1> QED BY <1>2, <1>7, <1>8

(* What a call has left when its first access is done.                     *)
LEMMA Rest ==
  ASSUME NEW f, NEW S, NEW s \in Seq(S), s # <<>>, Prepared(f, s)
  PROVE  /\ Head(s) \in S /\ Tail(s) \in Seq(S)
         /\ Prepared(f, Tail(s))
         /\ Tail(s) # <<>> => Armed(f, Head(Tail(s))) \subseteq Cleared(f, Head(s))
<1>1. /\ Head(s) \in S /\ Tail(s) \in Seq(S) /\ Head(s) = s[1]
      /\ Len(Tail(s)) = Len(s) - 1
      /\ \A i \in 1 .. Len(Tail(s)) : Tail(s)[i] = s[i + 1]
  BY HeadTailProperties
<1>2. Len(s) \in Nat /\ Len(Tail(s)) \in Nat
  BY <1>1
<1>3. ASSUME NEW i \in 2 .. Len(Tail(s))
      PROVE  Armed(f, Tail(s)[i]) \subseteq Cleared(f, Tail(s)[i - 1])
  <2>1. /\ i + 1 \in 2 .. Len(s) /\ i \in 1 .. Len(Tail(s)) /\ i - 1 \in 1 .. Len(Tail(s))
        /\ (i + 1) - 1 = i /\ (i - 1) + 1 = i
    BY <1>1, <1>2
  <2>2. Tail(s)[i] = s[i + 1] /\ Tail(s)[i - 1] = s[i]
    BY <1>1, <2>1
  <2> QED BY <2>1, <2>2 DEF Prepared
<1>4. ASSUME Tail(s) # <<>>
      PROVE  Armed(f, Head(Tail(s))) \subseteq Cleared(f, Head(s))
  <2>1. Len(Tail(s)) # 0
    BY <1>1, <1>4, EmptySeq
  <2>2. 1 \in 1 .. Len(Tail(s)) /\ 2 \in 2 .. Len(s) /\ 1 + 1 = 2 /\ 2 - 1 = 1
    BY <1>1, <1>2, <2>1
  <2>3. Head(Tail(s)) = Tail(s)[1]
    BY <1>1, <1>4, HeadTailProperties
  <2>4. Head(Tail(s)) = s[2]
    BY <1>1, <2>2, <2>3
  <2> QED BY <1>1, <2>2, <2>4 DEF Prepared
<1> QED BY <1>1, <1>3, <1>4 DEF Prepared

(* What a step of another thread, or an event that the thread sees, leaves *)
(* of a thread that is in a call.                                          *)
LEMMA StillUnderway ==
  ASSUME NEW f, NEW m, NEW n, NEW seen, NEW also, NEW w, Underway(f, m, seen, w),
         \A p \in EnablePairs(f) : p[2] \in n["FB"] => p[2] \in m["FB"] \/ p[2] \in also
  PROVE  Underway(f, n, seen \cup also, w)
<1>1. \A x \in Armed(f, Head(w.accesses)) : \E p \in EnablePairs(f) : x = p[2]
  BY DEF Armed
<1> QED BY <1>1 DEF Underway

(* The status bits that the board sets are registers of the block.         *)
LEMMA StatusInRegion ==
  ASSUME NEW f, Descriptor(f), NEW b \in StatusBits(f)
  PROVE  b \in RegionBits(Length["FB"])
<1> DEFINE control == f.control_offset
           length == Length["FB"]
<1>1. /\ control \in Nat /\ length \in Nat /\ f.fb_offset \in Nat /\ control = f.fb_offset + 8
      /\ f.num_dma_channels \in Nat /\ f.num_dma_channels <= ChannelSlots(f)
      /\ f.fb_offset + BlockSize(f) <= length
  BY Sizes, LengthAssumption DEF Descriptor, WellPlaced
<1>2. f.type # FUNC_BLOCK.EXT_CLOCKING
  BY DEF StatusBits
<1>3. /\ f.type = 4096 => ChannelSlots(f) = 32 /\ BlockSize(f) = 948
      /\ f.type = 8192 => ChannelSlots(f) = 4 /\ BlockSize(f) = 148
      /\ f.type = 12289 => BlockSize(f) = 92
      /\ f.type \in {4096, 8192, 12289}
  BY <1>2, Sizes DEF FUNC_BLOCK
<1>4. \/ b = 8 * (control + 30)
      \/ /\ IsAnalog(f)
         /\ \E c \in Channels(f) : b = 8 * (ChannelStart(f, c) + 10) + 1
  BY <1>2 DEF StatusBits, ADC, ADC_CHAN
<1>5. CASE b = 8 * (control + 30)
  <2> HIDE DEF control, length
  <2>1. b \in 0 .. 8 * length - 1
    BY <1>1, <1>3, <1>5
  <2> QED BY <2>1 DEF RegionBits, length
<1>6. ASSUME IsAnalog(f), NEW c \in Channels(f), b = 8 * (ChannelStart(f, c) + 10) + 1
      PROVE  b \in RegionBits(Length["FB"])
  <2> DEFINE o == <<"channel", c>>
  <2>1. c \in 0 .. f.num_dma_channels - 1
    BY DEF Channels
  <2>2. o \in Owners(f) /\ ChannelStart(f, c) = Base(f, o) + 0
    <3>1. CASE f.type = FUNC_BLOCK.ADC
      BY <2>1, <3>1, OnAdcChannel DEF ChannelStart
    <3>2. CASE f.type = FUNC_BLOCK.DAC
      <4>1. c \in 0 .. 3 /\ f.type # FUNC_BLOCK.ADC
        BY <1>1, <1>3, <2>1, <3>2 DEF FUNC_BLOCK
      <4> QED BY <3>2, <4>1, OnDacChannel DEF ChannelStart
    <3> QED BY <1>6, <3>1, <3>2 DEF IsAnalog
  <2>3. Base(f, o) \in Nat /\ Base(f, o) + Room(f, o) <= length /\ Room(f, o) \in {20, 24}
    <3>1. Room(f, o) \in {20, 24}
      BY DEF Room
    <3> QED BY <2>2, <3>1, PartPlaced
  <2> HIDE DEF length, o
  <2>4. b \in 0 .. 8 * length - 1
    BY <1>1, <1>6, <2>2, <2>3
  <2> QED BY <2>4 DEF RegionBits, length
<1> QED BY <1>4, <1>5, <1>6

-----------------------------------------------------------------------------
(* The registers of an image lie in their regions, and no thread is in a   *)
(* call.                                                                   *)
LEMMA InitInv == Init => IInv
<1> SUFFICES ASSUME Init PROVE IInv
  OBVIOUS
<1>1. mem \in Images /\ fb = None
  BY DEF Init
<1>2. InRegions(mem)
  BY <1>1, ImagesAssumption DEF InRegions, RegionBits
<1> QED BY <1>1, <1>2, BoundsAssumption DEF Init, IInv

(* Opening finds a block as the tables describe it.                        *)
LEMMA OpenInv == IInv /\ Open => IInv'
<1> SUFFICES ASSUME IInv, Open PROVE IInv'
  OBVIOUS
<1>1. fb = None /\ mem \in Images /\ todo = [t \in Callers |-> Idle]
  BY DEF IInv, Open
<1>2. UNCHANGED <<mem, todo, setup, rate, refused, fresh, calls, events>>
  BY DEF Open
<1>3. Descriptor(fb')
  BY <1>1, OpenedDescriptor DEF Open
<1>4. \A t \in Callers : todo'[t] = Idle
  BY <1>1, <1>2
<1> QED BY <1>1, <1>2, <1>3, <1>4 DEF IInv

(* An event of the board sets a bit that every thread in a call gets to    *)
(* see.                                                                    *)
LEMMA BoardEventInv == IInv /\ BoardEvent => IInv'
<1> SUFFICES ASSUME IInv, BoardEvent PROVE IInv'
  OBVIOUS
<1>1. /\ fb # None /\ events < MaxEvents /\ events' = events + 1
      /\ UNCHANGED <<fb, todo, shadow, setup, rate, refused, calls>>
  BY DEF BoardEvent
<1>2. Descriptor(fb) /\ events \in 0 .. MaxEvents /\ InRegions(mem)
  BY <1>1 DEF IInv
<1>3. PICK b \in StatusBits(fb) :
        /\ mem' = [mem EXCEPT !["FB"] = @ \cup {b}]
        /\ fresh' = [t \in Callers |-> IF todo[t] = Idle THEN fresh[t] ELSE fresh[t] \cup {b}]
  BY DEF BoardEvent
<1>4. b \in RegionBits(Length["FB"])
  BY <1>2, StatusInRegion
<1>5. mem'["FB"] = mem["FB"] \cup {b} /\ InRegions(mem')
  <2>1. mem \in [{"GBC", "FB"} -> SUBSET Int] /\ b \in Int
    BY <1>2, <1>4 DEF InRegions, RegionBits
  <2>2. /\ mem'["FB"] = mem["FB"] \cup {b} /\ mem'["GBC"] = mem["GBC"]
        /\ mem' \in [{"GBC", "FB"} -> SUBSET Int]
    BY <1>3, <2>1
  <2> QED BY <1>2, <1>4, <2>2 DEF InRegions
<1>6. ASSUME NEW t \in Callers, todo[t] # Idle
      PROVE  Underway(fb, mem', fresh'[t], todo[t])
  <2>1. Underway(fb, mem, fresh[t], todo[t])
    BY <1>6 DEF IInv
  <2>2. fresh'[t] = fresh[t] \cup {b}
    BY <1>3, <1>6
  <2>3. \A p \in EnablePairs(fb) : p[2] \in mem'["FB"] => p[2] \in mem["FB"] \/ p[2] \in {b}
    BY <1>5
  <2>4. Underway(fb, mem', fresh[t] \cup {b}, todo[t])
    BY ONLY <2>1, <2>3, StillUnderway
  <2> QED BY <2>2, <2>4
<1>7. events' \in 0 .. MaxEvents
  BY <1>1, <1>2, BoundsAssumption
<1>8. fresh' = [t \in Callers |-> fresh'[t]]
  BY <1>3
<1> QED BY <1>1, <1>2, <1>5, <1>6, <1>7, <1>8 DEF IInv

(* A call begins with accesses that are good, the first of which enables   *)
(* nothing.                                                                *)
LEMMA BeginInv == ASSUME NEW t \in Callers PROVE IInv /\ Begin(t) => IInv'
<1> SUFFICES ASSUME IInv, Begin(t) PROVE IInv'
  OBVIOUS
<1>1. /\ fb # None /\ calls < MaxCalls /\ calls' = calls + 1
      /\ fresh' = [fresh EXCEPT ![t] = {}]
      /\ UNCHANGED <<mem, fb, shadow, setup, rate, refused, events>>
  BY DEF Begin
<1>2. Descriptor(fb) /\ calls \in 0 .. MaxCalls
  BY <1>1 DEF IInv
<1>3. PICK c \in Calls(mem, fb) :
        todo' = [todo EXCEPT ![t] = IF c.plan.errno = "none"
                                     THEN [accesses |-> c.plan.accesses, call |-> c]
                                     ELSE Idle]
  BY DEF Begin
<1>4. GoodCall(fb, c)
  BY <1>2, EveryCall
<1>5. /\ todo' = [u \in Callers |-> todo'[u]]
      /\ todo'[t] = IF c.plan.errno = "none" THEN [accesses |-> c.plan.accesses, call |-> c]
                                             ELSE Idle
      /\ \A u \in Callers : u # t => todo'[u] = todo[u]
      /\ fresh' = [u \in Callers |-> fresh'[u]]
      /\ fresh'[t] = {}
      /\ \A u \in Callers : u # t => fresh'[u] = fresh[u]
  BY <1>1, <1>3 DEF IInv
<1>6. ASSUME c.plan.errno = "none"
      PROVE  Underway(fb, mem, {}, [accesses |-> c.plan.accesses, call |-> c])
  <2> DEFINE s == c.plan.accesses
  <2>1. /\ c.rate \in Nat /\ s \in Seq(GoodAccesses(fb, c)) /\ s # <<>>
        /\ Armed(fb, s[1]) = {} /\ Prepared(fb, s)
    BY <1>4, <1>6 DEF GoodCall
  <2> HIDE DEF s
  <2>2. Head(s) = s[1]
    BY <2>1
  <2> QED BY <2>1, <2>2 DEF Underway, s
<1>7. ASSUME NEW u \in Callers
      PROVE  todo'[u] = Idle \/ Underway(fb, mem, fresh'[u], todo'[u])
  <2>1. CASE u = t
    BY <1>5, <1>6, <2>1
  <2>2. CASE u # t
    BY <1>5, <2>2 DEF IInv
  <2> QED BY <2>1, <2>2
<1>8. calls' \in 0 .. MaxCalls
  BY <1>1, <1>2, BoundsAssumption
<1> QED BY <1>1, <1>5, <1>7, <1>8 DEF IInv

(* A step of a call: what it does to the registers, and what it leaves.    *)
LEMMA Continued ==
  ASSUME NEW t \in Callers, IInv, Continue(t)
  PROVE  /\ Descriptor(fb) /\ InRegions(mem)
         /\ Underway(fb, mem, fresh[t], todo[t])
         /\ Head(todo[t].accesses) \in GoodAccesses(fb, todo[t].call)
         /\ mem' = Perform(fb, mem, Head(todo[t].accesses))
         /\ \A u \in Callers : u # t => todo'[u] = todo[u]
         /\ UNCHANGED <<fb, fresh, calls, events>>
<1>1. todo[t] # Idle /\ UNCHANGED <<fb, fresh, calls, events>>
  BY DEF Continue
<1>2. fb # None /\ Descriptor(fb) /\ InRegions(mem) /\ Underway(fb, mem, fresh[t], todo[t])
  BY <1>1 DEF IInv
<1>3. Head(todo[t].accesses) \in GoodAccesses(fb, todo[t].call)
  BY <1>2, Rest DEF Underway
<1>4. Step(t, todo[t].call, Head(todo[t].accesses), Tail(todo[t].accesses))
  BY DEF Continue
<1>5. mem' = Perform(fb, mem, Head(todo[t].accesses))
  BY <1>4 DEF Step
<1>6. \A u \in Callers : u # t => todo'[u] = todo[u]
  BY <1>4 DEF Step, IInv
<1> QED BY <1>1, <1>2, <1>3, <1>5, <1>6

(* An access of a call clears what the next one enables, and leaves the    *)
(* calls of the other threads as prepared as they were.                    *)
LEMMA ContinueInv == ASSUME NEW t \in Callers PROVE IInv /\ Continue(t) => IInv'
<1> SUFFICES ASSUME IInv, Continue(t) PROVE IInv'
  OBVIOUS
<1> DEFINE s == todo[t].accesses
           c == todo[t].call
           a == Head(s)
           rest == Tail(s)
<1>1. /\ Descriptor(fb) /\ InRegions(mem) /\ Underway(fb, mem, fresh[t], todo[t])
      /\ a \in GoodAccesses(fb, c) /\ mem' = Perform(fb, mem, a)
      /\ \A u \in Callers : u # t => todo'[u] = todo[u]
      /\ UNCHANGED <<fb, fresh, calls, events>>
  BY Continued
<1>2. /\ InRegions(mem')
      /\ Allowed(a) \/ c.asks = "unchecked"
      /\ \A p \in EnablePairs(fb) : p[2] \in mem'["FB"] => p[2] \in mem["FB"]
      /\ Cleared(fb, a) \cap mem'["FB"] = {}
  BY <1>1, Performed
<1>3. /\ s \in Seq(GoodAccesses(fb, c)) /\ s # <<>> /\ Prepared(fb, s) /\ c.rate \in Nat
  BY <1>1 DEF Underway
<1>4. /\ rest \in Seq(GoodAccesses(fb, c)) /\ Prepared(fb, rest)
      /\ rest # <<>> => Armed(fb, Head(rest)) \subseteq Cleared(fb, a)
  <2> HIDE DEF s, c
  <2> QED BY <1>3, Rest
<1>5. Step(t, c, a, rest)
  BY DEF Continue
<1>6. /\ refused' = (refused \/ (~Allowed(a) /\ c.asks # "unchecked"))
      /\ todo' = [todo EXCEPT ![t] = IF rest = <<>> THEN Idle
                                     ELSE [accesses |-> rest, call |-> c]]
      /\ rate' = IF c.field[1] = "clk_div" THEN c.rate ELSE rate
  BY <1>5 DEF Step
<1> HIDE DEF s, c, a, rest
<1>7. /\ todo' = [u \in Callers |-> todo'[u]]
      /\ todo'[t] = IF rest = <<>> THEN Idle ELSE [accesses |-> rest, call |-> c]
  BY <1>6 DEF IInv
<1>8. ~refused' /\ rate' \in Nat
  BY <1>2, <1>3, <1>6 DEF IInv
<1>9. ASSUME rest # <<>>
      PROVE  Underway(fb, mem', fresh[t], [accesses |-> rest, call |-> c])
  BY <1>2, <1>3, <1>4, <1>9 DEF Underway
<1>10. ASSUME NEW u \in Callers
       PROVE  todo'[u] = Idle \/ (fb # None /\ Underway(fb, mem', fresh[u], todo'[u]))
  <2>1. fb # None
    BY DEF Continue, IInv
  <2>2. CASE u = t
    BY <1>7, <1>9, <2>1, <2>2
  <2>3. CASE u # t
    <3>1. todo'[u] = todo[u]
      BY <1>1, <2>3
    <3>2. ASSUME todo[u] # Idle
          PROVE  Underway(fb, mem', fresh[u] \cup {}, todo[u])
      <4>1. Underway(fb, mem, fresh[u], todo[u])
        BY <3>2 DEF IInv
      <4> QED BY <1>2, <4>1, StillUnderway
    <3>3. fresh[u] \cup {} = fresh[u]
      OBVIOUS
    <3> QED BY <2>1, <3>1, <3>2, <3>3
  <2> QED BY <2>2, <2>3
<1>11. fb # None
  BY DEF Continue, IInv
<1> QED BY <1>1, <1>2, <1>7, <1>8, <1>10, <1>11 DEF IInv

(* Each step keeps the invariant.                                          *)
LEMMA NextInv == IInv /\ [Next]_vars => IInv'
<1> SUFFICES ASSUME IInv, [Next]_vars PROVE IInv'
  OBVIOUS
<1>1. CASE Open
  BY <1>1, OpenInv
<1>2. CASE BoardEvent
  BY <1>2, BoardEventInv
<1>3. ASSUME NEW t \in Callers, Begin(t) PROVE IInv'
  BY <1>3, BeginInv
<1>4. ASSUME NEW t \in Callers, Continue(t) PROVE IInv'
  BY <1>4, ContinueInv
<1>5. CASE UNCHANGED vars
  BY <1>5 DEF vars, IInv
<1> QED BY <1>1, <1>2, <1>3, <1>4, <1>5 DEF Next

(* The inductive invariant holds of every state: whatever calls the        *)
(* threads make, in whatever order their accesses come.                    *)
THEOREM RegistersInvariant == Spec => []IInv
<1> QED BY InitInv, NextInv, PTL DEF Spec

(* The registers stay in the regions of the board, whatever the calls of   *)
(* either thread write: RegistersTypeOK.                                   *)
THEOREM RegistersTyped == Spec => []RegistersTypeOK
<1>1. IInv => RegistersTypeOK
  BY DEF IInv, InRegions, RegionBits, RegistersTypeOK
<1> QED BY <1>1, RegistersInvariant, PTL

(* DriverAccepts, for a board of any layout: once a function of the        *)
(* library has accepted its arguments, validate_pci_access lets pass what  *)
(* it asks of the driver, up to the last channel and the last buffer.      *)
THEOREM DriverAcceptsAll == Spec => []DriverAccepts
<1>1. IInv => DriverAccepts
  BY DEF IInv, DriverAccepts
<1> QED BY <1>1, RegistersInvariant, PTL

(* Only a thread that continues its call changes both the registers and    *)
(* its call.                                                               *)
LEMMA StepKinds ==
  ASSUME IInv, [Next]_vars
  PROVE  \/ UNCHANGED <<mem, todo>>
         \/ UNCHANGED mem /\ \A t \in Callers : todo[t] # Idle => todo'[t] = todo[t]
         \/ UNCHANGED todo /\ fb # None
              /\ \E b \in StatusBits(fb) : mem' = [mem EXCEPT !["FB"] = @ \cup {b}]
         \/ \E t \in Callers : Continue(t)
<1>1. CASE Open
  BY <1>1 DEF Open
<1>2. CASE BoardEvent
  BY <1>2 DEF BoardEvent
<1>3. ASSUME NEW t \in Callers, Begin(t)
      PROVE  UNCHANGED mem /\ \A u \in Callers : todo[u] # Idle => todo'[u] = todo[u]
  BY <1>3 DEF Begin, IInv
<1>4. CASE UNCHANGED vars
  BY <1>4 DEF vars
<1> QED BY <1>1, <1>2, <1>3, <1>4 DEF Next

(* ChannelsApart, for a board of any layout: an access of a call changes   *)
(* only registers of the part of the block that the call is about, and no  *)
(* call changes the table of the function blocks.                          *)
THEOREM ChannelsStayApart == Spec => ChannelsApart
<1> DEFINE Apart == \A t \in Callers :
       todo[t] # Idle /\ todo'[t] # todo[t]
         => /\ Flipped("FB") \subseteq Extent(fb, todo[t].call.owner)
            /\ Flipped("GBC") \subseteq (IF todo[t].call.owner[1] = "board"
                                           THEN 16 .. 31 ELSE {})
<1>1. IInv /\ [Next]_vars => [Apart]_vars
  <2> SUFFICES ASSUME IInv, [Next]_vars PROVE Apart
    OBVIOUS
  <2>1. ASSUME NEW u \in Callers, Continue(u)
        PROVE  Apart
    <3>1. /\ Flipped("FB") \subseteq Extent(fb, todo[u].call.owner)
          /\ Flipped("GBC") \subseteq (IF todo[u].call.owner[1] = "board" THEN 16 .. 31 ELSE {})
      BY <2>1, Continued, Performed DEF Flipped
    <3>2. \A t \in Callers : t # u => todo'[t] = todo[t]
      BY <2>1, Continued
    <3> QED BY <3>1, <3>2
  <2>2. CASE UNCHANGED todo
    BY <2>2
  <2>3. CASE \A t \in Callers : todo[t] # Idle => todo'[t] = todo[t]
    BY <2>3
  <2> QED BY <2>1, <2>2, <2>3, StepKinds
<1> QED BY <1>1, RegistersInvariant, PTL DEF Spec, ChannelsApart

(* NoStaleEnable, for any number of threads: the functions that enable     *)
(* interrupt sources clear their status first, and no other call, of       *)
(* whichever thread, gives a status bit back between the two accesses; a   *)
(* source that becomes enabled with its status set was raised since the    *)
(* call began.                                                             *)
THEOREM NoStaleEnables == Spec => NoStaleEnable
<1> DEFINE Clear == fb # None =>
       \A p \in EnablePairs(fb) :
         p[1] \in mem'["FB"] \ mem["FB"] /\ p[2] \in mem'["FB"]
           => \A t \in Callers : todo'[t] # todo[t] => p[2] \in fresh[t]
<1>1. IInv /\ [Next]_vars => [Clear]_vars
  <2> SUFFICES ASSUME IInv, [Next]_vars PROVE Clear
    OBVIOUS
  <2>1. ASSUME NEW u \in Callers, Continue(u)
        PROVE  Clear
    <3> SUFFICES ASSUME NEW p \in EnablePairs(fb), NEW t \in Callers, todo'[t] # todo[t],
                        p[1] \in mem'["FB"] \ mem["FB"], p[2] \in mem'["FB"]
                 PROVE  p[2] \in fresh[t]
      OBVIOUS
    <3> DEFINE a == Head(todo[u].accesses)
    <3>1. t = u
      BY <2>1, Continued
    <3>2. /\ Descriptor(fb) /\ InRegions(mem) /\ Underway(fb, mem, fresh[u], todo[u])
          /\ a \in GoodAccesses(fb, todo[u].call) /\ mem' = Perform(fb, mem, a)
      BY <2>1, Continued
    <3> HIDE DEF a
    <3>3. p[2] \in mem["FB"] /\ p[2] \in Armed(fb, a)
      BY <3>2, Performed
    <3> QED BY <3>1, <3>2, <3>3 DEF Underway, a
  <2>2. CASE UNCHANGED todo
    BY <2>2
  <2>3. CASE UNCHANGED mem
    BY <2>3
  <2> QED BY <2>1, <2>2, <2>3, StepKinds
<1> QED BY <1>1, RegistersInvariant, PTL DEF Spec, NoStaleEnable
=============================================================================
