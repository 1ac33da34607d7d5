---------------------------- MODULE DmaBuffersProofs ----------------------------
(***************************************************************************)
(* Proofs about the driver from loading to unloading, with a board opened, *)
(* its DMA buffers and the closing: for any number of boards, regions,     *)
(* buffers and threads, with any of the faults.  FileOK says who refers to *)
(* a board, DataInv where the DMA memory is; EngineOK, when one thread     *)
(* initialises the buffers, what the board knows of it.                    *)
(***************************************************************************)
EXTENDS DmaBuffers, DriverLoadProofs, SequenceTheorems

FileOK ==
  /\ file \in {"none", "opening", "opened", "held", "leaked", "closing", "freeing"}
  /\ file # "none" => InUse /\ on \in Minors
  /\ file = "none" => on = 0
  /\ \A m \in Minors : desc[m].reference_count = IF file # "none" /\ on = m THEN 1 ELSE 0

Busy(t) == call[t].at # "out"
InHand(t) == call[t].at \in {"tell board", "describe"}
WithBuffer(t) == call[t].at \notin {"out", "next buffer"}
Call == [at : {"out", "next buffer", "search", "allocate", "tell board", "describe", "initialized"},
         buffer : Nat, piece : Piece \cup {NoPiece}]

\* A call goes on only while the file is open, and has a piece of memory in hand
\* from the allocation to the insertion.
CallOK ==
  /\ call \in [Threads -> Call]
  /\ \A t \in Threads :
       /\ Busy(t) => t \in Initialisers /\ file \in {"held", "closing"}
       /\ WithBuffer(t) => call[t].buffer \in Buffer
       /\ InHand(t) => call[t].piece \in Piece

\* Every allocated piece is in the list of the open board, or in one hand.
PiecesOK ==
  /\ list \in [Minors -> Seq([buffer : Buffer, piece : Piece])]
  /\ used \subseteq Piece
  /\ \A m \in Minors : list[m] # <<>> => m = on /\ file \in {"held", "closing", "freeing"}
  /\ \A p \in used : \/ file # "none" /\ \E i \in DOMAIN list[on] : list[on][i].piece = p
                     \/ \E t \in Threads : InHand(t) /\ call[t].piece = p

BoardOK ==
  /\ address \in [Minors -> [Buffer -> Piece \cup {NoPiece}]]
  /\ valid \in [Minors -> SUBSET Buffer]
  /\ running \in [Minors -> BOOLEAN]

DataInv == CallOK /\ PiecesOK /\ BoardOK
LifeInv == LoadInv /\ FileOK /\ DataInv


(* The kernel keeps the driver while a file is open.                       *)
LEMMA ModuleKeepsFile ==
  ASSUME LoadInv, FileOK, Loading \/ Releasing \/ Unload(file = "none"), UNCHANGED dmaVars
  PROVE  FileOK'
<1> USE DEF LoadInv
<1>0. /\ Minors' = Minors /\ file' = file /\ on' = on /\ desc \in [Minors -> Descriptor]
      /\ loader = "out" => file = "none"
      /\ Freeing => file = "none"
  BY DEF Loading, Releasing, Load, Enable, SkipRegion, ClaimPorts, MapMemory, RefuseRegion,
        RegionsDone,
         AllocateIrq, NextDevice, TakeNumbers, AddCdev, CreateNode, FreeIrq, ReleaseRegions,
         FreeDescriptors, ReleaseNothing, LoadFailed, Unregister, Unload, Minors, dmaVars, DescOK,
         FileOK, InUse, Freeing
<1>1. \A m \in Minors : desc'[m].reference_count = IF file = "none" THEN 0
        ELSE desc[m].reference_count
  <2>1. CASE Load \/ FreeDescriptors
    BY <1>0, <2>1 DEF Load, FreeDescriptors, At, Zeroed, Freeing
  <2>2. CASE ClaimPorts
    BY <1>0, <2>2 DEF ClaimPorts, At, FileOK, Descriptor
  <2>3. CASE MapMemory
    BY <1>0, <2>3 DEF MapMemory, At, FileOK, Descriptor
  <2>4. CASE AllocateIrq
    BY <1>0, <2>4 DEF AllocateIrq, At, FileOK, Descriptor
  <2>5. CASE desc' = desc
    BY <1>0, <2>5 DEF FileOK
  <2> QED BY <2>1, <2>2, <2>3, <2>4, <2>5
          DEF Loading, Releasing, Enable, SkipRegion, RefuseRegion, RegionsDone, NextDevice,
              TakeNumbers, AddCdev, CreateNode, FreeIrq, ReleaseRegions, ReleaseNothing,
              LoadFailed, Unregister, Unload
<1>2. file # "none" => InUse'
  BY <1>0
    DEF Loading, Releasing, Load, Enable, SkipRegion, ClaimPorts, MapMemory, RefuseRegion,
        RegionsDone,
         AllocateIrq, NextDevice, TakeNumbers, AddCdev, CreateNode, FreeIrq, ReleaseRegions,
         FreeDescriptors, ReleaseNothing, LoadFailed, Unregister, Unload,
         FileOK, InUse, Freeing, At, Go
<1> QED BY <1>0, <1>1, <1>2 DEF FileOK

(* Only the reference of a descriptor changes when a file is opened or     *)
(* released, while the driver is in use.                                   *)
LEMMA ReferenceKeepsLoad ==
  ASSUME LoadInv, InUse, NEW k \in Minors, NEW c \in Nat,
         desc' = [desc EXCEPT ![k].reference_count = c],
         UNCHANGED <<bars, devices, held, twice, loader, minor, region, calls>>
  PROVE  LoadInv'
<1> USE DEF LoadInv
<1>1. /\ desc' \in [Minors -> Descriptor] /\ Minors' = Minors /\ Grants' = Grants /\ devices
      /\ \A m \in Minors : /\ desc'[m].irq = desc[m].irq /\ desc'[m].io = desc[m].io
                           /\ desc'[m].virt = desc[m].virt /\ desc'[m].allocated = desc[m].allocated
  BY DEF DescOK, Descriptor, Minors, Grants, PlaceOK, InUse
<1>2. \A m \in Minors, r \in Region : Complete(m, r)' <=> Complete(m, r)
  BY <1>1 DEF Complete
<1>3. PlaceOK'
  BY <1>1 DEF PlaceOK, Probing, Freeing, InUse
<1>4. DescOK'
  BY <1>1, <1>2 DEF DescOK
<1>5. ProgressOK'
  BY <1>1 DEF ProgressOK, InUse, Probing
<1>6. HeldOK' /\ twice' \subseteq {Class}
  <2>1. DeviceHeld'
    BY DEF HeldOK, DeviceHeld, InUse, Freeing
  <2>2. \A m \in Minors : IrqHeld(m)' /\ NodeHeld(m)' /\ ReferenceHeld(m)'
    BY <1>1 DEF HeldOK, IrqHeld, NodeHeld, ReferenceHeld, IrqFreed, Probing, Freeing
  <2>3. \A m \in Minors, r \in Region : RegionHeld(m, r)'
    BY <1>1 DEF HeldOK, RegionHeld, RegionsFreed, Freeing
  <2> QED BY <1>1, <2>1, <2>2, <2>3 DEF HeldOK
<1> QED BY <1>3, <1>4, <1>5, <1>6

(* Opening a board takes its only reference.                               *)
LEMMA OpenKeepsLoad ==
  ASSUME LoadInv, FileOK, NEW m \in Minors, Open(m)
  PROVE  LoadInv' /\ FileOK'
<1>1. InUse /\ desc[m].reference_count = 0 /\ desc \in [Minors -> Descriptor]
  BY DEF Open, InUse, LoadInv, DescOK
<1>2. desc' = [desc EXCEPT ![m].reference_count = 1]
  BY <1>1 DEF Open
<1>3. LoadInv'
  BY <1>1, <1>2, ReferenceKeepsLoad DEF Open
<1>4. \A k \in Minors : desc'[k].reference_count = IF k = m THEN 1 ELSE 0
  BY <1>1, <1>2 DEF Descriptor, Open, FileOK
<1>5. FileOK'
  BY <1>1, <1>4 DEF Open, FileOK, InUse, Minors
<1> QED BY <1>3, <1>5

(* The release gives the reference back.                                   *)
LEMMA ReleasedKeepsLoad ==
  ASSUME LoadInv, FileOK, Released
  PROVE  LoadInv' /\ FileOK'
<1>1. InUse /\ on \in Minors /\ desc[on].reference_count = 1 /\ desc \in [Minors -> Descriptor]
  BY DEF Released, FileOK, LoadInv, DescOK
<1>2. desc' = [desc EXCEPT ![on].reference_count = 0]
  BY <1>1 DEF Released
<1>3. LoadInv'
  BY <1>1, <1>2, ReferenceKeepsLoad DEF Released
<1>4. \A k \in Minors : desc'[k].reference_count = 0
  BY <1>1, <1>2 DEF Descriptor, Released, FileOK
<1>5. FileOK'
  BY <1>1, <1>4 DEF Released, FileOK, InUse, Minors
<1> QED BY <1>3, <1>5

(* What leaves the driver's descriptors alone keeps what is said of them.  *)
LEMMA OtherKeepsLoad ==
  ASSUME LoadInv, FileOK, UNCHANGED loadVars, UNCHANGED <<file, on>>
    \/ (file # "none" /\ on' = on /\ file' \in {"opened", "held", "leaked", "closing", "freeing"})
  PROVE  LoadInv' /\ FileOK'
<1>1. LoadInv'
  BY DEF loadVars, LoadInv, PlaceOK, DescOK, ProgressOK, HeldOK, DeviceHeld, IrqHeld, NodeHeld,
        ReferenceHeld, RegionHeld, IrqFreed, RegionsFreed, Complete, Minors, Grants, Probing,
        InUse, Freeing
<1>2. FileOK'
  BY DEF loadVars, FileOK, Minors, InUse
<1> QED BY <1>1, <1>2

-----------------------------------------------------------------------------
(* The calls, their pieces of memory, and what the board was told.         *)

(* What a step of one thread leaves of the other calls.                    *)
LEMMA Entered ==
  ASSUME call \in [Threads -> Call], NEW t \in Threads,
         NEW to \in {"out", "next buffer", "search", "allocate", "tell board", "describe",
         "initialized"},
         call' = [call EXCEPT ![t].at = to]
  PROVE  /\ call' \in [Threads -> Call]
         /\ \A s \in Threads : s # t => call'[s] = call[s]
         /\ call'[t].at = to /\ call'[t].buffer = call[t].buffer /\ call'[t].piece = call[t].piece
BY DEF Call

LEMMA LeftOut ==
  ASSUME call \in [Threads -> Call], NEW t \in Threads, call' = [call EXCEPT ![t] = Out]
  PROVE  /\ call' \in [Threads -> Call]
         /\ \A s \in Threads : s # t => call'[s] = call[s]
         /\ call'[t].at = "out"
BY DEF Call, Out

(* What leaves the lists and the hands alone keeps what is said of them.   *)
LEMMA SamePieces ==
  ASSUME PiecesOK, UNCHANGED <<bars, list, used, on>>,
         file # "none" => file' # "none",
         file \in {"held", "closing", "freeing"} => file' \in {"held", "closing", "freeing"},
         \A s \in Threads : InHand(s) => InHand(s)' /\ call'[s].piece = call[s].piece
  PROVE  PiecesOK'
<1>1. Minors' = Minors /\ Buffer' = Buffer
  BY DEF Minors, Buffer
<1>2. \A p \in used : \/ file # "none" /\ \E i \in DOMAIN list[on] : list[on][i].piece = p
                      \/ \E t \in Threads : InHand(t)' /\ call'[t].piece = p
  BY DEF PiecesOK
<1>3. \A m \in Minors : list[m] # <<>> => m = on /\ file' \in {"held", "closing", "freeing"}
  BY DEF PiecesOK
<1>4. (list \in [Minors -> Seq([buffer : Buffer, piece : Piece])])' /\ (used \subseteq Piece)'
  BY <1>1 DEF PiecesOK
<1> QED BY <1>1, <1>2, <1>3, <1>4 DEF PiecesOK

LEMMA SameBoard ==
  ASSUME BoardOK, UNCHANGED <<bars, address, valid, running>>
  PROVE  BoardOK'
BY DEF BoardOK, Minors, Buffer

LEMMA SameCalls ==
  ASSUME CallOK, UNCHANGED call, file \in {"held", "closing"} => file' \in {"held", "closing"}
  PROVE  CallOK'
BY DEF CallOK, Busy, WithBuffer, InHand, Call, Buffer

(* A step that moves one thread, with no piece of memory in its hand.      *)
LEMMA MovedKeepsData ==
  ASSUME DataInv, FileOK, NEW t \in Threads, UNCHANGED <<bars, list, used, on>>,
         call' \in [Threads -> Call],
         \A s \in Threads : s # t => call'[s] = call[s],
         file \in {"held", "closing"}, file' \in {file, "closing"},
         ~InHand(t), ~InHand(t)',
         Busy(t)' => t \in Initialisers,
         WithBuffer(t)' => call'[t].buffer \in Buffer
  PROVE  CallOK' /\ PiecesOK'
<1>1. CallOK'
  BY DEF DataInv, CallOK, Busy, WithBuffer, InHand, Call, Buffer
<1>2. \A s \in Threads : InHand(s) => InHand(s)' /\ call'[s].piece = call[s].piece
  BY DEF InHand
<1>3. PiecesOK'
  BY <1>2, SamePieces DEF DataInv
<1> QED BY <1>1, <1>3

(* The steps of the library.                                               *)
LEMMA LibraryKeepsData ==
  ASSUME DataInv, FileOK, NEW t \in Threads, Library(t)
  PROVE  DataInv'
<1> USE BuffersAssumption DEF DataInv
<1>0. call \in [Threads -> Call] /\ bars' = bars /\ list' = list /\ used' = used /\ on' = on
        /\ on \in Minors
  BY DEF CallOK, Library, Dma_Initialize, NextBuffer, ClearBuffer, Buffer_Setup, Dma_Start,
        Usable, loadVars, FileOK
<1>1. CASE Dma_Initialize(t)
  <2>1. /\ call' \in [Threads -> Call] /\ \A s \in Threads : s # t => call'[s] = call[s]
        /\ call'[t].at = "next buffer"
    BY <1>0, <1>1 DEF Dma_Initialize, Call, Out
  <2>2. CallOK' /\ PiecesOK'
    BY <1>0, <1>1, <2>1, MovedKeepsData DEF Dma_Initialize, InHand, Busy, WithBuffer
  <2>3. BoardOK'
    BY <1>0, <1>1 DEF Dma_Initialize, BoardOK, Minors, Buffer
  <2> QED BY <2>2, <2>3
<1>2. CASE NextBuffer(t)
  <2>1. BoardOK'
    BY <1>0, <1>2, SameBoard DEF NextBuffer
  <2>2. CASE call[t].buffer \in Buffer /\ Enter(t, "next buffer", "search") /\ UNCHANGED file
    <3>1. /\ call' \in [Threads -> Call] /\ \A s \in Threads : s # t => call'[s] = call[s]
          /\ call'[t].at = "search" /\ call'[t].buffer = call[t].buffer
      BY <1>0, <2>2, Entered DEF Enter
    <3> QED BY <1>0, <1>2, <2>1, <2>2, <3>1, MovedKeepsData
      DEF NextBuffer, Enter, CallOK, InHand, Busy, WithBuffer
  <2>3. CASE call[t].buffer \notin Buffer /\ Enter(t, "next buffer", "out") /\ UNCHANGED file
    <3>1. /\ call' \in [Threads -> Call] /\ \A s \in Threads : s # t => call'[s] = call[s]
          /\ call'[t].at = "out"
      BY <1>0, <2>3, Entered DEF Enter
    <3> QED BY <1>0, <1>2, <2>1, <2>3, <3>1, MovedKeepsData
      DEF NextBuffer, Enter, CallOK, InHand, Busy, WithBuffer
  <2>4. CASE call[t].at = "next buffer" /\ "size" \in Faults /\ Give_up(t)
    <3>1. /\ call' \in [Threads -> Call] /\ \A s \in Threads : s # t => call'[s] = call[s]
          /\ call'[t].at = "out"
      BY <1>0, <2>4, LeftOut DEF Give_up
    <3> QED BY <1>0, <1>2, <2>1, <2>4, <3>1, MovedKeepsData
      DEF NextBuffer, Give_up, CallOK, InHand, Busy, WithBuffer
  <2> QED BY <1>2, <2>2, <2>3, <2>4 DEF NextBuffer
<1>3. CASE ClearBuffer(t)
  <2>1. /\ call' \in [Threads -> Call] /\ \A s \in Threads : s # t => call'[s] = call[s]
        /\ call'[t].at = "next buffer"
    <3>1. call[t] \in Call
      BY <1>0
    <3>2. call[t].buffer \in Nat
      BY <3>1 DEF Call
    <3>3. call' = [call EXCEPT ![t].at = "next buffer", ![t].buffer = @ + 1, ![t].piece = NoPiece]
      BY <1>3 DEF ClearBuffer
    <3>4. /\ DOMAIN call' = Threads /\ call' = [s \in Threads |-> call'[s]]
          /\ \A s \in Threads : s # t => call'[s] = call[s]
      BY <1>0, <3>3
    <3>5. call'[t] = [at |-> "next buffer", buffer |-> call[t].buffer + 1, piece |-> NoPiece]
      BY <1>0, <3>1, <3>3 DEF Call
    <3>6. call'[t] \in Call /\ call'[t].at = "next buffer"
      <4>1. \A n \in Nat : LET c == [at |-> "next buffer", buffer |-> n, piece |-> NoPiece]
                          IN  c \in Call /\ c.at = "next buffer"
        BY DEF Call
      <4>2. call[t].buffer + 1 \in Nat
        BY <3>2
      <4> QED BY <3>5, <4>1, <4>2
    <3> QED BY <1>0, <3>4, <3>6
  <2>2. CallOK' /\ PiecesOK'
    BY <1>0, <1>3, <2>1, MovedKeepsData DEF ClearBuffer, CallOK, InHand, Busy, WithBuffer
  <2>3. BoardOK'
    BY <1>0, <1>3 DEF ClearBuffer, BoardOK, Minors, Buffer
  <2> QED BY <2>2, <2>3
<1>4. CASE Buffer_Setup(t) \/ Dma_Start(t)
  <2>1. CallOK' /\ PiecesOK'
    BY <1>0, <1>4, SameCalls, SamePieces DEF Buffer_Setup, Dma_Start, InHand
  <2>2. BoardOK'
    <3>1. CASE Buffer_Setup(t)
      <4>1. PICK b \in Buffer : valid' = [valid EXCEPT ![on] = @ \cup {b}]
        BY <3>1 DEF Buffer_Setup
      <4>2. valid' \in [Minors -> SUBSET Buffer]
        BY <1>0, <4>1 DEF BoardOK
      <4> QED BY <1>0, <3>1, <4>2 DEF Buffer_Setup, BoardOK, Minors, Buffer
    <3>2. CASE Dma_Start(t)
      BY <1>0, <3>2 DEF Dma_Start, BoardOK, Minors, Buffer
    <3> QED BY <1>4, <3>1, <3>2
  <2> QED BY <2>1, <2>2
<1> QED BY <1>1, <1>2, <1>3, <1>4 DEF Library

(* The steps of DMA_INITIALIZE in the driver: the piece of memory goes     *)
(* from the hand of the call into the list, or back to the kernel.         *)
LEMMA KernelKeepsData ==
  ASSUME DataInv, FileOK, NEW t \in Threads, InKernel(t)
  PROVE  DataInv'
<1> USE BuffersAssumption DEF DataInv
<1>0. /\ call \in [Threads -> Call] /\ bars' = bars /\ on' = on /\ file \in {"held", "closing"}
      /\ on \in Minors /\ t \in Initialisers /\ Minors' = Minors
  BY DEF CallOK, InKernel, Search, Allocate, TellBoard, Describe, Die, Enter, loadVars, FileOK,
        Busy, Minors
<1>1. CASE Search(t)
  <2>1. CASE Enter(t, "search", "allocate") /\ UNCHANGED file
    <3>1. /\ call' \in [Threads -> Call] /\ \A s \in Threads : s # t => call'[s] = call[s]
          /\ call'[t].at = "allocate" /\ call'[t].buffer = call[t].buffer
      BY <1>0, <2>1, Entered DEF Enter
    <3>2. call[t].buffer \in Buffer
      BY <1>1 DEF Search, CallOK, WithBuffer
    <3> QED BY <1>0, <1>1, <2>1, <3>1, <3>2, MovedKeepsData, SameBoard
      DEF Search, InHand, Busy, WithBuffer
  <2>2. CASE Give_up(t)
    <3>1. /\ call' \in [Threads -> Call] /\ \A s \in Threads : s # t => call'[s] = call[s]
          /\ call'[t].at = "out"
      BY <1>0, <2>2, LeftOut DEF Give_up
    <3> QED BY <1>0, <1>1, <2>2, <3>1, MovedKeepsData, SameBoard
      DEF Search, Give_up, InHand, Busy, WithBuffer
  <2> QED BY <1>1, <2>1, <2>2 DEF Search
<1>2. CASE Allocate(t)
  <2>1. BoardOK'
    BY <1>0, <1>2, SameBoard DEF Allocate
  <2>2. CASE Give_up(t) /\ UNCHANGED used
    <3>1. /\ call' \in [Threads -> Call] /\ \A s \in Threads : s # t => call'[s] = call[s]
          /\ call'[t].at = "out"
      BY <1>0, <2>2, LeftOut DEF Give_up
    <3> QED BY <1>0, <1>2, <2>1, <2>2, <3>1, MovedKeepsData
      DEF Allocate, Give_up, InHand, Busy, WithBuffer
  <2>3. ASSUME NEW p \in Piece \ used, used' = used \cup {p}, UNCHANGED file,
               call' = [call EXCEPT ![t].at = "tell board", ![t].piece = p]
        PROVE  CallOK' /\ PiecesOK'
    <3>1. /\ call' \in [Threads -> Call] /\ \A s \in Threads : s # t => call'[s] = call[s]
          /\ call'[t].at = "tell board" /\ call'[t].piece = p /\ call'[t].buffer = call[t].buffer
      BY <1>0, <2>3 DEF Call
    <3>2. call[t].buffer \in Buffer
      BY <1>2 DEF Allocate, CallOK, WithBuffer
    <3>3. CallOK'
      BY <1>0, <2>3, <3>1, <3>2 DEF CallOK, Busy, WithBuffer, InHand, Buffer
    <3>4. \A s \in Threads : InHand(s) => InHand(s)' /\ call'[s].piece = call[s].piece
      BY <1>2, <3>1 DEF Allocate, InHand
    <3>5. InHand(t)' /\ list' = list
      BY <1>2, <3>1 DEF InHand, Allocate
    <3>6. \A q \in used' : \/ file # "none" /\ \E i \in DOMAIN list[on] : list[on][i].piece = q
                           \/ \E s \in Threads : InHand(s)' /\ call'[s].piece = q
      BY <2>3, <3>1, <3>4, <3>5 DEF PiecesOK
    <3>7. PiecesOK'
      BY <1>0, <2>3, <3>5, <3>6 DEF PiecesOK, Buffer
    <3> QED BY <3>3, <3>7
  <2> QED BY <1>2, <2>1, <2>2, <2>3 DEF Allocate
<1>3. CASE TellBoard(t)
  <2>1. /\ call' \in [Threads -> Call] /\ \A s \in Threads : s # t => call'[s] = call[s]
        /\ call[t].at = "tell board" /\ call'[t].at = "describe"
        /\ call'[t].buffer = call[t].buffer /\ call'[t].piece = call[t].piece
    BY <1>0, <1>3, Entered DEF TellBoard, Enter
  <2>2. call[t].buffer \in Buffer /\ call[t].piece \in Piece
    BY <2>1 DEF CallOK, WithBuffer, InHand
  <2>3. CallOK'
    BY <1>0, <1>3, <2>1, <2>2 DEF TellBoard, CallOK, Busy, WithBuffer, InHand, Buffer
  <2>4. PiecesOK'
    BY <1>0, <1>3, <2>1, SamePieces DEF TellBoard, InHand
  <2>5. BoardOK'
    BY <1>0, <1>3, <2>2 DEF TellBoard, BoardOK, Buffer
  <2> QED BY <2>3, <2>4, <2>5
<1>4. CASE Describe(t)
  <2>1. BoardOK'
    BY <1>0, <1>4, SameBoard DEF Describe
  <2>2. call[t].buffer \in Buffer /\ call[t].piece \in Piece /\ call[t].at = "describe"
    BY <1>4 DEF Describe, CallOK, WithBuffer, InHand
  <2>3. CASE /\ list' = [list EXCEPT ![on] = Append(@, [buffer |-> call[t].buffer, piece |-> call[t].piece])]
             /\ Enter(t, "describe", "initialized") /\ UNCHANGED <<used, file>>
    <3>1. /\ call' \in [Threads -> Call] /\ \A s \in Threads : s # t => call'[s] = call[s]
          /\ call'[t].at = "initialized" /\ call'[t].buffer = call[t].buffer
      BY <1>0, <2>3, Entered DEF Enter
    <3>2. CallOK'
      BY <1>0, <2>2, <2>3, <3>1 DEF CallOK, Busy, WithBuffer, InHand, Buffer
    <3> DEFINE e == [buffer |-> call[t].buffer, piece |-> call[t].piece]
               E == [buffer : Buffer, piece : Piece]
    <3>3. list[on] \in Seq(E) /\ e \in E /\ e.piece = call[t].piece
            /\ \A m \in Minors : list[m] \in Seq(E)
      BY <1>0, <2>2 DEF PiecesOK
    <3>4. list'[on] = Append(list[on], e) /\ \A m \in Minors : m # on => list'[m] = list[m]
      BY <1>0, <2>3 DEF PiecesOK
    <3>5. /\ list'[on] \in Seq(E)
          /\ \A i \in DOMAIN list[on] : i \in DOMAIN list'[on] /\ list'[on][i] = list[on][i]
          /\ \E i \in DOMAIN list'[on] : list'[on][i] = e
      <4> HIDE DEF e, E
      <4>1. /\ Len(list'[on]) = Len(list[on]) + 1 /\ list'[on][Len(list[on]) + 1] = e
            /\ \A i \in 1 .. Len(list[on]) : list'[on][i] = list[on][i]
            /\ list'[on] \in Seq(E)
        BY <3>3, <3>4
      <4> QED BY <3>3, <4>1
    <3>6. list' \in [Minors -> Seq(E)]
      BY <1>0, <2>3, <3>3, <3>4, <3>5 DEF PiecesOK
    <3>7. \A p \in used' : \/ \E i \in DOMAIN list'[on] : list'[on][i].piece = p
                           \/ \E s \in Threads : InHand(s)' /\ call'[s].piece = p
      <4> SUFFICES ASSUME NEW p \in used
                   PROVE  \/ \E i \in DOMAIN list'[on] : list'[on][i].piece = p
                          \/ \E s \in Threads : InHand(s)' /\ call'[s].piece = p
        BY <2>3
      <4>1. CASE \E i \in DOMAIN list[on] : list[on][i].piece = p
        BY <3>5, <4>1
      <4>2. CASE p = call[t].piece
        BY <3>3, <3>5, <4>2
      <4>3. CASE \E s \in Threads : s # t /\ InHand(s) /\ call[s].piece = p
        BY <3>1, <4>3 DEF InHand
      <4> QED BY <4>1, <4>2, <4>3 DEF PiecesOK
    <3>8. PiecesOK'
      BY <1>0, <2>3, <3>4, <3>6, <3>7 DEF PiecesOK, Buffer, FileOK
    <3> QED BY <2>1, <3>2, <3>8
  <2>4. CASE used' = used \ {call[t].piece} /\ Give_up(t) /\ UNCHANGED list
    <3>1. /\ call' \in [Threads -> Call] /\ \A s \in Threads : s # t => call'[s] = call[s]
          /\ call'[t].at = "out"
      BY <1>0, <2>4, LeftOut DEF Give_up
    <3>2. CallOK'
      BY <1>0, <2>2, <2>4, <3>1 DEF Give_up, CallOK, Busy, WithBuffer, InHand, Buffer
    <3>3. \A p \in used' : \/ \E i \in DOMAIN list[on] : list[on][i].piece = p
                           \/ \E s \in Threads : InHand(s)' /\ call'[s].piece = p
      <4> SUFFICES ASSUME NEW p \in used, p # call[t].piece
                   PROVE  \/ \E i \in DOMAIN list[on] : list[on][i].piece = p
                          \/ \E s \in Threads : InHand(s)' /\ call'[s].piece = p
        BY <2>4
      <4>1. CASE \E s \in Threads : s # t /\ InHand(s) /\ call[s].piece = p
        BY <3>1, <4>1 DEF InHand
      <4> QED BY <4>1 DEF PiecesOK
    <3>4. PiecesOK'
      BY <1>0, <2>4, <3>3 DEF PiecesOK, Give_up, Buffer
    <3> QED BY <2>1, <3>2, <3>4
  <2> QED BY <1>4, <2>3, <2>4 DEF Describe
<1>5. CASE Die(t)
  <2>1. /\ call' \in [Threads -> Call] /\ \A s \in Threads : s # t => call'[s] = call[s]
        /\ call'[t].at = "out"
    BY <1>0, <1>5, LeftOut DEF Die
  <2> QED BY <1>0, <1>5, <2>1, MovedKeepsData, SameBoard DEF Die, InHand, Busy, WithBuffer
<1> QED BY <1>1, <1>2, <1>3, <1>4, <1>5 DEF InKernel

(* Opening, closing and releasing: the list is freed buffer by buffer.     *)
LEMMA FileKeepsData ==
  ASSUME DataInv, FileOK,
         (\E m \in Minors : Open(m)) \/ InitDescriptor \/ Board_Open \/ Close \/ Closing
  PROVE  DataInv'
<1> USE DEF DataInv
<1>0. Minors' = Minors /\ call' = call
  BY DEF Open, InitDescriptor, Board_Open, Close, Closing, ResetBoard, FreeBuffer, Released,
        loadVars, Minors
<1>1. CASE \E m \in Minors : Open(m)
  <2>1. used = {} /\ \A m \in Minors : list[m] = <<>>
    BY <1>1 DEF Open, PiecesOK, CallOK, Busy, InHand
  <2>2. PiecesOK'
    BY <1>0, <1>1, <2>1 DEF Open, PiecesOK, Buffer
  <2> QED BY <1>0, <1>1, <2>2, SameCalls, SameBoard DEF Open
<1>2. CASE InitDescriptor
  <2>1. on \in Minors /\ list[on] = <<>> /\ list \in [Minors -> Seq([buffer : Buffer, piece : Piece])]
    BY <1>2 DEF InitDescriptor, FileOK, PiecesOK
  <2>2. list' = list
    BY <1>2, <2>1 DEF InitDescriptor
  <2> QED BY <1>0, <1>2, <2>2, SamePieces, SameCalls, SameBoard DEF InitDescriptor, loadVars, InHand
<1>3. CASE Board_Open \/ Close
  BY <1>0, <1>3, SamePieces, SameCalls, SameBoard DEF Board_Open, Close, loadVars, InHand
<1>4. CASE ResetBoard
  <2>1. CallOK'
    BY <1>0, <1>4 DEF ResetBoard, CallOK, Busy, WithBuffer, InHand, Buffer
  <2>2. PiecesOK'
    BY <1>0, <1>4, SamePieces DEF ResetBoard, loadVars, InHand
  <2>3. BoardOK'
    BY <1>0, <1>4 DEF ResetBoard, loadVars, BoardOK, Buffer
  <2> QED BY <2>1, <2>2, <2>3
<1>5. CASE FreeBuffer
  <2> DEFINE E == [buffer : Buffer, piece : Piece]
  <2>1. on \in Minors /\ list[on] \in Seq(E) /\ list[on] # <<>>
          /\ \A m \in Minors : list[m] \in Seq(E)
    BY <1>5 DEF FreeBuffer, FileOK, PiecesOK
  <2>2. list'[on] = Tail(list[on]) /\ \A m \in Minors : m # on => list'[m] = list[m]
    BY <1>5, <2>1 DEF FreeBuffer, PiecesOK
  <2>3. /\ list'[on] \in Seq(E)
        /\ \A i \in DOMAIN list[on] :
             list[on][i] = Head(list[on]) \/ \E j \in DOMAIN list'[on] : list'[on][j] = list[on][i]
    <3> HIDE DEF E
    <3>1. /\ Len(list'[on]) = Len(list[on]) - 1 /\ list'[on] \in Seq(E)
               /\ Head(list[on]) = list[on][1]
          /\ \A i \in 1 .. Len(list[on]) - 1 : list'[on][i] = list[on][i + 1]
      BY <2>1, <2>2
    <3>2. \A i \in 1 .. Len(list[on]) : i = 1 \/ (i - 1 \in 1 .. Len(list'[on]) /\ list'[on][i - 1] = list[on][i])
      BY <2>1, <3>1
    <3> QED BY <2>1, <3>1, <3>2
  <2>4. list' \in [Minors -> Seq(E)]
    BY <1>5, <2>1, <2>2, <2>3 DEF FreeBuffer, PiecesOK
  <2>5. \A p \in used' : \/ \E i \in DOMAIN list'[on] : list'[on][i].piece = p
                         \/ \E s \in Threads : InHand(s) /\ call[s].piece = p
    <3> SUFFICES ASSUME NEW p \in used, p # Head(list[on]).piece
                 PROVE  \/ \E i \in DOMAIN list'[on] : list'[on][i].piece = p
                        \/ \E s \in Threads : InHand(s) /\ call[s].piece = p
      BY <1>5 DEF FreeBuffer
    <3>1. CASE \E i \in DOMAIN list[on] : list[on][i].piece = p
      BY <2>3, <3>1
    <3> QED BY <3>1 DEF PiecesOK
  <2>6. PiecesOK'
    <3>1. \A m \in Minors : list'[m] # <<>> => m = on
      BY <2>1, <2>2 DEF PiecesOK
    <3>2. \A p \in used' : \/ \E i \in DOMAIN list'[on] : list'[on][i].piece = p
                           \/ \E s \in Threads : InHand(s)' /\ call'[s].piece = p
      BY <1>0, <2>5 DEF InHand
    <3>3. used' \subseteq Piece /\ on' = on /\ file' = "freeing"
      BY <1>5 DEF FreeBuffer, PiecesOK
    <3> QED BY <1>0, <2>4, <3>1, <3>2, <3>3 DEF PiecesOK, Buffer
  <2> QED BY <1>0, <1>5, <2>6, SameCalls, SameBoard DEF FreeBuffer, loadVars
<1>6. CASE Released
  <2>1. used = {} /\ on \in Minors /\ \A m \in Minors : list[m] = <<>>
    <3>1. file = "freeing" /\ on \in Minors /\ list[on] = <<>>
      BY <1>6 DEF Released, FileOK
    <3>2. \A s \in Threads : ~InHand(s)
      BY <3>1 DEF CallOK, Busy, InHand
    <3>3. \A m \in Minors : list[m] = <<>>
      BY <3>1 DEF PiecesOK
    <3> QED BY <3>1, <3>2, <3>3 DEF PiecesOK
  <2>2. PiecesOK'
    BY <1>0, <1>6, <2>1 DEF Released, PiecesOK, Buffer
  <2> QED BY <1>0, <1>6, <2>2, SameCalls, SameBoard DEF Released
<1> QED BY <1>1, <1>2, <1>3, <1>4, <1>5, <1>6 DEF Closing

-----------------------------------------------------------------------------
(* The engine, when one thread initialises the buffers.                    *)

Alone == \A s, t \in Initialisers : s = t

\* The buffer has its piece of memory in the list, and the board has its address.
Listed(b) ==
  \E i \in DOMAIN list[on] : list[on][i].buffer = b /\ list[on][i].piece = address[on][b]

ThreadOK(t) ==
  /\ call[t].at \in {"allocate", "tell board", "describe"} =>
       /\ call[t].buffer \notin ready
       /\ \A i \in DOMAIN list[on] : list[on][i].buffer # call[t].buffer
  /\ InHand(t) => /\ call[t].piece \in used
                  /\ \A i \in DOMAIN list[on] : list[on][i].piece # call[t].piece
  /\ call[t].at = "describe" => address[on][call[t].buffer] = call[t].piece
  /\ call[t].at = "initialized" => Listed(call[t].buffer)

TableOK ==
  /\ \A i, j \in DOMAIN list[on] : list[on][i].buffer = list[on][j].buffer => i = j
  /\ \A i \in DOMAIN list[on] : list[on][i].piece \in used
  /\ \A b \in ready : Listed(b)
  /\ \A t \in Threads : ThreadOK(t)

ActiveOK ==
  /\ ready \subseteq Buffer
  /\ ready # {} => file \in {"held", "closing"}
  /\ \A m \in Minors : valid[m] # {} \/ running[m] =>
       file \in {"held", "closing"} /\ on = m /\ ready = Buffer

EngineOK == ActiveOK /\ (file \in {"held", "closing"} => TableOK)

(* With one initialising thread no other thread is in a call.              *)
LEMMA OthersAreOut ==
  ASSUME Alone, CallOK, NEW t \in Initialisers
  PROVE  \A s \in Threads : s # t => call[s].at = "out"
BY DEF Alone, CallOK, Busy

LEMMA OutIsOK ==
  ASSUME NEW t \in Threads, call[t].at = "out"
  PROVE  ThreadOK(t)
BY DEF ThreadOK, InHand

LEMMA SameTable ==
  ASSUME TableOK, UNCHANGED <<list, used, on, address, ready, call>>
  PROVE  TableOK'
<1>1. \A b : Listed(b)' <=> Listed(b)
  BY DEF Listed
<1>2. \A t \in Threads : ThreadOK(t)'
  BY <1>1 DEF TableOK, ThreadOK, InHand
<1> QED BY <1>1, <1>2 DEF TableOK

LEMMA SameActive ==
  ASSUME ActiveOK, UNCHANGED <<bars, on, ready, valid, running>>,
         file \in {"held", "closing"} => file' \in {"held", "closing"}
  PROVE  ActiveOK'
BY DEF ActiveOK, Minors, Buffer

(* A step that moves one thread and leaves the table as it is.             *)
LEMMA MovedKeepsTable ==
  ASSUME TableOK, Alone, CallOK, NEW t \in Initialisers,
         UNCHANGED <<list, used, on, address, ready>>,
         \A s \in Threads : s # t => call'[s] = call[s],
         ThreadOK(t)'
  PROVE  TableOK'
<1>1. \A s \in Threads : s # t => ThreadOK(s)'
  BY OthersAreOut DEF ThreadOK, InHand
<1> QED BY <1>1 DEF TableOK, Listed

(* The steps of the library: a buffer is made valid only when it is        *)
(* listed.                                                                 *)
LEMMA LibraryKeepsEngine ==
  ASSUME Alone, DataInv, FileOK, EngineOK, NEW t \in Threads, Library(t)
  PROVE  EngineOK'
<1> USE BuffersAssumption DEF DataInv, EngineOK
<1>0. /\ call \in [Threads -> Call] /\ bars' = bars /\ list' = list /\ used' = used /\ on' = on
      /\ on \in Minors /\ Minors' = Minors /\ file = "held" /\ TableOK /\ Buffer' = Buffer
  BY DEF CallOK, Library, Dma_Initialize, NextBuffer, ClearBuffer, Buffer_Setup, Dma_Start, Usable,
         loadVars, FileOK, Minors, Buffer
<1>1. CASE Dma_Initialize(t)
  <2>1. t \in Initialisers /\ \A s \in Threads : s # t => call'[s] = call[s]
    BY <1>0, <1>1 DEF Dma_Initialize
  <2>2. call'[t].at = "next buffer"
    BY <1>0, <1>1 DEF Dma_Initialize, Call, Out
  <2>3. TableOK'
    BY <1>0, <1>1, <2>1, <2>2, MovedKeepsTable DEF Dma_Initialize, ThreadOK, InHand
  <2>4. ActiveOK'
    BY <1>0, <1>1 DEF Dma_Initialize, ActiveOK, BoardOK
  <2> QED BY <2>3, <2>4
<1>2. CASE NextBuffer(t)
  <2>1. ActiveOK'
    BY <1>0, <1>2, SameActive DEF NextBuffer, Enter, Give_up
  <2>2. t \in Initialisers
    BY <1>2 DEF NextBuffer, Enter, CallOK, Busy
  <2>3. /\ \A s \in Threads : s # t => call'[s] = call[s]
        /\ call'[t].at \in {"search", "out"}
    <3>1. CASE Enter(t, "next buffer", "search")
      BY <1>0, <3>1, Entered DEF Enter
    <3>2. CASE Enter(t, "next buffer", "out")
      BY <1>0, <3>2, Entered DEF Enter
    <3>3. CASE Give_up(t)
      BY <1>0, <3>3, LeftOut DEF Give_up
    <3> QED BY <1>2, <3>1, <3>2, <3>3 DEF NextBuffer
  <2>4. TableOK'
    BY <1>0, <1>2, <2>2, <2>3, MovedKeepsTable DEF NextBuffer, ThreadOK, InHand
  <2> QED BY <2>1, <2>4
<1>3. CASE ClearBuffer(t)
  <2>1. /\ t \in Initialisers /\ call[t].at = "initialized" /\ call[t].buffer \in Buffer
        /\ address' = address /\ file' = file
    BY <1>3 DEF ClearBuffer, CallOK, Busy, WithBuffer
  <2>2. ready' = ready \cup {call[t].buffer} /\ \A s \in Threads : s # t => call'[s] = call[s]
    BY <1>0, <1>3 DEF ClearBuffer
  <2>3. call'[t].at = "next buffer"
    BY <1>0, <1>3 DEF ClearBuffer, Call
  <2>4. ThreadOK(t) /\ Listed(call[t].buffer)
    BY <1>0, <2>1 DEF TableOK, ThreadOK
  <2>5. \A b \in ready' : Listed(b)'
    BY <1>0, <2>1, <2>2, <2>4 DEF TableOK, Listed
  <2>6. \A s \in Threads : ThreadOK(s)'
    BY <1>0, <2>1, <2>2, <2>3, OthersAreOut DEF ThreadOK, InHand
  <2>7. TableOK'
    BY <1>0, <2>5, <2>6 DEF TableOK
  <2>8. valid' = [valid EXCEPT ![on] = @ \ {call[t].buffer}] /\ running' = running
    BY <1>3 DEF ClearBuffer
  <2>9. \A m \in Minors : valid'[m] # {} => valid[m] # {}
    BY <2>8, <1>0 DEF BoardOK
  <2>10. ActiveOK'
    BY <1>0, <2>1, <2>2, <2>8, <2>9 DEF ActiveOK
  <2> QED BY <2>7, <2>10
<1>4. CASE Buffer_Setup(t)
  <2>1. TableOK' /\ file' = file /\ ready' = ready /\ running' = running /\ ready = Buffer
    BY <1>0, <1>4, SameTable DEF Buffer_Setup, Usable
  <2>2. \A m \in Minors : m # on => valid'[m] = valid[m]
    BY <1>4 DEF Buffer_Setup, BoardOK
  <2> QED BY <1>0, <2>1, <2>2 DEF ActiveOK
<1>5. CASE Dma_Start(t)
  <2>1. TableOK' /\ file' = file /\ ready' = ready /\ valid' = valid /\ ready = Buffer
    BY <1>0, <1>5, SameTable DEF Dma_Start, Usable
  <2>2. \A m \in Minors : m # on => running'[m] = running[m]
    BY <1>5 DEF Dma_Start, BoardOK
  <2> QED BY <1>0, <2>1, <2>2 DEF ActiveOK
<1> QED BY <1>1, <1>2, <1>3, <1>4, <1>5 DEF Library

(* The steps of DMA_INITIALIZE: the board is told the piece that is listed *)
(* next.                                                                   *)
LEMMA KernelKeepsEngine ==
  ASSUME Alone, DataInv, FileOK, EngineOK, NEW t \in Threads, InKernel(t)
  PROVE  EngineOK'
<1> USE BuffersAssumption DEF DataInv, EngineOK
<1>0. /\ call \in [Threads -> Call] /\ bars' = bars /\ on' = on /\ file \in {"held", "closing"}
      /\ on \in Minors /\ t \in Initialisers /\ TableOK /\ ready' = ready
      /\ valid' = valid /\ running' = running /\ file' \in {"held", "closing"}
  BY DEF CallOK, InKernel, Search, Allocate, TellBoard, Describe, Die, Enter, Give_up, loadVars,
        FileOK, Busy
<1>00. ActiveOK' /\ \A s \in Threads : s # t => call[s].at = "out"
  BY <1>0, SameActive, OthersAreOut
<1>1. CASE Search(t)
  <2>1. CASE Enter(t, "search", "allocate") /\ Matching(call[t].buffer) = {}
    <3>1. /\ \A s \in Threads : s # t => call'[s] = call[s]
          /\ call'[t].at = "allocate" /\ call'[t].buffer = call[t].buffer
      BY <1>0, <2>1, Entered DEF Enter
    <3>2. \A i \in DOMAIN list[on] : list[on][i].buffer # call[t].buffer
      BY <2>1 DEF Matching
    <3>3. call[t].buffer \notin ready
      BY <1>0, <3>2 DEF TableOK, Listed
    <3>4. ThreadOK(t)'
      BY <1>0, <1>1, <3>1, <3>2, <3>3 DEF Search, ThreadOK, InHand
    <3> QED BY <1>0, <1>00, <1>1, <3>1, <3>4, MovedKeepsTable DEF Search
  <2>2. CASE Give_up(t)
    <3>1. /\ \A s \in Threads : s # t => call'[s] = call[s]
          /\ call'[t].at = "out"
      BY <1>0, <2>2, LeftOut DEF Give_up
    <3> QED BY <1>0, <1>00, <1>1, <3>1, MovedKeepsTable DEF Search, ThreadOK, InHand
  <2> QED BY <1>1, <2>1, <2>2 DEF Search
<1>2. CASE Allocate(t)
  <2>1. CASE Give_up(t) /\ UNCHANGED used
    <3>1. /\ \A s \in Threads : s # t => call'[s] = call[s]
          /\ call'[t].at = "out"
      BY <1>0, <2>1, LeftOut DEF Give_up
    <3> QED BY <1>0, <1>00, <1>2, <2>1, <3>1, MovedKeepsTable DEF Allocate, ThreadOK, InHand
  <2>2. ASSUME NEW p \in Piece \ used, used' = used \cup {p},
               call' = [call EXCEPT ![t].at = "tell board", ![t].piece = p]
        PROVE  TableOK'
    <3>1. /\ \A s \in Threads : s # t => call'[s] = call[s]
          /\ call'[t].at = "tell board" /\ call'[t].piece = p /\ call'[t].buffer = call[t].buffer
      BY <1>0, <2>2 DEF Call
    <3>2. list' = list /\ address' = address /\ call[t].at = "allocate" /\ ThreadOK(t)
      BY <1>0, <1>2 DEF Allocate, TableOK
    <3>3. \A i \in DOMAIN list[on] : list[on][i].piece # p
      BY <1>0 DEF TableOK
    <3>4. ThreadOK(t)'
      <4>1. /\ call'[t].buffer \notin ready'
            /\ \A i \in DOMAIN list'[on'] : list'[on'][i].buffer # call'[t].buffer
        BY <1>0, <3>1, <3>2 DEF ThreadOK
      <4>2. /\ call'[t].piece \in used'
            /\ \A i \in DOMAIN list'[on'] : list'[on'][i].piece # call'[t].piece
        <5>1. list'[on'] = list[on] /\ call'[t].piece = p
          BY <1>0, <3>1, <3>2
        <5>2. p \in used'
          BY <2>2
        <5> QED BY <3>3, <5>1, <5>2
      <4> QED BY <3>1, <4>1, <4>2 DEF ThreadOK
    <3>5. \A s \in Threads : s # t => ThreadOK(s)'
      BY <1>00, <3>1 DEF ThreadOK, InHand
    <3> QED BY <1>0, <2>2, <3>2, <3>4, <3>5 DEF TableOK, Listed
  <2> QED BY <1>0, <1>00, <1>2, <2>1, <2>2 DEF Allocate
<1>3. CASE TellBoard(t)
  <2>1. /\ \A s \in Threads : s # t => call'[s] = call[s]
        /\ call[t].at = "tell board" /\ call'[t].at = "describe"
        /\ call'[t].buffer = call[t].buffer /\ call'[t].piece = call[t].piece
    BY <1>0, <1>3, Entered DEF TellBoard, Enter
  <2>2. call[t].buffer \in Buffer /\ ThreadOK(t) /\ list' = list /\ used' = used
    BY <1>0, <1>3, <2>1 DEF CallOK, WithBuffer, TableOK, TellBoard
  <2>3. \A b \in Buffer : address'[on][b] = IF b = call[t].buffer THEN call[t].piece
          ELSE address[on][b]
    BY <1>0, <1>3 DEF TellBoard, BoardOK
  <2>4. \A b \in ready : Listed(b)'
    <3>1. \A b \in ready : b \in Buffer /\ b # call[t].buffer /\ Listed(b)
      BY <1>0, <2>1, <2>2 DEF ThreadOK, ActiveOK, TableOK
    <3> QED BY <1>0, <2>2, <2>3, <3>1 DEF Listed
  <2>5. ThreadOK(t)'
    BY <1>0, <2>1, <2>2, <2>3 DEF ThreadOK, InHand
  <2>6. \A s \in Threads : s # t => ThreadOK(s)'
    BY <1>00, <2>1 DEF ThreadOK, InHand
  <2> QED BY <1>0, <1>00, <2>2, <2>4, <2>5, <2>6 DEF TableOK
<1>4. CASE Describe(t)
  <2>1. /\ call[t].buffer \in Buffer /\ call[t].at = "describe" /\ ThreadOK(t) /\ address' = address
        /\ call[t].piece \in Piece
    BY <1>0, <1>4 DEF Describe, CallOK, WithBuffer, TableOK, InHand
  <2>2. CASE /\ list' = [list EXCEPT ![on] = Append(@, [buffer |-> call[t].buffer, piece |-> call[t].piece])]
             /\ Enter(t, "describe", "initialized") /\ UNCHANGED <<used, file>>
    <3>1. /\ \A s \in Threads : s # t => call'[s] = call[s]
          /\ call'[t].at = "initialized" /\ call'[t].buffer = call[t].buffer
      BY <1>0, <2>2, Entered DEF Enter
    <3> DEFINE e == [buffer |-> call[t].buffer, piece |-> call[t].piece]
               E == [buffer : Buffer, piece : Piece]
               n == Len(list[on])
    <3>2. list[on] \in Seq(E) /\ e.piece = call[t].piece /\ e.buffer = call[t].buffer
      BY <1>0 DEF PiecesOK
    <3>3. list'[on] = Append(list[on], e)
      BY <1>0, <2>2 DEF PiecesOK
    <3>4. /\ n \in Nat /\ DOMAIN list[on] = 1 .. n /\ DOMAIN list'[on] = 1 .. n + 1
          /\ list'[on][n + 1] = e /\ \A i \in 1 .. n : list'[on][i] = list[on][i]
      <4> HIDE DEF e, E
      <4> QED BY <3>2, <3>3
    <3>5. /\ \A i \in 1 .. n : list[on][i].buffer # e.buffer /\ list[on][i].piece \in used
          /\ \A i, j \in 1 .. n : list[on][i].buffer = list[on][j].buffer => i = j
          /\ e.piece \in used /\ address[on][e.buffer] = e.piece
      BY <1>0, <2>1, <3>2, <3>4 DEF TableOK, ThreadOK, InHand
    <3> HIDE DEF e, E, n
    <3>6. \A i \in DOMAIN list'[on] : i = n + 1 \/ i \in 1 .. n
      BY <3>4
    <3>7. \A i, j \in DOMAIN list'[on] : list'[on][i].buffer = list'[on][j].buffer => i = j
      BY <3>4, <3>5, <3>6
    <3>8. \A i \in DOMAIN list'[on] : list'[on][i].piece \in used
      BY <3>4, <3>5, <3>6
    <3>9. \A b : Listed(b) => Listed(b)'
      BY <1>0, <2>1, <3>4 DEF Listed
    <3>10. \A b : b = e.buffer => Listed(b)'
      <4>1. n + 1 \in DOMAIN list'[on]
        BY <3>4
      <4>2. on' = on /\ address' = address
        BY <1>0, <2>1
      <4>3. list'[on'][n + 1].buffer = e.buffer /\ list'[on'][n + 1].piece = address'[on'][e.buffer]
        BY <3>4, <3>5, <4>2
      <4> QED BY <4>1, <4>2, <4>3 DEF Listed
    <3>11. ThreadOK(t)'
      BY <3>1, <3>2, <3>10 DEF ThreadOK, InHand
    <3>12. \A s \in Threads : s # t => ThreadOK(s)'
      BY <1>00, <3>1 DEF ThreadOK, InHand
    <3> QED BY <1>0, <1>00, <2>2, <3>7, <3>8, <3>9, <3>11, <3>12 DEF TableOK
  <2>3. CASE used' = used \ {call[t].piece} /\ Give_up(t) /\ UNCHANGED list
    <3>1. /\ \A s \in Threads : s # t => call'[s] = call[s]
          /\ call'[t].at = "out"
      BY <1>0, <2>3, LeftOut DEF Give_up
    <3>2. \A i \in DOMAIN list[on] : list[on][i].piece \in used'
      BY <1>0, <2>1, <2>3 DEF TableOK, ThreadOK, InHand
    <3>3. \A s \in Threads : ThreadOK(s)'
      BY <1>00, <3>1 DEF ThreadOK, InHand
    <3> QED BY <1>0, <1>00, <2>1, <2>3, <3>2, <3>3 DEF TableOK, Listed
  <2> QED BY <1>4, <2>2, <2>3 DEF Describe
<1>5. CASE Die(t)
  <2>1. /\ \A s \in Threads : s # t => call'[s] = call[s]
        /\ call'[t].at = "out"
    BY <1>0, <1>5, LeftOut DEF Die
  <2> QED BY <1>0, <1>00, <1>5, <2>1, MovedKeepsTable DEF Die, ThreadOK, InHand
<1> QED BY <1>1, <1>2, <1>3, <1>4, <1>5 DEF InKernel

(* Opening and closing: the channel is stopped before a buffer is freed.   *)
LEMMA FileKeepsEngine ==
  ASSUME DataInv, FileOK, EngineOK,
         (\E m \in Minors : Open(m)) \/ InitDescriptor \/ Board_Open \/ Close \/ Closing
  PROVE  EngineOK'
<1> USE DEF DataInv, EngineOK
<1>0. /\ Minors' = Minors /\ bars' = bars /\ call' = call /\ Buffer' = Buffer
      /\ \A t \in Threads : file \notin {"held", "closing"} => call[t].at = "out"
  BY DEF Open, InitDescriptor, Board_Open, Close, Closing, ResetBoard, FreeBuffer, Released,
        loadVars,
         Minors, Buffer, CallOK, Busy
<1>1. CASE (\E m \in Minors : Open(m)) \/ InitDescriptor \/ FreeBuffer \/ Released
  BY <1>0, <1>1 DEF Open, InitDescriptor, FreeBuffer, Released, ActiveOK
<1>2. CASE Board_Open
  <2>1. list[on] = <<>> /\ ready = {}
    BY <1>2 DEF Board_Open, FileOK, PiecesOK, ActiveOK
  <2>2. ActiveOK'
    BY <1>0, <1>2 DEF Board_Open, ActiveOK
  <2>3. \A t \in Threads : ThreadOK(t)'
    BY <1>0, <1>2 DEF Board_Open, ThreadOK, InHand
  <2>4. TableOK'
    BY <1>2, <2>1, <2>3 DEF Board_Open, TableOK
  <2> QED BY <2>2, <2>4
<1>3. CASE Close /\ file = "held"
  BY <1>0, <1>3, SameTable, SameActive DEF Close
<1>4. CASE Close /\ file = "leaked"
  <2>1. list[on] = <<>> /\ ready = {}
    BY <1>4 DEF FileOK, PiecesOK, ActiveOK
  <2>2. ActiveOK'
    BY <1>0, <1>4 DEF Close, ActiveOK
  <2>3. \A t \in Threads : ThreadOK(t)'
    BY <1>0, <1>4 DEF Close, ThreadOK, InHand
  <2>4. TableOK'
    BY <1>4, <2>1, <2>3 DEF Close, TableOK
  <2> QED BY <2>2, <2>4
<1>5. CASE ResetBoard
  <2>1. \A m \in Minors : valid'[m] = {} /\ ~running'[m]
    BY <1>5 DEF ResetBoard, ActiveOK, BoardOK
  <2> QED BY <1>0, <1>5, <2>1 DEF ResetBoard, ActiveOK
<1> QED BY <1>1, <1>2, <1>3, <1>4, <1>5 DEF Closing, Close

-----------------------------------------------------------------------------
(* The theorems.                                                           *)

LEMMA LifeInitially ==
  ASSUME Init
  PROVE  LifeInv
<1>1. LoadInv
  BY NothingGranted DEF Init
<1>2. FileOK
  BY DEF Init, LoadInit, FileOK, Zeroed
<1>3. CallOK
  BY DEF Init, CallOK, Call, Out, Busy, WithBuffer, InHand
<1>4. PiecesOK
  BY DEF Init, PiecesOK
<1>5. BoardOK
  BY DEF Init, BoardOK
<1> QED BY <1>1, <1>2, <1>3, <1>4, <1>5 DEF LifeInv, DataInv

(* Loading and unloading: no buffer is listed when no file is open.        *)
LEMMA ModuleKeepsData ==
  ASSUME DataInv, bars' = bars, UNCHANGED dmaVars
  PROVE  DataInv'
BY SameCalls, SamePieces, SameBoard DEF DataInv, dmaVars, InHand

LEMMA ModuleIsLoad ==
  ASSUME Module
  PROVE  bars' = bars
BY DEF Module, Loading, Releasing, Load, Enable, SkipRegion, ClaimPorts, MapMemory, RefuseRegion,
      RegionsDone,
       AllocateIrq, NextDevice, TakeNumbers, AddCdev, CreateNode, FreeIrq, ReleaseRegions,
       FreeDescriptors, ReleaseNothing, LoadFailed, Unregister, Unload

(* The invariant is inductive.                                             *)
LEMMA LifeKept ==
  ASSUME LifeInv, [Next]_vars
  PROVE  LifeInv'
<1> USE DEF LifeInv
<1>1. CASE Module
  BY <1>1, LoadInvKept, ModuleKeepsFile, ModuleKeepsData, ModuleIsLoad DEF Module
<1>2. CASE \E m \in Minors : Open(m)
  BY <1>2, OpenKeepsLoad, FileKeepsData DEF Open
<1>3. CASE InitDescriptor \/ Board_Open \/ Close \/ ResetBoard \/ FreeBuffer
  <2>1. LoadInv' /\ FileOK'
    BY <1>3, OtherKeepsLoad DEF InitDescriptor, Board_Open, Close, ResetBoard, FreeBuffer, loadVars
  <2> QED BY <1>3, <2>1, FileKeepsData DEF Closing
<1>4. CASE Released
  BY <1>4, ReleasedKeepsLoad, FileKeepsData DEF Closing, Released
<1>5. ASSUME NEW t \in Threads, Library(t)
      PROVE  LifeInv'
  <2>1. UNCHANGED loadVars /\ on' = on /\ file = "held" /\ file' \in {"held", "closing"}
    BY <1>5
      DEF Library, Dma_Initialize, NextBuffer, ClearBuffer, Buffer_Setup, Dma_Start, Usable, Give_up
  <2>2. LoadInv' /\ FileOK'
    BY <2>1, OtherKeepsLoad DEF loadVars
  <2> QED BY <1>5, <2>2, LibraryKeepsData
<1>6. ASSUME NEW t \in Threads, InKernel(t)
      PROVE  LifeInv'
  <2>1. UNCHANGED loadVars /\ on' = on /\ file \in {"held", "closing"}
          /\ file' \in {"held", "closing"}
    BY <1>6
      DEF InKernel, Search, Allocate, TellBoard, Describe, Die, Enter, Give_up, DataInv, CallOK,
          Busy
  <2>2. LoadInv' /\ FileOK'
    BY <2>1, OtherKeepsLoad DEF loadVars
  <2> QED BY <1>6, <2>2, KernelKeepsData
<1>7. CASE UNCHANGED vars
  BY <1>7, OtherKeepsLoad, ModuleKeepsData DEF vars, dmaVars, loadVars
<1> QED BY <1>1, <1>2, <1>3, <1>4, <1>5, <1>6, <1>7 DEF Next, Closing

(* What the driver believes, what the kernel granted, and where the DMA    *)
(* memory is, agree in every state.                                        *)
THEOREM LifeInvariant == Spec => []LifeInv
<1>1. Init => LifeInv
  BY LifeInitially
<1>2. LifeInv /\ [Next]_vars => LifeInv'
  BY LifeKept
<1> QED BY <1>1, <1>2, PTL DEF Spec

(* The variables have their types, and a board counts one reference while  *)
(* its file is open (open and release in the driver).                      *)
THEOREM DriverTypeCorrect == Spec => []DriverTypeOK
<1>1. LifeInv => DriverTypeOK
  <2> SUFFICES ASSUME LifeInv
               PROVE  DriverTypeOK
    OBVIOUS
  <2> USE DEF LifeInv, DataInv
  <2>1. LoadTypeOK
    <3>1. \A m \in Minors : /\ desc[m].io \cup desc[m].virt \cup desc[m].allocated \subseteq Region
                            /\ desc[m].irq \in BOOLEAN
      BY DEF LoadInv, DescOK, Descriptor
    <3> QED BY <3>1 DEF LoadInv, PlaceOK, Place, LoadTypeOK
  <2> QED BY <2>1 DEF FileOK, BoardOK, PiecesOK, DriverTypeOK
<1> QED BY <1>1, LifeInvariant, PTL

(* A registered handler, and a board that can be opened, have their        *)
(* descriptor and the board's registers, through every failing step of the *)
(* loading and while the driver gives everything back.                     *)
THEOREM RegistersWhileHandled == Spec => []HandlerHasRegisters
<1>1. LoadInv => HandlerHasRegisters
  <2> SUFFICES ASSUME LoadInv, NEW m \in Minors,
                      Irq(m) \in held \/ (Node(m) \in held /\ loader \in {"nodes", "loaded"})
               PROVE  /\ devices /\ Memory \in held
                      /\ \A r \in Region :
                           /\ bars[m][r] = "memory" => {Map(m, r), Claim(m, r)} \subseteq held
                           /\ bars[m][r] = "io" => Claim(m, r) \in held
                           /\ bars[m][r] # "invalid"
    BY DEF HandlerHasRegisters
  <2> USE DEF LoadInv
  <2>1. PICK n \in Nat : Minors = 0 .. n - 1
    BY BoardsAreNumbered
  <2>2. desc[m].irq /\ ~RegionsFreed(m)
    BY <2>1 DEF HeldOK, IrqHeld, IrqFreed, RegionsFreed, ProgressOK, InUse, Freeing, PlaceOK
  <2>3. devices
    BY <2>2 DEF DescOK, Zeroed
  <2>4. \A r \in Region : Complete(m, r)
    BY <2>2 DEF DescOK
  <2>5. Memory \in held
    BY <2>3 DEF HeldOK, DeviceHeld
  <2> QED BY <2>2, <2>3, <2>4, <2>5 DEF HeldOK, RegionHeld, Complete
<1> QED BY <1>1, LifeInvariant, PTL DEF LifeInv

(* After a failed loading and after unloading nothing that the kernel      *)
(* granted is left, nothing but the class is ever given back twice, and    *)
(* DMA memory is allocated only while a board is open.                     *)
THEOREM NothingStaysBehind == Spec => []NothingLeft
<1>1. LifeInv => NothingLeft
  <2> SUFFICES ASSUME LifeInv
               PROVE  NothingLeft
    OBVIOUS
  <2> USE DEF LifeInv, DataInv
  <2>1. ASSUME loader = "out"
        PROVE  held = {} /\ ~devices
    <3>1. ~devices /\ Memory \notin held /\ Cdev \notin held /\ Class \notin held
            /\ Numbers \notin held
      BY <2>1 DEF LoadInv, PlaceOK, HeldOK, DeviceHeld, InUse, Freeing
    <3>2. \A m \in Minors : Irq(m) \notin held /\ Node(m) \notin held /\ Reference(m) \notin held
      BY <2>1, <3>1
        DEF LoadInv, DescOK, Zeroed, HeldOK, IrqHeld, NodeHeld, ReferenceHeld, Probing, Freeing
    <3>3. \A m \in Minors, r \in Region : Map(m, r) \notin held /\ Claim(m, r) \notin held
      BY <3>1 DEF LoadInv, DescOK, Zeroed, HeldOK, RegionHeld
    <3> QED BY <3>1, <3>2, <3>3 DEF LoadInv, HeldOK, Grants
  <2>2. ASSUME file = "none"
        PROVE  used = {} /\ \A m \in Minors : list[m] = <<>>
    BY <2>2 DEF PiecesOK, CallOK, Busy, InHand
  <2> QED BY <2>1, <2>2 DEF NothingLeft, LoadInv
<1> QED BY <1>1, LifeInvariant, PTL

(* So is what the board knows of the buffers.                              *)
LEMMA EngineKept ==
  ASSUME Alone, LifeInv, EngineOK, [Next]_vars
  PROVE  EngineOK'
<1> USE DEF LifeInv
<1>1. CASE Module
  BY <1>1, SameTable, SameActive, ModuleIsLoad DEF Module, EngineOK, dmaVars
<1>2. CASE \/ \E m \in Minors : Open(m)
           \/ InitDescriptor \/ Board_Open \/ Close \/ Closing
  BY <1>2, FileKeepsEngine
<1>3. CASE \E t \in Threads : Library(t) \/ InKernel(t)
  BY <1>3, LibraryKeepsEngine, KernelKeepsEngine
<1>4. CASE UNCHANGED vars
  BY <1>4, SameTable, SameActive DEF EngineOK, vars, dmaVars, loadVars
<1> QED BY <1>1, <1>2, <1>3, <1>4 DEF Next

LEMMA EngineInitially ==
  ASSUME Init
  PROVE  EngineOK
BY DEF Init, EngineOK, ActiveOK

(* While one thread initialises, a running engine fills only memory that   *)
(* is allocated for its buffer and from which DMA_READ copies.             *)
THEOREM EngineStaysInItsMemory ==
  ASSUME Alone
  PROVE  Spec => []EngineSafe
<1>1. Init => EngineOK
  BY EngineInitially
<1>2. LifeInv /\ EngineOK /\ [Next]_vars => EngineOK'
  BY EngineKept
<1>3. LifeInv /\ EngineOK => EngineSafe
  <2> SUFFICES ASSUME LifeInv, EngineOK, NEW m \in Minors, running[m]
               PROVE  /\ file # "none" /\ on = m
                      /\ \A b \in valid[m] :
                           /\ address[m][b] \in used
                           /\ {list[m][i].piece : i \in Matching(b)} = {address[m][b]}
    BY DEF EngineSafe
  <2>1. file \in {"held", "closing"} /\ on = m /\ ready = Buffer /\ TableOK
          /\ valid[m] \subseteq Buffer
    BY DEF EngineOK, ActiveOK, LifeInv, DataInv, BoardOK
  <2>2. ASSUME NEW b \in valid[m]
        PROVE  /\ address[m][b] \in used
               /\ {list[m][i].piece : i \in Matching(b)} = {address[m][b]}
    <3>1. PICK i \in DOMAIN list[on] : list[on][i].buffer = b /\ list[on][i].piece = address[on][b]
      BY <2>1 DEF TableOK, Listed
    <3>2. Matching(b) = {i}
      BY <2>1, <3>1 DEF Matching, TableOK
    <3>3. address[m][b] \in used
      BY <2>1, <3>1 DEF TableOK
    <3> QED BY <2>1, <3>1, <3>2, <3>3
  <2> QED BY <2>1, <2>2
<1> QED BY <1>1, <1>2, <1>3, LifeInvariant, PTL DEF Spec

-----------------------------------------------------------------------------
(* The list implements the table of buffers.                               *)

Entry == [buffer : Buffer, piece : Piece]
Distinct(s) ==
  \A i, j \in DOMAIN s : s[i].buffer = s[j].buffer \/ s[i].piece = s[j].piece => i = j
ListOK == file # "none" => Distinct(list[on])

\* The table of the lists L of the boards M, as the refinement maps it.
TableOf(M, L) ==
  [e \in {e \in M \X Buffer : \E i \in DOMAIN L[e[1]] : L[e[1]][i].buffer = e[2]} |->
     L[e[1]][CHOOSE i \in DOMAIN L[e[1]] : L[e[1]][i].buffer = e[2]].piece]

\* Table T is what list s of board k says.
IsTableOf(T, k, s) ==
  /\ T = [e \in DOMAIN T |-> T[e]]
  /\ DOMAIN T = {<<k, s[i].buffer>> : i \in DOMAIN s}
  /\ \A i \in DOMAIN s : T[<<k, s[i].buffer>>] = s[i].piece

\* T2 is table T with buffer b and memory p entered, or with buffer b taken off.
Grown(T, T2, b, p) ==
  /\ b \notin DOMAIN T
  /\ p \notin {T[x] : x \in DOMAIN T}
  /\ T2 = [x \in DOMAIN T \cup {b} |-> IF x = b THEN p ELSE T[x]]
Shrunk(T, T2, b) == b \in DOMAIN T /\ T2 = [x \in DOMAIN T \ {b} |-> T[x]]

(* When only board k has buffers, its list is the table.                   *)
LEMMA TableOfOneBoard ==
  ASSUME NEW M, NEW L, NEW k \in M, NEW s \in Seq(Entry), L[k] = s, Distinct(s),
         \A m \in M : m # k => L[m] = <<>>
  PROVE  IsTableOf(TableOf(M, L), k, s)
<1> DEFINE D == {e \in M \X Buffer : \E i \in DOMAIN L[e[1]] : L[e[1]][i].buffer = e[2]}
           P(e) == L[e[1]][CHOOSE i \in DOMAIN L[e[1]] : L[e[1]][i].buffer = e[2]].piece
<1>1. TableOf(M, L) = [e \in D |-> P(e)]
  BY DEF TableOf
<1>2. \A i \in DOMAIN s : s[i] \in Entry /\ s[i].buffer \in Buffer
  <2>1. \A i \in DOMAIN s : s[i] \in Entry
    OBVIOUS
  <2> QED BY <2>1 DEF Entry
<1>3. D = {<<k, s[i].buffer>> : i \in DOMAIN s}
  <2>1. \A m \in M, b \in Buffer : <<m, b>> \in D <=> \E i \in DOMAIN L[m] : L[m][i].buffer = b
    OBVIOUS
  <2>2. \A m \in M, b \in Buffer : <<m, b>> \in D => \E i \in DOMAIN s : <<m, b>> = <<k, s[i].buffer>>
    <3> SUFFICES ASSUME NEW m \in M, NEW b \in Buffer, <<m, b>> \in D
                 PROVE  \E i \in DOMAIN s : <<m, b>> = <<k, s[i].buffer>>
      OBVIOUS
    <3>1. PICK i \in DOMAIN L[m] : L[m][i].buffer = b
      BY <2>1
    <3>2. m = k
      BY <3>1
    <3> QED BY <3>1, <3>2
  <2>3. \A i \in DOMAIN s : <<k, s[i].buffer>> \in D
    BY <1>2, <2>1
  <2>4. \A e \in D : \E m \in M, b \in Buffer : e = <<m, b>>
    OBVIOUS
  <2> HIDE DEF D
  <2> QED BY <2>2, <2>3, <2>4
<1>4. \A i \in DOMAIN s : P(<<k, s[i].buffer>>) = s[i].piece
  <2> SUFFICES ASSUME NEW i \in DOMAIN s
               PROVE  P(<<k, s[i].buffer>>) = s[i].piece
    OBVIOUS
  <2> DEFINE j == CHOOSE j \in DOMAIN s : s[j].buffer = s[i].buffer
  <2>1. j \in DOMAIN s /\ s[j].buffer = s[i].buffer
    OBVIOUS
  <2>2. j = i
    BY <2>1 DEF Distinct
  <2>3. P(<<k, s[i].buffer>>) = s[j].piece
    OBVIOUS
  <2> HIDE DEF j
  <2> QED BY <2>2, <2>3
<1> HIDE DEF D, P
<1> QED BY <1>1, <1>3, <1>4 DEF IsTableOf

(* Appending an entry with a new buffer and new memory enters it in the    *)
(* table.                                                                  *)
LEMMA TableGrows ==
  ASSUME NEW M, NEW L, NEW L2, NEW k \in M, NEW s \in Seq(Entry), NEW e \in Entry,
         L[k] = s, Distinct(s), \A m \in M : m # k => L[m] = <<>>,
         L2[k] = Append(s, e), \A m \in M : m # k => L2[m] = <<>>,
         \A i \in DOMAIN s : s[i].buffer # e.buffer /\ s[i].piece # e.piece
  PROVE  Grown(TableOf(M, L), TableOf(M, L2), <<k, e.buffer>>, e.piece)
<1> DEFINE T == TableOf(M, L)
           T2 == TableOf(M, L2)
           b == <<k, e.buffer>>
           n == Len(s)
<1>1. /\ n \in Nat /\ DOMAIN s = 1 .. n /\ DOMAIN Append(s, e) = 1 .. n + 1
           /\ Append(s, e) \in Seq(Entry)
      /\ Append(s, e)[n + 1] = e /\ \A i \in 1 .. n : Append(s, e)[i] = s[i]
  OBVIOUS
<1> HIDE DEF n
<1>2. Distinct(Append(s, e))
  <2>1. \A i \in 1 .. n + 1 : i = n + 1 \/ i \in 1 .. n
    BY <1>1
  <2> QED BY <1>1, <2>1 DEF Distinct
<1>3. /\ DOMAIN T = {<<k, s[i].buffer>> : i \in 1 .. n}
      /\ \A i \in 1 .. n : T[<<k, s[i].buffer>>] = s[i].piece
  <2>1. IsTableOf(T, k, s)
    BY TableOfOneBoard
  <2> HIDE DEF T
  <2> QED BY <1>1, <2>1 DEF IsTableOf
<1>4. /\ T2 = [x \in DOMAIN T2 |-> T2[x]]
      /\ DOMAIN T2 = {<<k, Append(s, e)[i].buffer>> : i \in 1 .. n + 1}
      /\ \A i \in 1 .. n + 1 : T2[<<k, Append(s, e)[i].buffer>>] = Append(s, e)[i].piece
  <2> DEFINE r == Append(s, e)
  <2>1. r \in Seq(Entry) /\ L2[k] = r /\ Distinct(r) /\ DOMAIN r = 1 .. n + 1
    BY <1>1, <1>2
  <2> HIDE DEF r
  <2>2. IsTableOf(T2, k, r)
    BY <2>1, TableOfOneBoard
  <2> HIDE DEF T2
  <2>3. /\ T2 = [x \in DOMAIN T2 |-> T2[x]]
        /\ DOMAIN T2 = {<<k, r[i].buffer>> : i \in 1 .. n + 1}
        /\ \A i \in 1 .. n + 1 : T2[<<k, r[i].buffer>>] = r[i].piece
    BY <2>1, <2>2 DEF IsTableOf
  <2> QED BY <2>3 DEF r
<1> HIDE DEF T, T2
<1>5. b \notin DOMAIN T
  BY <1>1, <1>3
<1>6. e.piece \notin {T[x] : x \in DOMAIN T}
  <2>1. \A x \in DOMAIN T : \E i \in 1 .. n : T[x] = s[i].piece
    BY <1>3
  <2> QED BY <1>1, <2>1
<1>7. DOMAIN T2 = DOMAIN T \cup {b}
  <2>1. \A i \in 1 .. n + 1 : i = n + 1 \/ i \in 1 .. n
    BY <1>1
  <2>2. n + 1 \in 1 .. n + 1 /\ \A i \in 1 .. n : i \in 1 .. n + 1
    BY <1>1
  <2> QED BY <1>1, <1>3, <1>4, <2>1, <2>2
<1>8. T2[b] = e.piece
  <2>1. n + 1 \in 1 .. n + 1
    BY <1>1
  <2> QED BY <1>1, <1>4, <2>1
<1>9. \A x \in DOMAIN T : T2[x] = T[x]
  <2>1. \A i \in 1 .. n : T2[<<k, s[i].buffer>>] = s[i].piece
    BY <1>1, <1>4
  <2> QED BY <1>3, <2>1
<1> HIDE DEF b
<1>10. T2 = [x \in DOMAIN T \cup {b} |-> IF x = b THEN e.piece ELSE T[x]]
  BY <1>4, <1>5, <1>7, <1>8, <1>9
<1> QED BY <1>5, <1>6, <1>10 DEF T, T2, b, Grown

(* Distinct entries stay distinct.                                         *)
LEMMA TailIsDistinct ==
  ASSUME NEW s \in Seq(Entry), s # <<>>, Distinct(s)
  PROVE  Distinct(Tail(s))
<1> DEFINE n == Len(s)
<1>1. /\ n \in Nat \ {0} /\ DOMAIN s = 1 .. n /\ DOMAIN Tail(s) = 1 .. n - 1
      /\ \A i \in 1 .. n - 1 : Tail(s)[i] = s[i + 1]
  OBVIOUS
<1> HIDE DEF n
<1>2. \A i \in 1 .. n - 1 : i + 1 \in 1 .. n
  BY <1>1
<1>3. \A i, j \in 1 .. n - 1 : i + 1 = j + 1 => i = j
  BY <1>1
<1> QED BY <1>1, <1>2, <1>3 DEF Distinct

(* Taking the first entry off takes its buffer off the table.              *)
LEMMA TableShrinks ==
  ASSUME NEW M, NEW L, NEW L2, NEW k \in M, NEW s \in Seq(Entry), s # <<>>,
         L[k] = s, Distinct(s), \A m \in M : m # k => L[m] = <<>>,
         L2[k] = Tail(s), \A m \in M : m # k => L2[m] = <<>>
  PROVE  Shrunk(TableOf(M, L), TableOf(M, L2), <<k, Head(s).buffer>>) 
<1> DEFINE T == TableOf(M, L)
           T2 == TableOf(M, L2)
           b == <<k, Head(s).buffer>>
           n == Len(s)
<1>1. /\ n \in Nat \ {0} /\ DOMAIN s = 1 .. n /\ DOMAIN Tail(s) = 1 .. n - 1
           /\ Tail(s) \in Seq(Entry)
      /\ Head(s) = s[1] /\ \A i \in 1 .. n - 1 : Tail(s)[i] = s[i + 1]
  OBVIOUS
<1> HIDE DEF n
<1>2. Distinct(Tail(s))
  BY TailIsDistinct
<1>3. /\ DOMAIN T = {<<k, s[i].buffer>> : i \in 1 .. n}
      /\ \A i \in 1 .. n : T[<<k, s[i].buffer>>] = s[i].piece
  <2>1. IsTableOf(T, k, s)
    BY TableOfOneBoard
  <2> HIDE DEF T
  <2> QED BY <1>1, <2>1 DEF IsTableOf
<1>4. /\ T2 = [x \in DOMAIN T2 |-> T2[x]]
      /\ DOMAIN T2 = {<<k, Tail(s)[i].buffer>> : i \in 1 .. n - 1}
      /\ \A i \in 1 .. n - 1 : T2[<<k, Tail(s)[i].buffer>>] = Tail(s)[i].piece
  <2> DEFINE r == Tail(s)
  <2>1. r \in Seq(Entry) /\ L2[k] = r /\ Distinct(r) /\ DOMAIN r = 1 .. n - 1
    BY <1>1, <1>2
  <2> HIDE DEF r
  <2>2. IsTableOf(T2, k, r)
    BY <2>1, TableOfOneBoard
  <2> HIDE DEF T2
  <2>3. /\ T2 = [x \in DOMAIN T2 |-> T2[x]]
        /\ DOMAIN T2 = {<<k, r[i].buffer>> : i \in 1 .. n - 1}
        /\ \A i \in 1 .. n - 1 : T2[<<k, r[i].buffer>>] = r[i].piece
    BY <2>1, <2>2 DEF IsTableOf
  <2> QED BY <2>3 DEF r
<1> HIDE DEF T, T2
<1>5. 1 \in 1 .. n
  BY <1>1
<1>6. b \in DOMAIN T
  BY <1>1, <1>3, <1>5
<1>7. \A i \in 1 .. n : i = 1 \/ (i - 1 \in 1 .. n - 1 /\ Tail(s)[i - 1] = s[i])
  BY <1>1
<1>8. \A i \in 1 .. n - 1 : i + 1 \in 1 .. n /\ i + 1 # 1
  BY <1>1
<1>9. DOMAIN T2 = DOMAIN T \ {b}
  <2>1. \A x \in DOMAIN T2 : x \in DOMAIN T /\ x # b
    <3> SUFFICES ASSUME NEW i \in 1 .. n - 1
                 PROVE  <<k, Tail(s)[i].buffer>> \in DOMAIN T /\ <<k, Tail(s)[i].buffer>> # b
      BY <1>4
    <3>1. Tail(s)[i] = s[i + 1] /\ i + 1 \in 1 .. n /\ i + 1 # 1
      BY <1>1, <1>8
    <3>2. s[i + 1].buffer # s[1].buffer
      BY <1>1, <1>5, <3>1 DEF Distinct
    <3> QED BY <1>1, <1>3, <3>1, <3>2
  <2>2. \A x \in DOMAIN T : x = b \/ x \in DOMAIN T2
    <3> SUFFICES ASSUME NEW i \in 1 .. n
                 PROVE  <<k, s[i].buffer>> = b \/ <<k, s[i].buffer>> \in DOMAIN T2
      BY <1>3
    <3>1. CASE i = 1
      BY <1>1, <3>1
    <3>2. CASE i - 1 \in 1 .. n - 1 /\ Tail(s)[i - 1] = s[i]
      BY <1>4, <3>2
    <3> QED BY <1>7, <3>1, <3>2
  <2> QED BY <2>1, <2>2
<1>10. \A x \in DOMAIN T2 : T2[x] = T[x]
  <2>1. \A i \in 1 .. n - 1 : T2[<<k, s[i + 1].buffer>>] = s[i + 1].piece
    BY <1>1, <1>4
  <2>2. \A i \in 1 .. n - 1 : T[<<k, s[i + 1].buffer>>] = s[i + 1].piece
    BY <1>3, <1>8
  <2>3. \A x \in DOMAIN T2 : \E i \in 1 .. n - 1 : x = <<k, s[i + 1].buffer>>
    BY <1>1, <1>4
  <2> QED BY <2>1, <2>2, <2>3
<1> HIDE DEF b
<1>11. T2 = [x \in DOMAIN T \ {b} |-> T[x]]
  BY <1>4, <1>9, <1>10
<1> QED BY <1>6, <1>11 DEF T, T2, b, Shrunk

(* The table of the refinement is the table of the boards' lists.          *)
LEMMA ListIsTableOf ==
  /\ TableOf(Minors, list) = [x \in Entries |-> PieceOf(x)]
  /\ Minors' = Minors => TableOf(Minors, list') = [x \in Entries |-> PieceOf(x)]'
<1>1. TableOf(Minors, list) = [x \in Entries |-> PieceOf(x)]
  BY DEF TableOf, Entries, PieceOf
<1>2. ASSUME Minors' = Minors
      PROVE  TableOf(Minors, list') = [x \in Entries |-> PieceOf(x)]'
  BY <1>2 DEF TableOf, Entries, PieceOf
<1> QED BY <1>1, <1>2

(* The insertion of DMA_INITIALIZE is a step of the table.                 *)
LEMMA ListedOnce ==
  ASSUME Alone, LifeInv, EngineOK, ListOK, NEW t \in Threads, Describe(t), list' # list
  PROVE  /\ ListOK'
         /\ Table!Initialize(<<on, call[t].buffer>>, call[t].piece)
         /\ <<on, call[t].buffer>> \in (UNION {DOMAIN b : b \in Bars}) \X Buffer
         /\ call[t].piece \in Piece
<1> DEFINE s == list[on]
           e == [buffer |-> call[t].buffer, piece |-> call[t].piece]
<1>1. /\ call[t].at = "describe" /\ call[t].buffer \in Buffer /\ call[t].piece \in Piece
      /\ file \in {"held", "closing"} /\ on \in Minors /\ on' = on /\ ThreadOK(t)
           /\ Minors' = Minors
  BY DEF Describe, LifeInv, DataInv, CallOK, WithBuffer, InHand, Busy, FileOK, EngineOK, TableOK,
         loadVars, Minors
<1>2. /\ list \in [Minors -> Seq(Entry)] /\ s \in Seq(Entry) /\ e \in Entry /\ Distinct(s)
      /\ \A m \in Minors : m # on => list[m] = <<>>
  BY <1>1 DEF LifeInv, DataInv, PiecesOK, Entry, ListOK
<1>3. list' = [list EXCEPT ![on] = Append(@, e)]
  BY DEF Describe
<1>4. list'[on] = Append(s, e) /\ \A m \in Minors : m # on => list'[m] = <<>>
  BY <1>1, <1>2, <1>3
<1>5. e.buffer = call[t].buffer /\ e.piece = call[t].piece
  OBVIOUS
<1>6. \A i \in DOMAIN s : s[i].buffer # e.buffer /\ s[i].piece # e.piece
  BY <1>1, <1>5 DEF ThreadOK, InHand
<1> HIDE DEF e
<1>7. Distinct(Append(s, e))
  <2> DEFINE n == Len(s)
  <2>1. /\ n \in Nat /\ DOMAIN s = 1 .. n /\ DOMAIN Append(s, e) = 1 .. n + 1
        /\ Append(s, e)[n + 1] = e /\ \A i \in 1 .. n : Append(s, e)[i] = s[i]
    BY <1>2
  <2> HIDE DEF n
  <2>2. \A i \in 1 .. n + 1 : i = n + 1 \/ i \in 1 .. n
    BY <2>1
  <2> QED BY <1>2, <1>6, <2>1, <2>2 DEF Distinct
<1>8. ListOK'
  BY <1>1, <1>4, <1>7 DEF ListOK, Distinct
<1>9. Grown(TableOf(Minors, list), TableOf(Minors, list'), <<on, e.buffer>>, e.piece)
  <2> HIDE DEF s
  <2> DEFINE M == Minors
             L2 == list'
  <2>1. /\ on \in M /\ s \in Seq(Entry) /\ e \in Entry /\ list[on] = s /\ Distinct(s)
        /\ \A m \in M : m # on => list[m] = <<>>
        /\ L2[on] = Append(s, e) /\ \A m \in M : m # on => L2[m] = <<>>
        /\ \A i \in DOMAIN s : s[i].buffer # e.buffer /\ s[i].piece # e.piece
    BY <1>1, <1>2, <1>4, <1>6 DEF s
  <2> HIDE DEF M, L2
  <2>2. Grown(TableOf(M, list), TableOf(M, L2), <<on, e.buffer>>, e.piece)
    BY <2>1, TableGrows
  <2> QED BY <2>2 DEF M, L2
<1>10. Table!Initialize(<<on, call[t].buffer>>, call[t].piece)
  <2>1. Grown([x \in Entries |-> PieceOf(x)], [x \in Entries |-> PieceOf(x)]', <<on, e.buffer>>, e.piece)
    BY <1>1, <1>9, ListIsTableOf
  <2> QED BY <1>5, <2>1 DEF Table!Initialize, Table!Owned, Grown
<1>11. on \in UNION {DOMAIN b : b \in Bars}
  BY <1>1 DEF Minors, LifeInv, LoadInv, PlaceOK
<1> QED BY <1>1, <1>8, <1>10, <1>11

(* The freeing of a buffer is a step of the table.                         *)
LEMMA FreedOnce ==
  ASSUME LifeInv, ListOK, FreeBuffer
  PROVE  /\ ListOK'
         /\ Table!Release(<<on, Head(list[on]).buffer>>)
         /\ <<on, Head(list[on]).buffer>> \in (UNION {DOMAIN b : b \in Bars}) \X Buffer
<1> DEFINE s == list[on]
<1>1. /\ file = "freeing" /\ file' = "freeing" /\ on \in Minors /\ on' = on /\ s # <<>>
           /\ Minors' = Minors
  BY DEF FreeBuffer, LifeInv, FileOK, loadVars, Minors
<1>2. /\ list \in [Minors -> Seq(Entry)] /\ s \in Seq(Entry) /\ Distinct(s)
      /\ \A m \in Minors : m # on => list[m] = <<>>
  BY <1>1 DEF LifeInv, DataInv, PiecesOK, Entry, ListOK
<1>3. list' = [list EXCEPT ![on] = Tail(@)]
  BY DEF FreeBuffer
<1>4. list'[on] = Tail(s) /\ \A m \in Minors : m # on => list'[m] = <<>>
  BY <1>1, <1>2, <1>3
<1>5. Shrunk(TableOf(Minors, list), TableOf(Minors, list'), <<on, Head(s).buffer>>)
        /\ Distinct(Tail(s))
  <2> HIDE DEF s
  <2> DEFINE M == Minors
             L2 == list'
  <2>1. /\ on \in M /\ s \in Seq(Entry) /\ s # <<>> /\ list[on] = s /\ Distinct(s)
        /\ \A m \in M : m # on => list[m] = <<>>
        /\ L2[on] = Tail(s) /\ \A m \in M : m # on => L2[m] = <<>>
    BY <1>1, <1>2, <1>4 DEF s
  <2> HIDE DEF M, L2
  <2>2. Shrunk(TableOf(M, list), TableOf(M, L2), <<on, Head(s).buffer>>) /\ Distinct(Tail(s))
    <3>1. Shrunk(TableOf(M, list), TableOf(M, L2), <<on, Head(s).buffer>>)
      BY <2>1, TableShrinks
    <3>2. Distinct(Tail(s))
      BY <2>1, TailIsDistinct
    <3> QED BY <3>1, <3>2
  <2> QED BY <2>2 DEF M, L2
<1>6. ListOK'
  BY <1>1, <1>4, <1>5 DEF ListOK, Distinct
<1>7. Table!Release(<<on, Head(s).buffer>>)
  <2>1. Shrunk([x \in Entries |-> PieceOf(x)], [x \in Entries |-> PieceOf(x)]', <<on, Head(s).buffer>>)
    BY <1>1, <1>5, ListIsTableOf
  <2> QED BY <2>1 DEF Table!Release, Shrunk
<1>8. on \in UNION {DOMAIN b : b \in Bars} /\ Head(s).buffer \in Buffer
  <2>1. Head(s) \in Entry
    BY <1>1, <1>2
  <2> QED BY <1>1, <2>1 DEF Minors, LifeInv, LoadInv, PlaceOK, Entry
<1> QED BY <1>6, <1>7, <1>8

(* Every step is a step of the table, or leaves it as it is.               *)
LEMMA TableStep ==
  ASSUME Alone, LifeInv, EngineOK, ListOK, [Next]_vars
  PROVE  ListOK' /\ [Table!Next]_([e \in Entries |-> PieceOf(e)])
<1>1. CASE FreeBuffer
  BY <1>1, FreedOnce DEF Table!Next
<1>2. CASE \E t \in Threads : Describe(t) /\ list' # list
  BY <1>2, ListedOnce DEF Table!Next
<1>3. CASE list' = list /\ bars' = bars
  <2>1. Minors' = Minors /\ Buffer' = Buffer
    BY <1>3 DEF Minors, Buffer
  <2>2. Entries' = Entries /\ \A e : PieceOf(e)' = PieceOf(e)
    BY <1>3, <2>1 DEF Entries, PieceOf
  <2>3. ListOK'
    <3>1. CASE \E m \in Minors : Open(m)
      <4>1. \A m \in Minors : Distinct(list[m])
        BY <3>1 DEF Open, LifeInv, DataInv, PiecesOK, Distinct
      <4> QED BY <1>3, <3>1, <4>1 DEF Open, ListOK, Distinct
    <3>2. CASE on' = on /\ (file = "none" => file' = "none")
      BY <1>3, <3>2 DEF ListOK, Distinct
    <3>3. CASE Released
      BY <3>3 DEF Released, ListOK
    <3> QED BY <3>1, <3>2, <3>3
            DEF Next, Module, InitDescriptor, Board_Open, Close, Closing, ResetBoard, FreeBuffer,
                Library, Dma_Initialize, NextBuffer, ClearBuffer, Buffer_Setup, Dma_Start, Usable,
                InKernel, Search, Allocate, TellBoard, Describe, Die, Give_up, Enter, vars, dmaVars,
                LifeInv, DataInv, CallOK, Busy
  <2> QED BY <2>2, <2>3
<1>4. FreeBuffer \/ (\E t \in Threads : Describe(t) /\ list' # list)
        \/ (list' = list /\ bars' = bars)
  <2>1. CASE Module
    BY <2>1, ModuleIsLoad DEF Module, dmaVars
  <2>2. CASE InitDescriptor
    <3>1. on \in Minors /\ list[on] = <<>> /\ list \in [Minors -> Seq(Entry)]
      BY <2>2 DEF InitDescriptor, LifeInv, FileOK, DataInv, PiecesOK, Entry
    <3> QED BY <2>2, <3>1 DEF InitDescriptor, loadVars
  <2>3. CASE (\E m \in Minors : Open(m)) \/ Board_Open \/ Close \/ ResetBoard \/ Released
    BY <2>3 DEF Open, Board_Open, Close, ResetBoard, Released, loadVars
  <2>4. CASE \E t \in Threads : Library(t) \/ InKernel(t)
    BY <2>4 DEF Library, Dma_Initialize, NextBuffer, ClearBuffer, Buffer_Setup, Dma_Start,
                InKernel, Search, Allocate, TellBoard, Describe, Die, loadVars
  <2>5. CASE UNCHANGED vars
    BY <2>5 DEF vars, dmaVars, loadVars
  <2> QED BY <2>1, <2>2, <2>3, <2>4, <2>5 DEF Next, Closing
<1> QED BY <1>1, <1>2, <1>3, <1>4

(* While one thread initialises, the list implements the table: a buffer   *)
(* is entered once, with memory that no other buffer has, although the     *)
(* driver searches and extends the list without a lock.                    *)
THEOREM ListImplementsTable ==
  ASSUME Alone
  PROVE  Spec => DmaIsTable
<1>1. Init => ListOK /\ EngineOK /\ LifeInv
  BY EngineInitially, LifeInitially DEF Init, ListOK
<1>2. Init => Table!Init
  <2> SUFFICES ASSUME Init
               PROVE  Table!Init
    OBVIOUS
  <2>1. Entries = {}
    BY DEF Init, Entries
  <2> QED BY <2>1 DEF Table!Init
<1>3. LifeInv /\ EngineOK /\ [Next]_vars => EngineOK'
  BY EngineKept
<1>4. LifeInv /\ EngineOK /\ ListOK /\ [Next]_vars
        => ListOK' /\ [Table!Next]_([e \in Entries |-> PieceOf(e)])
  BY TableStep
<1> QED BY <1>1, <1>2, <1>3, <1>4, LifeInvariant, PTL DEF Spec, DmaIsTable, Table!Spec
=============================================================================
