--------------------------- MODULE DriverIrqProofs ---------------------------
(***************************************************************************)
(* Proofs about the interrupt path of the driver, for every number of      *)
(* processes, function blocks and queue slots: first about its ring of     *)
(* entries, then about the whole.                                          *)
(*                                                                         *)
(* The inductive invariant says, besides the properties proved, where the  *)
(* board can speak (only under a process that uses the device), what the   *)
(* handler can hold at each of its steps, and how far the unlocked         *)
(* clearing of open has got.                                               *)
(***************************************************************************)
EXTENDS DriverIrq, TLAPS, FiniteSetTheorems
-----------------------------------------------------------------------------
(* The interrupt ring, for every ring size and every set of entries.  Its  *)
(* inductive invariant is the type invariant with the agreement of the     *)
(* three counters; the refinement follows from it step by step.            *)

QueueInv == QueueTypeOK /\ RingConsistent

(* A marker never leaves the ring, and Advance is a step of one modulo the *)
(* size.                                                                   *)
LEMMA AdvanceInSlot ==
  ASSUME NEW m \in Slot
  PROVE  Advance(m) \in Slot
BY QueueAssumption DEF Advance, Slot

(* The cleared descriptor that the probe leaves has agreeing counters.     *)
LEMMA InitQueueInv == QueueInit => QueueInv
BY QueueAssumption
   DEF QueueInit, QueueInv, QueueTypeOK, RingConsistent, Slot, SlotAt

(* An add keeps the invariant: this is the lemma the composed driver cites *)
(* for every entry its handler queues.                                     *)
LEMMA AddKeepsQueueInv ==
  ASSUME QueueInv, NEW e \in Entry, IntQueueAdd(e)
  PROVE  QueueInv'
<1> USE QueueAssumption DEF QueueInv, QueueTypeOK, RingConsistent, Slot, SlotAt
<1>1. CASE int_queue_count < QueueSize
  <2>1. /\ interrupt_fb' = [interrupt_fb EXCEPT ![int_queue_in_marker] = e]
        /\ int_queue_in_marker' = Advance(int_queue_in_marker)
        /\ int_queue_count' = int_queue_count + 1
        /\ UNCHANGED <<int_queue_missed, int_queue_out_marker>>
    BY <1>1 DEF IntQueueAdd
  <2>2. QueueTypeOK'
    BY <1>1, <2>1, AdvanceInSlot
  <2>3. RingConsistent'
    BY <1>1, <2>1 DEF Advance
  <2> QED BY <2>2, <2>3
<1>2. CASE int_queue_count >= QueueSize
  BY <1>2 DEF IntQueueAdd, ring
<1> QED BY <1>1, <1>2

(* A removal (dequeue_interrupt) keeps the counters in range and in        *)
(* agreement.                                                              *)
LEMMA DequeueKeepsQueueInv ==
  ASSUME QueueInv, DequeueInterrupt
  PROVE  QueueInv'
BY QueueAssumption
   DEF QueueInv, QueueTypeOK, RingConsistent, Slot, SlotAt, DequeueInterrupt,
       Advance

(* The queue's part of init_device_desc, taken as a whole, brings the      *)
(* counters into agreement whatever they were.                             *)
LEMMA ResetKeepsQueueInv ==
  ASSUME QueueInv, ResetQueue
  PROVE  QueueInv'
BY QueueAssumption
   DEF QueueInv, QueueTypeOK, RingConsistent, Slot, SlotAt, ResetQueue

(* A step that leaves the descriptor's queue alone keeps the invariant.    *)
LEMMA StutterKeepsQueueInv ==
  ASSUME QueueInv, UNCHANGED queueVars
  PROVE  QueueInv'
BY DEF QueueInv, QueueTypeOK, RingConsistent, Slot, SlotAt, queueVars

(* The counters of the ring stay in range and agree with each other in     *)
(* every reachable state, for every ring size.                             *)
THEOREM RingIsConsistent == QueueSpec => [](QueueTypeOK /\ RingConsistent)
<1>1. QueueInv /\ [QueueNext]_queueVars => QueueInv'
  <2> SUFFICES ASSUME QueueInv, [QueueNext]_queueVars
               PROVE  QueueInv'
    OBVIOUS
  <2>1. ASSUME NEW e \in Entry, IntQueueAdd(e) PROVE QueueInv'
    BY <2>1, AddKeepsQueueInv
  <2>2. CASE DequeueInterrupt
    BY <2>2, DequeueKeepsQueueInv
  <2>3. CASE ResetQueue
    BY <2>3, ResetKeepsQueueInv
  <2>4. CASE UNCHANGED queueVars
    BY <2>4, StutterKeepsQueueInv
  <2> QED BY <2>1, <2>2, <2>3, <2>4 DEF QueueNext
<1> QED BY <1>1, InitQueueInv, PTL DEF QueueSpec, QueueInv
-----------------------------------------------------------------------------
(***************************************************************************)
(* The ring implements the bounded queue.                                  *)
(***************************************************************************)
(* The sequence that the ring stands for is one of entries, as long as     *)
(* int_queue_count says.                                                   *)
LEMMA ContentsIsSeq ==
  ASSUME QueueInv
  PROVE  /\ Contents \in Seq(Entry)
         /\ Len(Contents) = int_queue_count
         /\ DOMAIN Contents = 1 .. int_queue_count
BY QueueAssumption
   DEF Contents, QueueInv, QueueTypeOK, Slot, SlotAt

(* In particular the markers stay inside the ring and the count within its *)
(* size, whatever the size: int_queue_add and dequeue_interrupt index the  *)
(* array with them and check nothing.                                      *)
THEOREM QueueIsTyped == QueueSpec => []QueueTypeOK
<1>1. QueueTypeOK /\ RingConsistent => QueueTypeOK
  OBVIOUS
<1> QED BY <1>1, RingIsConsistent, PTL

(* int_queue_add appends the new entry to that sequence or, when the ring  *)
(* is full, drops the entry and counts it.                                 *)
LEMMA AddIsPutOrDrop ==
  ASSUME QueueInv, NEW e \in Entry, IntQueueAdd(e)
  PROVE  Fifo!Put(e) \/ Fifo!Drop
<1> USE QueueAssumption
<1>1. QueueInv'
  BY AddKeepsQueueInv
<1>2. CASE int_queue_count < QueueSize
  <2>1. /\ interrupt_fb' = [interrupt_fb EXCEPT ![int_queue_in_marker] = e]
        /\ int_queue_count' = int_queue_count + 1
        /\ UNCHANGED <<int_queue_missed, int_queue_out_marker>>
    BY <1>2 DEF IntQueueAdd, QueueInv, QueueTypeOK
  <2>2. Len(Contents) < QueueSize
    BY <1>2, ContentsIsSeq
  <2>3. Contents' = Append(Contents, e)
    <3>1. Contents' \in Seq(Entry) /\ DOMAIN Contents' = 1 .. int_queue_count + 1
      BY <1>1, <2>1
         DEF Contents, QueueInv, QueueTypeOK, RingConsistent, Slot, SlotAt
    <3>2. ASSUME NEW k \in 1 .. int_queue_count
          PROVE  Contents'[k] = Contents[k]
      BY <1>2, <2>1
         DEF Contents, QueueInv, QueueTypeOK, RingConsistent, Slot, SlotAt
    <3>3. Contents'[int_queue_count + 1] = e
      BY <1>2, <2>1
         DEF Contents, QueueInv, QueueTypeOK, RingConsistent, Slot, SlotAt
    <3> QED BY <3>1, <3>2, <3>3, ContentsIsSeq DEF QueueInv, QueueTypeOK
  <2> QED BY <2>1, <2>2, <2>3 DEF Fifo!Put
<1>3. CASE int_queue_count >= QueueSize
  <2>1. int_queue_missed' = int_queue_missed + 1 /\ UNCHANGED ring
    BY <1>3 DEF IntQueueAdd, QueueInv, QueueTypeOK
  <2>2. Contents' = Contents
    BY <2>1 DEF ring, Contents, SlotAt
  <2>3. Len(Contents) = QueueSize
    BY <1>3, ContentsIsSeq DEF QueueInv, QueueTypeOK
  <2> QED BY <2>1, <2>2, <2>3 DEF Fifo!Drop
<1> QED BY <1>2, <1>3 DEF QueueInv, QueueTypeOK

(* dequeue_interrupt takes the first entry of that sequence and leaves the *)
(* rest in order.                                                          *)
LEMMA DequeueIsTake ==
  ASSUME QueueInv, DequeueInterrupt
  PROVE  Fifo!Take
<1> USE QueueAssumption
<1>1. QueueInv'
  BY DequeueKeepsQueueInv
<1>2. /\ int_queue_count > 0
      /\ int_queue_count' = int_queue_count - 1
      /\ int_queue_out_marker' = Advance(int_queue_out_marker)
      /\ UNCHANGED <<interrupt_fb, int_queue_missed, int_queue_in_marker>>
  BY DEF DequeueInterrupt
<1>3. Contents # <<>>
  BY <1>2, ContentsIsSeq
<1>4. Contents' = Tail(Contents)
  <2>1. /\ Contents' \in Seq(Entry)
        /\ DOMAIN Contents' = 1 .. int_queue_count - 1
    BY <1>1, <1>2
       DEF Contents, QueueInv, QueueTypeOK, RingConsistent, Slot, SlotAt
  <2>2. ASSUME NEW k \in 1 .. int_queue_count - 1
        PROVE  Contents'[k] = Contents[k + 1]
    BY <1>2
       DEF Contents, QueueInv, QueueTypeOK, RingConsistent, Slot, SlotAt, Advance
  <2> QED BY <1>2, <2>1, <2>2, ContentsIsSeq DEF QueueInv, QueueTypeOK
<1> QED BY <1>2, <1>3, <1>4 DEF Fifo!Take

(* init_device_desc leaves an empty sequence and no missed interrupts.     *)
LEMMA ResetIsEmpty ==
  ASSUME QueueInv, ResetQueue
  PROVE  Fifo!Empty
BY DEF ResetQueue, Fifo!Empty, Contents

(* The cleared descriptor stands for the empty queue.                      *)
LEMMA EmptyRingIsEmptyFifo == QueueInit => Fifo!Init
BY DEF QueueInit, Fifo!Init, Contents

(* What does not touch the ring does not change what it stands for.        *)
LEMMA RingStutterIsFifoStutter ==
  ASSUME UNCHANGED queueVars
  PROVE  UNCHANGED Fifo!fifoVars
BY DEF queueVars, Fifo!fifoVars, Contents, SlotAt

(* The ring implements the bounded first-in first-out queue: nothing is    *)
(* lost, repeated or reordered between an add that fits and the removal    *)
(* that delivers it, and what does not fit is counted.                     *)
THEOREM RingImplementsFifo == QueueSpec => RingIsFifo
<1>1. QueueInv /\ [QueueNext]_queueVars => [Fifo!Next]_(Fifo!fifoVars)
  <2> SUFFICES ASSUME QueueInv, [QueueNext]_queueVars
               PROVE  [Fifo!Next]_(Fifo!fifoVars)
    OBVIOUS
  <2>1. ASSUME NEW e \in Entry, IntQueueAdd(e) PROVE Fifo!Next
    BY <2>1, AddIsPutOrDrop DEF Fifo!Next
  <2>2. CASE DequeueInterrupt
    BY <2>2, DequeueIsTake DEF Fifo!Next
  <2>3. CASE ResetQueue
    BY <2>3, ResetIsEmpty DEF Fifo!Next
  <2>4. CASE UNCHANGED queueVars
    BY <2>4, RingStutterIsFifoStutter
  <2> QED BY <2>1, <2>2, <2>3, <2>4 DEF QueueNext
<1>2. QueueSpec => []QueueInv
  BY RingIsConsistent DEF QueueInv
<1> QED BY <1>1, <1>2, EmptyRingIsEmptyFifo, PTL
        DEF QueueSpec, RingIsFifo, Fifo!Spec
-----------------------------------------------------------------------------
(* The driver, which puts entries on the ring and takes them off.          *)

BoardSilent ==
  irq_status = {} /\ dma_irq_status = {} /\ raised = {} /\ enabled = FALSE

SilentUnlessUsed == (\A p \in Procs : ~Using(p)) => BoardSilent

HandlerHolds ==
  /\ isr_pc \in {"idle", "check", "reset"} => fb_clear_mask = {}
  /\ isr_pc \notin {"read_dma", "scan"} => irq_register = {}
  /\ isr_pc # "scan" => dma_irq_register = {}

NothingReadUntilOpened ==
  (\A p \in Procs : pc[p] = "closed" \/ Initialising(p)) =>
    irq_register = {} /\ dma_irq_register = {} /\ fb_clear_mask = {}

ClearingIsQueued == fb_clear_mask # {} => int_queue_count > 0

ClearedSoFar ==
  \A p \in Procs :
    /\ pc[p] \in {"init_count", "init_in", "init_out"} => int_queue_missed = 0
    /\ pc[p] \in {"init_in", "init_out"} => int_queue_count = 0
    /\ pc[p] = "init_out" => int_queue_in_marker = 0

Support ==
  /\ SilentUnlessUsed
  /\ HandlerHolds
  /\ NothingReadUntilOpened
  /\ ClearingIsQueued
  /\ ClearedSoFar

DriverInv ==
  /\ DriverTypeOK
  /\ SingleUser
  /\ Support
  /\ RingSound
  /\ NoStrandedInterrupt
  /\ OverflowResetIsOwn
-----------------------------------------------------------------------------
(* Facts about single states and single queue operations.                  *)

(* A step that leaves the queue alone leaves alone all that is said of it. *)
LEMMA QueueUntouched ==
  ASSUME DriverInv, UNCHANGED queueVars
  PROVE  /\ QueueTypeOK'
         /\ (RingConsistent' <=> RingConsistent)
         /\ Contents' = Contents
BY DEF DriverInv, DriverTypeOK, queueVars, QueueTypeOK, RingConsistent,
       Contents, SlotAt, Slot

(* A process that has the device has it alone.                             *)
LEMMA UserIsAlone ==
  ASSUME DriverInv, NEW p \in Procs, pc[p] # "closed"
  PROVE  /\ reference_count = 1
         /\ \A q \in Procs : q # p => pc[q] = "closed"
BY DEF DriverInv, SingleUser

(* The handler queues an entry only while a process uses the device or is  *)
(* releasing it: the unlocked clearing of open is not under way.           *)
LEMMA NobodyInitialisesWhenQueueing ==
  ASSUME DriverInv, irq_register \cup dma_irq_register # {}
  PROVE  ~SomeoneInitialising /\ RingConsistent
<1>1. PICK p \in Procs : pc[p] # "closed" /\ ~Initialising(p)
  BY DEF DriverInv, Support, NothingReadUntilOpened
<1>2. \A q \in Procs : ~Initialising(q)
  BY <1>1, UserIsAlone DEF Initialising
<1> QED BY <1>2 DEF SomeoneInitialising, DriverInv, RingSound

(* While a process is clearing the descriptor the board is silent, the     *)
(* handler holds nothing, and nobody else has the device.                  *)
LEMMA QuietWhileInitialising ==
  ASSUME DriverInv, NEW p \in Procs, Initialising(p)
  PROVE  /\ BoardSilent
         /\ irq_register = {} /\ dma_irq_register = {} /\ fb_clear_mask = {}
         /\ \A q \in Procs : q # p => pc[q] = "closed"
<1>1. \A q \in Procs : q # p => pc[q] = "closed"
  BY UserIsAlone DEF Initialising
<1> QED BY <1>1 DEF DriverInv, Support, SilentUnlessUsed,
                    NothingReadUntilOpened, Initialising, Using
-----------------------------------------------------------------------------
(* The invariant holds at the start.                                       *)
LEMMA InitDriverInv == IrqInit => DriverInv
<1> SUFFICES ASSUME IrqInit PROVE DriverInv
  OBVIOUS
<1>1. QueueInv
  BY InitQueueInv DEF IrqInit
<1>2. DriverTypeOK
  <2>1. ZeroEntry \in Entry
    BY QueueAssumption
  <2>2. /\ QueueTypeOK /\ reference_count \in 0 .. 1
        /\ isr_word \in 0 .. 1
    BY <1>1 DEF IrqInit, QueueInv
  <2>3. pc \in [Procs -> {"closed"}] /\ held \in [Procs -> Entry]
    BY <2>1 DEF IrqInit
  <2> QED BY <2>2, <2>3 DEF IrqInit, DriverTypeOK
<1>3. SingleUser
  BY DEF IrqInit, SingleUser
<1>4. Support
  BY DEF IrqInit, Support, SilentUnlessUsed, BoardSilent, HandlerHolds,
         NothingReadUntilOpened, ClearingIsQueued, ClearedSoFar
<1>5. RingSound /\ NoStrandedInterrupt /\ OverflowResetIsOwn
  BY <1>1 DEF IrqInit, RingSound, NoStrandedInterrupt, OverflowResetIsOwn,
              QueueInv
<1> QED BY <1>2, <1>3, <1>4, <1>5 DEF DriverInv
-----------------------------------------------------------------------------
(* The board.                                                              *)

(* A new interrupt of the board keeps the invariant: it needs a user who   *)
(* configured the board, and its bit is set.                               *)
LEMMA RaiseKeepsInv ==
  ASSUME DriverInv, NEW e \in Sources, Raise(e)
  PROVE  DriverInv'
<1> USE DEF Raise, fileVars, isrVars
<1>1. DriverTypeOK'
  BY QueueUntouched, DriverAssumption DEF DriverInv, DriverTypeOK
<1>2. SingleUser'
  BY DEF DriverInv, SingleUser
<1>3. Support'
  BY DEF DriverInv, Support, SilentUnlessUsed, BoardSilent, HandlerHolds,
         NothingReadUntilOpened, ClearingIsQueued, ClearedSoFar, Using,
         Initialising, queueVars
<1>4. RingSound'
  BY QueueUntouched
     DEF DriverInv, RingSound, SomeoneInitialising, Initialising
<1>5. NoStrandedInterrupt'
  BY DEF DriverInv, NoStrandedInterrupt, BitSet, BitRead, AckDue, queueVars
<1>6. OverflowResetIsOwn'
  BY DEF DriverInv, OverflowResetIsOwn, queueVars
<1> QED BY <1>1, <1>2, <1>3, <1>4, <1>5, <1>6 DEF DriverInv
-----------------------------------------------------------------------------
(* The interrupt handler.                                                  *)

(* What the handler does between the queue and the board (its tests and    *)
(* its reads of the status registers) keeps the invariant, if it only      *)
(* gains bits, and only such as are set, and goes to the board reset only  *)
(* when too many interrupts were missed.                                   *)
LEMMA HandlerStepKeepsInv ==
  ASSUME DriverInv, UNCHANGED <<queueVars, boardVars, fileVars, fb_clear_mask>>,
         isr_pc' \in {"check", "reset", "read_irq", "read_dma", "scan",
                      "clear_irq"},
         isr_word' \in 0 .. 1,
         HandlerHolds',
         irq_register \subseteq irq_register',
         irq_register' \subseteq irq_register \cup irq_status,
         dma_irq_register \subseteq dma_irq_register',
         dma_irq_register' \subseteq dma_irq_register \cup dma_irq_status,
         isr_pc' = "reset" => int_queue_missed > MissedLimit
  PROVE  DriverInv'
<1> USE DEF boardVars, fileVars
<1>1. DriverTypeOK'
  BY QueueUntouched DEF DriverInv, DriverTypeOK
<1>2. SingleUser'
  BY DEF DriverInv, SingleUser
<1>3. Support'
  <2>1. ASSUME \A p \in Procs : pc[p] = "closed" \/ Initialising(p)
        PROVE  irq_status = {} /\ dma_irq_status = {}
    BY <2>1 DEF DriverInv, Support, SilentUnlessUsed, BoardSilent, Using,
                Initialising
  <2>2. NothingReadUntilOpened'
    BY <2>1 DEF DriverInv, Support, NothingReadUntilOpened, Initialising
  <2> QED BY <2>2 DEF DriverInv, Support, SilentUnlessUsed, BoardSilent,
                      ClearingIsQueued, ClearedSoFar, Using, queueVars
<1>4. RingSound'
  BY QueueUntouched
     DEF DriverInv, RingSound, SomeoneInitialising, Initialising
<1>5. NoStrandedInterrupt'
  BY DEF DriverInv, NoStrandedInterrupt, BitSet, BitRead, AckDue, queueVars
<1>6. OverflowResetIsOwn'
  BY DEF OverflowResetIsOwn, queueVars
<1> QED BY <1>1, <1>2, <1>3, <1>4, <1>5, <1>6 DEF DriverInv

(* The board reset after too many misses leaves a silent board.            *)
LEMMA IsrResetKeepsInv ==
  ASSUME DriverInv, IsrReset
  PROVE  DriverInv'
<1> USE DEF IsrReset, BoardReset, fileVars
<1>1. DriverTypeOK'
  BY QueueUntouched DEF DriverInv, DriverTypeOK
<1>2. SingleUser'
  BY DEF DriverInv, SingleUser
<1>3. Support'
  BY DEF DriverInv, Support, SilentUnlessUsed, BoardSilent, HandlerHolds,
         NothingReadUntilOpened, ClearingIsQueued, ClearedSoFar, Using,
         Initialising, queueVars
<1>4. RingSound'
  BY QueueUntouched
     DEF DriverInv, RingSound, SomeoneInitialising, Initialising
<1>5. NoStrandedInterrupt' /\ OverflowResetIsOwn'
  BY DEF NoStrandedInterrupt, OverflowResetIsOwn
<1> QED BY <1>1, <1>2, <1>3, <1>4, <1>5 DEF DriverInv

(* Queueing an interrupt keeps the invariant: the entry, or the full queue *)
(* that refused it, is what makes an acknowledgement due.                  *)
LEMMA IsrQueueKeepsInv ==
  ASSUME DriverInv, NEW fb \in FB, IsrQueue(fb)
  PROVE  DriverInv'
<1> DEFINE e == [fb |-> fb, dma |-> fb \in dma_irq_register]
<1> USE DEF IsrQueue, fileVars, boardVars
<1>1. e \in Entry /\ IntQueueAdd(e)
  BY DriverAssumption
<1>2. ~SomeoneInitialising /\ QueueInv
  BY NobodyInitialisesWhenQueueing
     DEF QueueInv, DriverInv, DriverTypeOK
<1>3. QueueInv'
  BY <1>1, <1>2, AddKeepsQueueInv
<1>4. int_queue_count' > 0 /\ int_queue_missed' >= int_queue_missed
  BY <1>1, <1>2, QueueAssumption
     DEF IntQueueAdd, QueueInv, QueueTypeOK, ring
<1>5. DriverTypeOK'
  BY <1>3 DEF QueueInv, DriverInv, DriverTypeOK
<1>6. SingleUser'
  BY DEF DriverInv, SingleUser
<1>7. Support'
  <2>1. NothingReadUntilOpened'
    BY DEF DriverInv, Support, NothingReadUntilOpened, Initialising
  <2>2. ClearedSoFar'
    BY <1>2 DEF ClearedSoFar, SomeoneInitialising, Initialising
  <2> QED BY <1>4, <2>1, <2>2
          DEF DriverInv, Support, SilentUnlessUsed, BoardSilent, HandlerHolds,
              ClearingIsQueued, Using
<1>8. RingSound'
  BY <1>3 DEF RingSound, QueueInv
<1>9. NoStrandedInterrupt' /\ OverflowResetIsOwn'
  BY <1>4 DEF NoStrandedInterrupt, AckDue, OverflowResetIsOwn
<1> QED BY <1>5, <1>6, <1>7, <1>8, <1>9 DEF DriverInv

(* Clearing a status register keeps the invariant: what the mask wipes is  *)
(* covered by the entries that put it in the mask.                         *)
LEMMA IsrClearKeepsInv ==
  ASSUME DriverInv, IsrClearIrq \/ IsrClearDma
  PROVE  DriverInv'
<1> USE DEF IsrClearIrq, IsrClearDma, fileVars
<1>1. DriverTypeOK'
  <2>1. isr_word' \in 0 .. 1 /\ QueueTypeOK'
    BY QueueUntouched DEF DriverInv, DriverTypeOK
  <2> QED BY <2>1 DEF DriverInv, DriverTypeOK
<1>2. SingleUser'
  BY DEF DriverInv, SingleUser
<1>3. Support'
  BY DEF DriverInv, Support, SilentUnlessUsed, BoardSilent, HandlerHolds,
         NothingReadUntilOpened, ClearingIsQueued, ClearedSoFar, Using,
         Initialising, queueVars
<1>4. RingSound'
  BY QueueUntouched
     DEF DriverInv, RingSound, SomeoneInitialising, Initialising
<1>5. NoStrandedInterrupt'
  <2>1. CASE fb_clear_mask = {}
    BY <2>1 DEF DriverInv, NoStrandedInterrupt, BitSet, BitRead, AckDue,
                queueVars
  <2>2. CASE fb_clear_mask # {}
    BY <2>2 DEF DriverInv, Support, ClearingIsQueued, NoStrandedInterrupt,
                AckDue, queueVars
  <2> QED BY <2>1, <2>2
<1>6. OverflowResetIsOwn'
  BY DEF OverflowResetIsOwn
<1> QED BY <1>1, <1>2, <1>3, <1>4, <1>5, <1>6 DEF DriverInv

(* Every step of the handler keeps the invariant.                          *)
LEMMA IsrKeepsInv ==
  ASSUME DriverInv, Isr
  PROVE  DriverInv'
<1>1. CASE IsrEnter
  BY <1>1, HandlerStepKeepsInv
     DEF IsrEnter, DriverInv, DriverTypeOK, Support, HandlerHolds
<1>2. CASE IsrCheck
  BY <1>2, HandlerStepKeepsInv
     DEF IsrCheck, DriverInv, DriverTypeOK, Support, HandlerHolds
<1>3. CASE IsrReset
  BY <1>3, IsrResetKeepsInv
<1>4. CASE IsrReadIrq
  BY <1>4, HandlerStepKeepsInv
     DEF IsrReadIrq, DriverInv, DriverTypeOK, Support, HandlerHolds
<1>5. CASE IsrReadDma
  BY <1>5, HandlerStepKeepsInv
     DEF IsrReadDma, DriverInv, DriverTypeOK, Support, HandlerHolds
<1>6. ASSUME NEW fb \in FB, IsrQueue(fb) PROVE DriverInv'
  BY <1>6, IsrQueueKeepsInv
<1>7. CASE IsrScanned
  BY <1>7, HandlerStepKeepsInv
     DEF IsrScanned, DriverInv, DriverTypeOK, Support, HandlerHolds
<1>8. CASE IsrClearIrq \/ IsrClearDma
  BY <1>8, IsrClearKeepsInv
<1> QED BY <1>1, <1>2, <1>3, <1>4, <1>5, <1>6, <1>7, <1>8 DEF Isr
-----------------------------------------------------------------------------
(* open.                                                                   *)

(* The claim of open keeps the invariant: it finds the device closed.      *)
LEMMA OpenKeepsInv ==
  ASSUME DriverInv, NEW p \in Procs, Open(p)
  PROVE  DriverInv'
<1> USE DEF Open, Goto, boardVars, isrVars
<1>1. \A q \in Procs : pc[q] = "closed"
  BY DEF DriverInv, SingleUser
<1>2. pc' \in [Procs -> {"closed", "init_missed"}] /\ pc'[p] = "init_missed"
      /\ \A q \in Procs : q # p => pc'[q] = "closed"
  BY <1>1 DEF DriverInv, DriverTypeOK
<1>3. DriverTypeOK'
  BY <1>2, QueueUntouched DEF DriverInv, DriverTypeOK
<1>4. SingleUser'
  BY <1>2 DEF DriverInv, SingleUser
<1>5. Support'
  BY <1>1, <1>2
     DEF DriverInv, Support, SilentUnlessUsed, BoardSilent, HandlerHolds,
         NothingReadUntilOpened, ClearingIsQueued, ClearedSoFar, Using,
         queueVars
<1>6. RingSound'
  BY <1>2 DEF RingSound, SomeoneInitialising, Initialising
<1>7. NoStrandedInterrupt' /\ OverflowResetIsOwn'
  BY <1>1 DEF DriverInv, Support, SilentUnlessUsed, BoardSilent, Using,
              NoStrandedInterrupt, OverflowResetIsOwn
<1> QED BY <1>3, <1>4, <1>5, <1>6, <1>7 DEF DriverInv

(* Clearing one field of the descriptor keeps the invariant: the board is  *)
(* silent and the handler holds nothing, and the last field cleared makes  *)
(* the ring whole.                                                         *)
LEMMA OpenInitKeepsInv ==
  ASSUME DriverInv, NEW p \in Procs, OpenInit(p)
  PROVE  DriverInv'
<1> USE DEF OpenInit, InitMissed, InitCount, InitInMarker, InitOutMarker, Goto,
        boardVars, isrVars
<1>1. Initialising(p)
  BY DEF Initialising
<1>2. /\ BoardSilent
      /\ irq_register = {} /\ dma_irq_register = {} /\ fb_clear_mask = {}
      /\ \A q \in Procs : q # p => pc[q] = "closed"
  BY <1>1, QuietWhileInitialising
<1>3. BoardSilent'
  BY <1>2 DEF BoardSilent
<1>4. /\ pc' \in [Procs -> {"closed", "init_count", "init_in", "init_out",
                            "open"}]
      /\ pc'[p] # "closed"
      /\ \A q \in Procs : q # p => pc'[q] = "closed"
  BY <1>2 DEF DriverInv, DriverTypeOK
<1>5. QueueTypeOK'
  BY QueueAssumption DEF DriverInv, DriverTypeOK, QueueTypeOK, Slot, ring
<1>6. DriverTypeOK'
  BY <1>4, <1>5 DEF DriverInv, DriverTypeOK
<1>7. SingleUser'
  BY <1>4, UserIsAlone, <1>1 DEF SingleUser, Initialising
<1>8. Support'
  <2>1. ClearedSoFar'
    BY <1>4 DEF DriverInv, DriverTypeOK, Support, ClearedSoFar, ring
  <2> QED BY <1>2, <1>3, <2>1
          DEF DriverInv, Support, SilentUnlessUsed, HandlerHolds,
              NothingReadUntilOpened, ClearingIsQueued
<1>9. RingSound'
  <2>1. CASE pc[p] = "init_out"
    <3>1. /\ int_queue_count' = 0
          /\ int_queue_in_marker' = 0 /\ int_queue_out_marker' = 0
      BY <2>1 DEF DriverInv, Support, ClearedSoFar
    <3> QED BY <3>1, QueueAssumption DEF RingSound, RingConsistent, SlotAt
  <2>2. CASE pc[p] # "init_out"
    <3>1. Initialising(p)'
      BY <2>2, <1>4 DEF Initialising, DriverInv, DriverTypeOK
    <3> QED BY <3>1 DEF RingSound, SomeoneInitialising
  <2> QED BY <2>1, <2>2
<1>10. NoStrandedInterrupt' /\ OverflowResetIsOwn'
  BY <1>3 DEF BoardSilent, NoStrandedInterrupt, OverflowResetIsOwn
<1> QED BY <1>6, <1>7, <1>8, <1>9, <1>10 DEF DriverInv
-----------------------------------------------------------------------------
(* ioctl and release.                                                      *)

(* A step of the process that has the device, to a state in which it still *)
(* has it and is not opening, keeps what relates the processes.            *)
LEMMA UserStepKeepsClaims ==
  ASSUME DriverInv, NEW p \in Procs, pc[p] # "closed", ~Initialising(p),
         NEW to \in {"open", "handling", "serviced", "failed", "releasing"},
         pc' = [pc EXCEPT ![p] = to],
         UNCHANGED reference_count
  PROVE  /\ pc' \in [Procs -> {"closed", "open", "handling", "serviced",
                               "failed", "releasing"}]
         /\ pc'[p] = to
         /\ SingleUser'
         /\ ~SomeoneInitialising /\ ~SomeoneInitialising'
         /\ NothingReadUntilOpened'
         /\ ClearedSoFar'
<1>1. /\ reference_count = 1
      /\ \A q \in Procs : q # p => pc[q] = "closed"
  BY UserIsAlone
<1>2. /\ pc' \in [Procs -> {"closed", "open", "handling", "serviced", "failed",
                            "releasing"}]
      /\ pc'[p] = to
      /\ \A q \in Procs : q # p => pc'[q] = "closed"
  BY <1>1 DEF DriverInv, DriverTypeOK
<1> QED BY <1>1, <1>2
        DEF SingleUser, SomeoneInitialising, Initialising,
            NothingReadUntilOpened, ClearedSoFar

(* A register write that lets the board interrupt keeps the invariant: the *)
(* lock keeps it out of a handler run that is about to reset the board.    *)
LEMMA ConfigureKeepsInv ==
  ASSUME DriverInv, NEW p \in Procs, Configure(p)
  PROVE  DriverInv'
<1> USE DEF Configure, LockFree, fileVars, isrVars
<1>1. DriverTypeOK'
  BY QueueUntouched DEF DriverInv, DriverTypeOK
<1>2. SingleUser'
  BY DEF DriverInv, SingleUser
<1>3. Support'
  BY DEF DriverInv, Support, SilentUnlessUsed, HandlerHolds, Using,
         NothingReadUntilOpened, ClearingIsQueued, ClearedSoFar,
         Initialising, queueVars
<1>4. RingSound'
  BY QueueUntouched
     DEF DriverInv, RingSound, SomeoneInitialising, Initialising
<1>5. NoStrandedInterrupt' /\ OverflowResetIsOwn'
  BY DEF DriverInv, NoStrandedInterrupt, BitSet, BitRead, AckDue,
         OverflowResetIsOwn, queueVars
<1> QED BY <1>1, <1>2, <1>3, <1>4, <1>5 DEF DriverInv

(* The fetch of an interrupt keeps the invariant, whether the copy to the  *)
(* user succeeds or not: no handler run is then between the queueing of an *)
(* entry and the clearing of its bits.                                     *)
LEMMA GetInterruptKeepsInv ==
  ASSUME DriverInv, NEW p \in Procs, GetInterrupt(p) \/ GetInterruptFault(p)
  PROVE  DriverInv'
<1> USE DEF GetInterrupt, GetInterruptFault, Goto, LockFree, boardVars, isrVars
<1>1. PICK to \in {"handling", "failed"} : pc' = [pc EXCEPT ![p] = to]
  OBVIOUS
<1>2. pc[p] = "open" /\ ~Initialising(p) /\ DequeueInterrupt
  BY DEF Initialising
<1>3. /\ pc' \in [Procs -> {"closed", "open", "handling", "serviced", "failed",
                            "releasing"}]
      /\ pc'[p] = to
      /\ SingleUser'
      /\ ~SomeoneInitialising /\ ~SomeoneInitialising'
      /\ NothingReadUntilOpened'
      /\ ClearedSoFar'
  BY <1>1, <1>2, UserStepKeepsClaims
<1>4. QueueInv /\ QueueInv'
  <2>1. QueueInv
    BY <1>3 DEF QueueInv, DriverInv, DriverTypeOK, RingSound
  <2> QED BY <1>2, <2>1, DequeueKeepsQueueInv
<1>5. NextEntry \in Entry
  BY <1>4 DEF QueueInv, QueueTypeOK, NextEntry
<1>6. DriverTypeOK'
  BY <1>3, <1>4, <1>5 DEF DriverInv, DriverTypeOK, QueueInv
<1>7. Support'
  BY <1>1, <1>2, <1>3
     DEF DriverInv, Support, SilentUnlessUsed, HandlerHolds, ClearingIsQueued,
         Using
<1>8. RingSound'
  BY <1>4 DEF RingSound, QueueInv
<1>9. NoStrandedInterrupt' /\ OverflowResetIsOwn'
  BY <1>1, <1>3 DEF NoStrandedInterrupt, AckDue, OverflowResetIsOwn
<1> QED BY <1>3, <1>6, <1>7, <1>8, <1>9 DEF DriverInv

(* Serving an interrupt keeps the invariant: its acknowledgement is due.   *)
LEMMA ServiceKeepsInv ==
  ASSUME DriverInv, NEW p \in Procs, Service(p)
  PROVE  DriverInv'
<1> USE DEF Service, Goto, LockFree, isrVars
<1>1. pc[p] = "handling" /\ ~Initialising(p)
  BY DEF Initialising
<1>2. /\ pc' \in [Procs -> {"closed", "open", "handling", "serviced", "failed",
                            "releasing"}]
      /\ pc'[p] = "serviced"
      /\ SingleUser'
      /\ ~SomeoneInitialising /\ ~SomeoneInitialising'
      /\ NothingReadUntilOpened'
      /\ ClearedSoFar'
  BY <1>1, UserStepKeepsClaims
<1>3. DriverTypeOK'
  BY <1>2, QueueUntouched DEF DriverInv, DriverTypeOK
<1>4. Support'
  BY <1>1, <1>2
     DEF DriverInv, Support, SilentUnlessUsed, HandlerHolds, ClearingIsQueued,
         Using, queueVars
<1>5. RingSound'
  BY <1>2, QueueUntouched DEF DriverInv, RingSound
<1>6. NoStrandedInterrupt' /\ OverflowResetIsOwn'
  BY <1>2 DEF NoStrandedInterrupt, AckDue, OverflowResetIsOwn
<1> QED BY <1>2, <1>3, <1>4, <1>5, <1>6 DEF DriverInv

(* The acknowledgement keeps the invariant: afterwards every interrupt     *)
(* that still asks for service has its bit set.                            *)
LEMMA AckKeepsInv ==
  ASSUME DriverInv, NEW p \in Procs, Ack(p)
  PROVE  DriverInv'
<1> USE DEF Ack, Goto, LockFree, isrVars
<1>1. pc[p] = "serviced" /\ ~Initialising(p)
  BY DEF Initialising
<1>2. /\ pc' \in [Procs -> {"closed", "open", "handling", "serviced", "failed",
                            "releasing"}]
      /\ pc'[p] = "open"
      /\ SingleUser'
      /\ ~SomeoneInitialising /\ ~SomeoneInitialising'
      /\ NothingReadUntilOpened'
      /\ ClearedSoFar'
  BY <1>1, UserStepKeepsClaims
<1>3. \A e \in raised : e \in [fb : FB, dma : BOOLEAN]
  BY DriverAssumption DEF DriverInv, DriverTypeOK
<1>4. DriverTypeOK'
  <2>1. QueueTypeOK' /\ ZeroEntry \in Entry
    BY QueueUntouched, QueueAssumption
  <2>2. irq_status' \subseteq FB /\ dma_irq_status' \subseteq FB
    BY <1>3 DEF DriverInv, DriverTypeOK
  <2>3. held' \in [Procs -> Entry]
    BY <2>1 DEF DriverInv, DriverTypeOK
  <2> QED BY <1>2, <2>1, <2>2, <2>3 DEF DriverInv, DriverTypeOK
<1>5. Support'
  BY <1>1, <1>2
     DEF DriverInv, Support, SilentUnlessUsed, HandlerHolds, ClearingIsQueued,
         Using, queueVars
<1>6. RingSound'
  BY <1>2, QueueUntouched DEF DriverInv, RingSound
<1>7. NoStrandedInterrupt'
  <2>1. \A e \in raised : BitSet(e)'
    BY DEF BitSet
  <2> QED BY <2>1 DEF NoStrandedInterrupt
<1>8. OverflowResetIsOwn'
  BY DEF OverflowResetIsOwn
<1> QED BY <1>2, <1>4, <1>5, <1>6, <1>7, <1>8 DEF DriverInv

(* The unlocked board reset of release keeps the invariant at any point of *)
(* a handler run.                                                          *)
LEMMA ReleaseResetKeepsInv ==
  ASSUME DriverInv, NEW p \in Procs, ReleaseReset(p)
  PROVE  DriverInv'
<1> USE DEF ReleaseReset, BoardReset, isrVars
<1>1. pc[p] # "closed" /\ ~Initialising(p)
  BY DEF Initialising, Using
<1>2. /\ pc' \in [Procs -> {"closed", "open", "handling", "serviced", "failed",
                            "releasing"}]
      /\ pc'[p] = "releasing"
      /\ SingleUser'
      /\ ~SomeoneInitialising /\ ~SomeoneInitialising'
      /\ NothingReadUntilOpened'
      /\ ClearedSoFar'
  BY <1>1, UserStepKeepsClaims
<1>3. DriverTypeOK'
  BY <1>2, QueueUntouched DEF DriverInv, DriverTypeOK
<1>4. Support'
  BY <1>2
     DEF DriverInv, Support, SilentUnlessUsed, BoardSilent, HandlerHolds,
         ClearingIsQueued, queueVars
<1>5. RingSound'
  BY <1>2, QueueUntouched DEF DriverInv, RingSound
<1>6. NoStrandedInterrupt' /\ OverflowResetIsOwn'
  BY DEF NoStrandedInterrupt, OverflowResetIsOwn
<1> QED BY <1>2, <1>3, <1>4, <1>5, <1>6 DEF DriverInv

(* The end of release keeps the invariant: it waits for the lock, so no    *)
(* handler run that saw the board speak outlives the claim.                *)
LEMMA ReleaseUnrefKeepsInv ==
  ASSUME DriverInv, NEW p \in Procs, ReleaseUnref(p)
  PROVE  DriverInv'
<1> USE DEF ReleaseUnref, Goto, LockFree, boardVars, isrVars
<1>1. /\ reference_count = 1
      /\ \A q \in Procs : q # p => pc[q] = "closed"
  BY UserIsAlone
<1>2. /\ pc' \in [Procs -> {"closed"}]
      /\ \A q \in Procs : pc'[q] = "closed"
  BY <1>1 DEF DriverInv, DriverTypeOK
<1>3. BoardSilent
  BY <1>1 DEF DriverInv, Support, SilentUnlessUsed, Using
<1>4. DriverTypeOK'
  <2>1. QueueTypeOK' /\ ZeroEntry \in Entry
    BY QueueUntouched, QueueAssumption
  <2>2. held' \in [Procs -> Entry]
    BY <2>1 DEF DriverInv, DriverTypeOK
  <2> QED BY <1>1, <1>2, <2>1, <2>2 DEF DriverInv, DriverTypeOK
<1>5. SingleUser'
  BY <1>1, <1>2 DEF SingleUser
<1>6. Support'
  BY <1>2, <1>3
     DEF DriverInv, Support, SilentUnlessUsed, BoardSilent, HandlerHolds,
         NothingReadUntilOpened, ClearingIsQueued, ClearedSoFar, queueVars
<1>7. RingSound'
  <2>1. ~SomeoneInitialising
    BY <1>1 DEF SomeoneInitialising, Initialising
  <2> QED BY <2>1, QueueUntouched DEF DriverInv, RingSound
<1>8. NoStrandedInterrupt' /\ OverflowResetIsOwn'
  BY <1>3 DEF BoardSilent, NoStrandedInterrupt, OverflowResetIsOwn
<1> QED BY <1>4, <1>5, <1>6, <1>7, <1>8 DEF DriverInv
-----------------------------------------------------------------------------
(* Every step of the driver keeps the invariant.                           *)
LEMMA NextKeepsInv == DriverInv /\ [Next]_vars => DriverInv'
<1> SUFFICES ASSUME DriverInv, [Next]_vars
             PROVE  DriverInv'
  OBVIOUS
<1>1. ASSUME NEW e \in Sources, Raise(e) PROVE DriverInv'
  BY <1>1, RaiseKeepsInv
<1>2. CASE Isr
  BY <1>2, IsrKeepsInv
<1>3. ASSUME NEW p \in Procs, Proc(p) PROVE DriverInv'
  BY <1>3, OpenKeepsInv, OpenInitKeepsInv, ConfigureKeepsInv,
     GetInterruptKeepsInv, ServiceKeepsInv, AckKeepsInv, ReleaseResetKeepsInv,
     ReleaseUnrefKeepsInv
     DEF Proc
<1>4. CASE UNCHANGED vars
  <2> USE <1>4 DEF vars, boardVars, fileVars, isrVars
  <2>1. DriverTypeOK' /\ SingleUser'
    BY QueueUntouched DEF DriverInv, DriverTypeOK, SingleUser
  <2>2. Support'
    BY DEF DriverInv, Support, SilentUnlessUsed, BoardSilent, HandlerHolds,
           NothingReadUntilOpened, ClearingIsQueued, ClearedSoFar, Using,
           Initialising, queueVars
  <2>3. RingSound'
    BY QueueUntouched
       DEF DriverInv, RingSound, SomeoneInitialising, Initialising
  <2>4. NoStrandedInterrupt' /\ OverflowResetIsOwn'
    BY DEF DriverInv, NoStrandedInterrupt, BitSet, BitRead, AckDue,
           OverflowResetIsOwn, queueVars
  <2> QED BY <2>1, <2>2, <2>3, <2>4 DEF DriverInv
<1> QED BY <1>1, <1>2, <1>3, <1>4 DEF Next

(* The invariant holds in every reachable state.                           *)
LEMMA DriverInvariant == Spec => []DriverInv
BY InitDriverInv, NextKeepsInv, PTL DEF Spec

(* Every variable of the driver, of the board and of the processes keeps   *)
(* to its values; in particular the reference count never exceeds 1 and    *)
(* the ring's markers never leave the array.                               *)
THEOREM DriverTypeCorrect == Spec => []DriverTypeOK
<1>1. DriverInv => DriverTypeOK
  BY DEF DriverInv
<1> QED BY <1>1, DriverInvariant, PTL

(* Two processes never have the device open at once (open answers EBUSY).  *)
THEOREM DeviceHasOneUser == Spec => []SingleUser
<1>1. DriverInv => SingleUser
  BY DEF DriverInv
<1> QED BY <1>1, DriverInvariant, PTL

(* open clears the descriptor outside the lock while the board is silent   *)
(* and the handler holds nothing.                                          *)
THEOREM OpenClearsInQuiet == Spec => []QuietUntilOpened
<1>1. DriverInv => QuietUntilOpened
  BY DEF DriverInv, Support, SilentUnlessUsed, NothingReadUntilOpened,
         BoardSilent, QuietUntilOpened, Using, Initialising
<1> QED BY <1>1, DriverInvariant, PTL

(* The handler, ioctl and the unlocked clearing of open together never     *)
(* bring the counters of the ring out of agreement.                        *)
THEOREM DriverRingSound == Spec => []RingSound
<1>1. DriverInv => RingSound
  BY DEF DriverInv
<1> QED BY <1>1, DriverInvariant, PTL

(* An interrupt whose status bit was wiped or whose entry was dropped is   *)
(* covered by an acknowledgement that is still due.                        *)
THEOREM NothingStranded == Spec => []NoStrandedInterrupt
<1>1. DriverInv => NoStrandedInterrupt
  BY DEF DriverInv
<1> QED BY <1>1, DriverInvariant, PTL

(* The handler resets a configured board only for an overflow of the       *)
(* present user's queue.                                                   *)
THEOREM ResetOnlyForOwnOverflow == Spec => []OverflowResetIsOwn
<1>1. DriverInv => OverflowResetIsOwn
  BY DEF DriverInv
<1> QED BY <1>1, DriverInvariant, PTL
-----------------------------------------------------------------------------
(***************************************************************************)
(* To its reader the driver's queue is the bounded queue, emptied when     *)
(* open claims the device.                                                 *)
(***************************************************************************)

(* A step that changes neither the queue nor whether open is clearing it   *)
(* does not change what the queue stands for.                              *)
LEMMA OtherStepsAreStutters ==
  ASSUME UNCHANGED queueVars, SomeoneInitialising' = SomeoneInitialising
  PROVE  UNCHANGED DriverFifo!fifoVars
BY DEF queueVars, Waiting, Missed, Contents, SlotAt, DriverFifo!fifoVars

(* What the handler queues is put in the bounded queue or dropped by it.   *)
LEMMA IsrQueueIsPutOrDrop ==
  ASSUME DriverInv, NEW fb \in FB, IsrQueue(fb)
  PROVE  DriverFifo!Next
<1> DEFINE e == [fb |-> fb, dma |-> fb \in dma_irq_register]
<1>1. e \in Entry /\ IntQueueAdd(e)
  BY DriverAssumption DEF IsrQueue
<1>2. ~SomeoneInitialising /\ QueueInv
  BY NobodyInitialisesWhenQueueing
     DEF QueueInv, DriverInv, DriverTypeOK, IsrQueue
<1>3. ~SomeoneInitialising'
  BY <1>2 DEF SomeoneInitialising, Initialising, IsrQueue, fileVars
<1> HIDE DEF e
<1>4. Fifo!Put(e) \/ Fifo!Drop
  BY <1>1, <1>2, AddIsPutOrDrop
<1>5. DriverFifo!Put(e) \/ DriverFifo!Drop
  BY <1>2, <1>3, <1>4
     DEF Fifo!Put, Fifo!Drop, DriverFifo!Put, DriverFifo!Drop, Waiting, Missed
<1> QED BY <1>1, <1>5 DEF DriverFifo!Next

(* The claim of open empties the bounded queue at once, and the field by   *)
(* field clearing that follows changes nothing more.                       *)
LEMMA OpenEmpties ==
  ASSUME DriverInv, NEW p \in Procs, Open(p) \/ OpenInit(p)
  PROVE  DriverFifo!Empty \/ UNCHANGED DriverFifo!fifoVars
<1>1. CASE Open(p)
  <2>1. Initialising(p)'
    BY <1>1 DEF Open, Goto, Initialising, DriverInv, DriverTypeOK
  <2> QED BY <2>1
          DEF DriverFifo!Empty, Waiting, Missed, SomeoneInitialising
<1>2. CASE InitOutMarker(p)
  <2>1. pc[p] = "init_out" /\ Initialising(p)
    BY <1>2 DEF InitOutMarker, Goto, Initialising
  <2>2. \A q \in Procs : ~Initialising(q)'
    BY <1>2, <2>1, QuietWhileInitialising
       DEF InitOutMarker, Goto, Initialising, DriverInv, DriverTypeOK
  <2>3. int_queue_count' = 0 /\ int_queue_missed' = 0
    BY <1>2, <2>1 DEF InitOutMarker, DriverInv, Support, ClearedSoFar
  <2> QED BY <2>1, <2>2, <2>3
          DEF DriverFifo!fifoVars, Waiting, Missed, Contents,
              SomeoneInitialising
<1>3. CASE InitMissed(p) \/ InitCount(p) \/ InitInMarker(p)
  <2>1. Initialising(p) /\ Initialising(p)'
    BY <1>3 DEF InitMissed, InitCount, InitInMarker, Goto, Initialising,
                DriverInv, DriverTypeOK
  <2> QED BY <2>1
          DEF DriverFifo!fifoVars, Waiting, Missed, SomeoneInitialising
<1> QED BY <1>1, <1>2, <1>3 DEF OpenInit

(* A fetch, delivered or lost in a failed copy, takes the oldest.          *)
LEMMA GetInterruptIsTake ==
  ASSUME DriverInv, NEW p \in Procs, GetInterrupt(p) \/ GetInterruptFault(p)
  PROVE  DriverFifo!Take
<1> USE DEF GetInterrupt, GetInterruptFault, Goto
<1>1. PICK to \in {"handling", "failed"} : pc' = [pc EXCEPT ![p] = to]
  OBVIOUS
<1>2. pc[p] = "open" /\ ~Initialising(p) /\ DequeueInterrupt
  BY DEF Initialising
<1>3. ~SomeoneInitialising /\ ~SomeoneInitialising'
  BY <1>1, <1>2, UserStepKeepsClaims
<1>4. Fifo!Take
  BY <1>2, <1>3, DequeueIsTake
     DEF QueueInv, DriverInv, DriverTypeOK, RingSound
<1> QED BY <1>3, <1>4 DEF Fifo!Take, DriverFifo!Take, Waiting, Missed

(* The other calls of a process leave the queue alone.                     *)
LEMMA OtherCallsAreStutters ==
  ASSUME DriverInv, NEW p \in Procs,
         Configure(p) \/ Service(p) \/ Ack(p) \/ ReleaseReset(p)
           \/ ReleaseUnref(p)
  PROVE  UNCHANGED DriverFifo!fifoVars
<1>1. UNCHANGED queueVars
  BY DEF Configure, Service, Ack, ReleaseReset, ReleaseUnref
<1>2. pc[p] # "closed" /\ ~Initialising(p)
  BY DEF Configure, Service, Ack, ReleaseReset, ReleaseUnref, Goto, Using,
         Initialising
<1>3. \A q \in Procs : q # p => pc[q] = "closed"
  BY <1>2, UserIsAlone
<1>4. ~SomeoneInitialising
  BY <1>2, <1>3 DEF SomeoneInitialising, Initialising
<1>5. \A q \in Procs : ~Initialising(q)'
  BY <1>2, <1>3
     DEF Configure, Service, Ack, ReleaseReset, ReleaseUnref, Goto, fileVars,
         Initialising, DriverInv, DriverTypeOK
<1> QED BY <1>1, <1>4, <1>5, OtherStepsAreStutters DEF SomeoneInitialising

(* The interrupt path implements the bounded first-in first-out queue: the *)
(* handler, the readers and the unlocked clearing of open never make the   *)
(* reader miss, repeat or reorder what was queued for it.                  *)
THEOREM DriverImplementsFifo == Spec => DriverIsFifo
<1>1. IrqInit => DriverFifo!Init
  BY DEF IrqInit, QueueInit, DriverFifo!Init, Waiting, Missed, Contents,
         SomeoneInitialising, Initialising
<1>2. DriverInv /\ [Next]_vars => [DriverFifo!Next]_(DriverFifo!fifoVars)
  <2> SUFFICES ASSUME DriverInv, [Next]_vars
               PROVE  [DriverFifo!Next]_(DriverFifo!fifoVars)
    OBVIOUS
  <2>1. CASE UNCHANGED <<queueVars, pc>>
    BY <2>1, OtherStepsAreStutters DEF SomeoneInitialising, Initialising
  <2>2. ASSUME NEW fb \in FB, IsrQueue(fb) PROVE DriverFifo!Next
    BY <2>2, IsrQueueIsPutOrDrop
  <2>3. ASSUME NEW p \in Procs, Proc(p)
        PROVE  [DriverFifo!Next]_(DriverFifo!fifoVars)
    BY <2>3, OpenEmpties, GetInterruptIsTake, OtherCallsAreStutters
       DEF Proc, DriverFifo!Next
  <2>4. CASE Isr /\ \A fb \in FB : ~IsrQueue(fb)
    BY <2>4, <2>1
       DEF Isr, IsrEnter, IsrCheck, IsrReset, IsrReadIrq, IsrReadDma,
           IsrScanned, IsrClearIrq, IsrClearDma, fileVars
  <2>5. ASSUME NEW e \in Sources, Raise(e) PROVE UNCHANGED <<queueVars, pc>>
    BY <2>5 DEF Raise, fileVars
  <2> QED BY <2>1, <2>2, <2>3, <2>4, <2>5 DEF Next, vars, fileVars
<1> QED BY <1>1, <1>2, DriverInvariant, PTL
        DEF Spec, DriverIsFifo, DriverFifo!Spec
-----------------------------------------------------------------------------
(***************************************************************************)
(* The count of missed interrupts.  A handler run that passed the test     *)
(* with at most MissedLimit misses can add one for each bit it reads, two  *)
(* for a function block: the bits it holds, with the misses counted so     *)
(* far, stay within what the words read up to now allow.                   *)
(***************************************************************************)
Running == isr_pc \in {"read_irq", "read_dma", "scan"}

\* What the words before the one in work may have added.
Allowance == MissedLimit + IF isr_word = 0 THEN 0 ELSE 2 * Cardinality(WordFB(0))

BitsOfWord ==
  irq_register \subseteq WordFB(isr_word) /\ dma_irq_register \subseteq WordFB(isr_word)

MissedInv ==
  /\ MissedBounded
  /\ Running => BitsOfWord
  /\ isr_pc \in {"read_irq", "read_dma"} => int_queue_missed <= Allowance
  /\ isr_pc = "scan" =>
       int_queue_missed + Cardinality(irq_register)
         + Cardinality(dma_irq_register)
       <= Allowance + 2 * Cardinality(WordFB(isr_word))

(* The two words share the function blocks between them.                   *)
LEMMA WordsPartitionBlocks ==
  /\ IsFiniteSet(WordFB(0)) /\ IsFiniteSet(WordFB(1))
  /\ Cardinality(WordFB(0)) \in Nat /\ Cardinality(WordFB(1)) \in Nat
  /\ Cardinality(WordFB(0)) + Cardinality(WordFB(1)) = NumFB
<1>1. IsFiniteSet(FB) /\ Cardinality(FB) = NumFB
  BY FS_Interval, DriverAssumption DEF FB
<1>2. WordFB(0) \in SUBSET FB /\ WordFB(1) \in SUBSET FB
  BY DEF WordFB
<1>3. IsFiniteSet(WordFB(0)) /\ IsFiniteSet(WordFB(1))
  BY <1>1, <1>2, FS_Subset
<1>4. WordFB(0) \cup WordFB(1) = FB /\ WordFB(0) \cap WordFB(1) = {}
  BY DEF WordFB
<1>5. Cardinality(FB) = Cardinality(WordFB(0)) + Cardinality(WordFB(1))
                        - Cardinality({})
  BY <1>3, <1>4, FS_Union
<1> QED BY <1>1, <1>3, <1>5, FS_CardinalityType, FS_EmptySet

(* Bits of one word are finitely many, at most its function blocks.        *)
LEMMA BitsFit ==
  ASSUME NEW w \in 0 .. 1, NEW S \in SUBSET WordFB(w)
  PROVE  /\ IsFiniteSet(S) /\ Cardinality(S) \in Nat
         /\ Cardinality(S) <= Cardinality(WordFB(w))
BY WordsPartitionBlocks, FS_Subset, FS_CardinalityType

(* Queueing an entry uses up a bit for the miss that it may add.           *)
LEMMA IsrQueueKeepsMissedInv ==
  ASSUME DriverInv, MissedInv, NEW fb \in FB, IsrQueue(fb)
  PROVE  MissedInv'
<1> USE DEF IsrQueue
<1>1. /\ isr_word \in 0 .. 1 /\ int_queue_missed \in Nat
      /\ isr_pc = "scan" /\ BitsOfWord
  BY DEF DriverInv, DriverTypeOK, QueueTypeOK, MissedInv, Running
<1>2. int_queue_missed' \in Nat /\ int_queue_missed' <= int_queue_missed + 1
  BY <1>1 DEF IntQueueAdd
<1>3. /\ IsFiniteSet(irq_register) /\ Cardinality(irq_register) \in Nat
      /\ IsFiniteSet(dma_irq_register) /\ Cardinality(dma_irq_register) \in Nat
  BY <1>1, BitsFit DEF BitsOfWord
<1>4. /\ Cardinality(irq_register') \in Nat
      /\ Cardinality(dma_irq_register') \in Nat
      /\ Cardinality(irq_register') + Cardinality(dma_irq_register') + 1
           = Cardinality(irq_register) + Cardinality(dma_irq_register)
  <2>1. CASE fb \in dma_irq_register
    <3>1. irq_register' = irq_register /\ dma_irq_register' = dma_irq_register \ {fb}
      BY <2>1
    <3>2. Cardinality(dma_irq_register \ {fb}) = Cardinality(dma_irq_register) - 1
      BY <1>3, <2>1, FS_RemoveElement
    <3>3. Cardinality(dma_irq_register \ {fb}) \in Nat
      BY <1>3, FS_RemoveElement, FS_CardinalityType
    <3> QED BY <1>3, <3>1, <3>2, <3>3
  <2>2. CASE fb \notin dma_irq_register
    <3>1. /\ irq_register' = irq_register \ {fb} /\ fb \in irq_register
          /\ dma_irq_register' = dma_irq_register
      BY <2>2
    <3>2. Cardinality(irq_register') = Cardinality(irq_register) - 1
      BY <1>3, <3>1, FS_RemoveElement
    <3>3. Cardinality(irq_register') \in Nat
      BY <1>3, <3>1, FS_RemoveElement, FS_CardinalityType
    <3>4. Cardinality(dma_irq_register') = Cardinality(dma_irq_register)
      BY <3>1
    <3> HIDE DEF IsrQueue
    <3> QED BY <1>3, <3>2, <3>3, <3>4
  <2> QED BY <2>1, <2>2
<1>5. /\ Allowance \in Nat /\ Cardinality(WordFB(isr_word)) \in Nat
      /\ Allowance + 2 * Cardinality(WordFB(isr_word)) <= MissedLimit + 2 * NumFB
  BY <1>1, WordsPartitionBlocks, DriverAssumption DEF Allowance
<1>6. int_queue_missed' + Cardinality(irq_register') + Cardinality(dma_irq_register')
        <= Allowance + 2 * Cardinality(WordFB(isr_word))
  BY <1>1, <1>2, <1>3, <1>4, <1>5 DEF MissedInv
<1>7. MissedBounded'
  BY <1>2, <1>4, <1>5, <1>6, DriverAssumption DEF MissedBounded
<1>8. BitsOfWord'
  BY <1>1 DEF BitsOfWord, WordFB
<1>9. UNCHANGED <<isr_pc, isr_word>>
  OBVIOUS
<1> QED BY <1>1, <1>6, <1>7, <1>8, <1>9 DEF MissedInv, Allowance, WordFB

(* A step that leaves the count of misses and the handler alone, or clears *)
(* the count, keeps the bound.                                             *)
LEMMA OtherStepsKeepMissedInv ==
  ASSUME DriverInv, MissedInv, UNCHANGED isrVars,
         int_queue_missed' = int_queue_missed \/ int_queue_missed' = 0
  PROVE  MissedInv'
<1>1. /\ int_queue_missed \in Nat /\ int_queue_missed' \in Nat
      /\ int_queue_missed' <= int_queue_missed
  BY DEF DriverInv, DriverTypeOK, QueueTypeOK
<1>2. /\ Allowance \in Nat /\ Cardinality(WordFB(isr_word)) \in Nat
  BY WordsPartitionBlocks, DriverAssumption
     DEF Allowance, DriverInv, DriverTypeOK
<1>3. Running => /\ Cardinality(irq_register) \in Nat
                 /\ Cardinality(dma_irq_register) \in Nat
  BY BitsFit DEF MissedInv, BitsOfWord, DriverInv, DriverTypeOK
<1>4. MissedBounded'
  BY <1>1, DriverAssumption DEF MissedInv, MissedBounded
<1>5. /\ UNCHANGED <<isr_pc, isr_word, irq_register, dma_irq_register>>
      /\ Allowance' = Allowance /\ WordFB(isr_word)' = WordFB(isr_word)
  BY DEF isrVars, Allowance, WordFB
<1> QED BY <1>1, <1>2, <1>3, <1>4, <1>5 DEF MissedInv, Running, BitsOfWord

(* The steps of the handler that queue nothing keep the bound: the test    *)
(* lets only a run with few misses through, a read takes the bits of one   *)
(* word, and the upper word is begun when those of the lower are used up.  *)
LEMMA IsrKeepsMissedInv ==
  ASSUME DriverInv, MissedInv, Isr
  PROVE  MissedInv'
<1>1. /\ int_queue_missed \in Nat /\ isr_word \in 0 .. 1 /\ MissedLimit \in Nat
  BY DriverAssumption DEF DriverInv, DriverTypeOK, QueueTypeOK
<1>2. ASSUME UNCHANGED int_queue_missed PROVE MissedBounded'
  BY <1>2 DEF MissedInv, MissedBounded
<1>3. CASE IsrEnter \/ IsrReset \/ IsrClearIrq \/ IsrClearDma
  <2>1. UNCHANGED int_queue_missed
    BY <1>3 DEF IsrEnter, IsrReset, IsrClearIrq, IsrClearDma, queueVars
  <2>2. isr_pc' \in {"check", "idle", "clear_irq", "clear_dma"}
    BY <1>3 DEF IsrEnter, IsrReset, IsrClearIrq, IsrClearDma
  <2> QED BY <1>2, <2>1, <2>2 DEF MissedInv, Running
<1>4. CASE IsrCheck
  <2>1. UNCHANGED int_queue_missed /\ isr_word' = 0
        /\ irq_register' = {} /\ dma_irq_register' = {}
    BY <1>4 DEF IsrCheck, queueVars, DriverInv, Support, HandlerHolds
  <2>2. \/ isr_pc' = "reset"
        \/ isr_pc' = "read_irq" /\ int_queue_missed <= MissedLimit
    BY <1>1, <1>4 DEF IsrCheck
  <2>3. Allowance' = MissedLimit
    BY <1>1, <2>1 DEF Allowance
  <2>4. MissedBounded' /\ BitsOfWord'
    BY <1>2, <2>1 DEF BitsOfWord
  <2>5. int_queue_missed' = int_queue_missed
    BY <2>1
  <2> QED BY <2>2, <2>3, <2>4, <2>5 DEF MissedInv
<1>5. CASE IsrReadIrq
  <2>1. /\ UNCHANGED <<int_queue_missed, isr_word>>
        /\ isr_pc = "read_irq" /\ isr_pc' = "read_dma"
        /\ irq_register' \subseteq WordFB(isr_word) /\ dma_irq_register' = {}
    BY <1>5 DEF IsrReadIrq, queueVars, DriverInv, Support, HandlerHolds
  <2>2. Allowance' = Allowance /\ WordFB(isr_word)' = WordFB(isr_word)
    BY <2>1 DEF Allowance, WordFB
  <2> QED BY <1>2, <2>1, <2>2 DEF MissedInv, Running, BitsOfWord
<1>6. CASE IsrReadDma
  <2>1. /\ UNCHANGED <<int_queue_missed, isr_word, irq_register>>
        /\ isr_pc = "read_dma" /\ isr_pc' = "scan"
        /\ irq_register \subseteq WordFB(isr_word)
        /\ dma_irq_register' \subseteq WordFB(isr_word)
    BY <1>6 DEF IsrReadDma, queueVars, MissedInv, Running, BitsOfWord
  <2>2. Allowance' = Allowance /\ WordFB(isr_word)' = WordFB(isr_word)
    BY <2>1 DEF Allowance, WordFB
  <2>3. /\ Cardinality(irq_register) \in Nat
        /\ Cardinality(irq_register) <= Cardinality(WordFB(isr_word))
        /\ Cardinality(dma_irq_register') \in Nat
        /\ Cardinality(dma_irq_register') <= Cardinality(WordFB(isr_word))
    BY <1>1, <2>1, BitsFit
  <2>4. Allowance \in Nat /\ Cardinality(WordFB(isr_word)) \in Nat
    BY <1>1, WordsPartitionBlocks DEF Allowance
  <2> QED BY <1>1, <1>2, <2>1, <2>2, <2>3, <2>4
          DEF MissedInv, Running, BitsOfWord
<1>7. CASE IsrScanned
  <2>1. /\ UNCHANGED int_queue_missed /\ isr_pc = "scan"
        /\ irq_register = {} /\ dma_irq_register = {}
        /\ irq_register' = {} /\ dma_irq_register' = {}
        /\ isr_pc' = (IF isr_word = 0 THEN "read_irq" ELSE "clear_irq")
        /\ isr_word' = 1 - isr_word
    BY <1>7 DEF IsrScanned, queueVars
  <2>2. isr_word = 0 =>
          int_queue_missed <= MissedLimit + 2 * Cardinality(WordFB(0))
    BY <1>1, <2>1, FS_EmptySet, WordsPartitionBlocks DEF MissedInv, Allowance
  <2> QED BY <1>1, <1>2, <2>1, <2>2
          DEF MissedInv, Running, BitsOfWord, Allowance
<1>8. ASSUME NEW fb \in FB, IsrQueue(fb) PROVE MissedInv'
  BY <1>8, IsrQueueKeepsMissedInv
<1> QED BY <1>3, <1>4, <1>5, <1>6, <1>7, <1>8 DEF Isr

(* The count of missed interrupts never passes TOO_MANY_MISSED_IRQ by more *)
(* than the two bits that each function block has in the registers.        *)
THEOREM MissedCountBounded == Spec => []MissedBounded
<1>1. IrqInit => MissedInv
  BY DriverAssumption
     DEF IrqInit, QueueInit, MissedInv, MissedBounded, Running
<1>2. DriverInv /\ MissedInv /\ [Next]_vars => MissedInv'
  <2> SUFFICES ASSUME DriverInv, MissedInv, [Next]_vars
               PROVE  MissedInv'
    OBVIOUS
  <2>1. CASE Isr
    BY <2>1, IsrKeepsMissedInv
  <2>2. CASE \E e \in Sources : Raise(e)
    BY <2>2, OtherStepsKeepMissedInv DEF Raise, queueVars
  <2>3. ASSUME NEW p \in Procs, Proc(p)
        PROVE  /\ UNCHANGED isrVars
               /\ int_queue_missed' = int_queue_missed \/ int_queue_missed' = 0
    BY <2>3
       DEF Proc, Open, OpenInit, InitMissed, InitCount, InitInMarker,
           InitOutMarker, Configure, GetInterrupt, GetInterruptFault, Service,
           Ack, ReleaseReset, ReleaseUnref, DequeueInterrupt, queueVars
  <2>4. CASE UNCHANGED vars
    BY <2>4, OtherStepsKeepMissedInv DEF vars, queueVars
  <2> QED BY <2>1, <2>2, <2>3, <2>4, OtherStepsKeepMissedInv DEF Next
<1>3. MissedInv => MissedBounded
  BY DEF MissedInv
<1> QED BY <1>1, <1>2, <1>3, DriverInvariant, PTL DEF Spec
=============================================================================
