------------------------------ MODULE IntQueue ------------------------------
(***************************************************************************)
(* The interrupt queue of a device descriptor (driver/rtd-dm35425.c): a    *)
(* ring of DM35425_INT_QUEUE_SIZE ints with an insertion marker, a removal *)
(* marker, an element count and a count of what did not fit.               *)
(*                                                                         *)
(* Every operation but the reset is called with device_lock held, so each  *)
(* is one action here.  An entry is the int the driver queues: a function  *)
(* block number, with the sign bit telling a DMA interrupt from another.   *)
(***************************************************************************)
EXTENDS Integers, Sequences

CONSTANTS
  QueueSize,     \* DM35425_INT_QUEUE_SIZE
  Entry,         \* the ints the interrupt handler may queue
  ZeroEntry,     \* the int 0 that the cleared descriptor holds in every slot
  MissedBound    \* bound of the model on int_queue_missed

ASSUME QueueAssumption ==
  /\ QueueSize \in Nat \ {0}
  /\ ZeroEntry \in Entry
  /\ MissedBound \in Nat

VARIABLES
  interrupt_fb,          \* the slots
  int_queue_missed,
  int_queue_count,
  int_queue_in_marker,
  int_queue_out_marker

ring == <<interrupt_fb, int_queue_count, int_queue_in_marker,
          int_queue_out_marker>>
queueVars == <<interrupt_fb, int_queue_missed, int_queue_count,
               int_queue_in_marker, int_queue_out_marker>>

Slot == 0 .. QueueSize - 1

\* A plausible error: the wrap is tested one slot late.
Advance_LateWrap(marker) == IF marker = QueueSize THEN 0 ELSE marker + 1

\* A marker one slot further, back at 0 behind the last slot.
Advance(marker) == IF marker + 1 = QueueSize THEN 0 ELSE marker + 1

QueueInit ==
  /\ interrupt_fb = [s \in Slot |-> ZeroEntry]
  /\ int_queue_missed = 0
  /\ int_queue_count = 0
  /\ int_queue_in_marker = 0
  /\ int_queue_out_marker = 0

\* A plausible error: a full ring overwrites its oldest entry.
IntQueueAdd_Overwrites(e) ==
  /\ interrupt_fb' = [interrupt_fb EXCEPT ![int_queue_in_marker] = e]
  /\ int_queue_in_marker' = Advance(int_queue_in_marker)
  /\ IF int_queue_count < QueueSize
     THEN /\ int_queue_count' = int_queue_count + 1
          /\ UNCHANGED <<int_queue_missed, int_queue_out_marker>>
     ELSE /\ int_queue_missed' = int_queue_missed + 1
          /\ int_queue_out_marker' = Advance(int_queue_out_marker)
          /\ UNCHANGED int_queue_count

IntQueueAdd(e) ==
  \/ /\ int_queue_count < QueueSize
     /\ interrupt_fb' = [interrupt_fb EXCEPT ![int_queue_in_marker] = e]
     /\ int_queue_in_marker' = Advance(int_queue_in_marker)
     /\ int_queue_count' = int_queue_count + 1
     /\ UNCHANGED <<int_queue_missed, int_queue_out_marker>>
  \/ /\ int_queue_count >= QueueSize
     /\ int_queue_missed' = int_queue_missed + 1
     /\ UNCHANGED ring

NextEntry == interrupt_fb[int_queue_out_marker]

DequeueInterrupt ==
  /\ int_queue_count > 0
  /\ int_queue_count' = int_queue_count - 1
  /\ int_queue_out_marker' = Advance(int_queue_out_marker)
  /\ UNCHANGED <<interrupt_fb, int_queue_missed, int_queue_in_marker>>

\* A plausible error: the reset forgets the removal marker.
ResetQueue_KeepsOutMarker ==
  /\ int_queue_missed' = 0
  /\ int_queue_count' = 0
  /\ int_queue_in_marker' = 0
  /\ UNCHANGED <<interrupt_fb, int_queue_out_marker>>

\* The part of init_device_desc that concerns the queue.  The slots keep what
\* they held.
ResetQueue ==
  /\ int_queue_missed' = 0
  /\ int_queue_count' = 0
  /\ int_queue_in_marker' = 0
  /\ int_queue_out_marker' = 0
  /\ UNCHANGED interrupt_fb

QueueNext ==
  \/ int_queue_missed < MissedBound /\ \E e \in Entry : IntQueueAdd(e)
  \/ DequeueInterrupt
  \/ ResetQueue

QueueSpec == QueueInit /\ [][QueueNext]_queueVars
-----------------------------------------------------------------------------
(* The slot that lies k places behind the removal marker.                  *)
SlotAt(k) ==
  IF int_queue_out_marker + k < QueueSize
  THEN int_queue_out_marker + k
  ELSE int_queue_out_marker + k - QueueSize

(* The waiting interrupts, oldest first: what the ring stands for.         *)
Contents == [k \in 1 .. int_queue_count |-> interrupt_fb[SlotAt(k - 1)]]

(* Every marker indexes a slot, and no more is counted than there are      *)
(* slots: the code indexes the array with the markers as they are.         *)
QueueTypeOK ==
  /\ interrupt_fb \in [Slot -> Entry]
  /\ int_queue_missed \in Nat
  /\ int_queue_count \in 0 .. QueueSize
  /\ int_queue_in_marker \in Slot
  /\ int_queue_out_marker \in Slot

(* The three counters of the ring agree: the insertion marker is exactly   *)
(* int_queue_count slots ahead of the removal marker, wrapped.  The code   *)
(* keeps the three separately and never compares them (an empty and a full *)
(* ring have equal markers), so a marker that wraps one slot early or late *)
(* goes unnoticed until interrupts come out stale or in the wrong order.   *)
RingConsistent == int_queue_in_marker = SlotAt(int_queue_count)

Fifo == INSTANCE InterruptFifo WITH fifo <- Contents, missed <- int_queue_missed

(* The ring behaves as a bounded first-in first-out queue: an add appends  *)
(* or, when 256 wait, drops the new interrupt and counts it; a removal     *)
(* takes the oldest; the reset empties.                                    *)
RingIsFifo == Fifo!Spec

=============================================================================
