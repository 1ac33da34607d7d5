---------------------------- MODULE InterruptFifo ----------------------------
(***************************************************************************)
(* What the interrupt queue of the driver promises, without its ring: the  *)
(* interrupts wait in arrival order in a queue of bounded length; one that *)
(* arrives when the queue is full is dropped and counted; the reader takes *)
(* the oldest; opening the device empties the queue and forgets the count. *)
(***************************************************************************)
EXTENDS Naturals, Sequences

CONSTANTS
  QueueSize,   \* how many interrupts may wait
  Entry        \* what is queued for one interrupt

VARIABLES
  fifo,        \* the interrupts that wait, oldest first
  missed       \* how many were dropped since the queue was emptied

fifoVars == <<fifo, missed>>

Init == fifo = <<>> /\ missed = 0

Put(e) ==
  /\ Len(fifo) < QueueSize
  /\ fifo' = Append(fifo, e)
  /\ UNCHANGED missed

Drop ==
  /\ Len(fifo) = QueueSize
  /\ missed' = missed + 1
  /\ UNCHANGED fifo

Take ==
  /\ fifo # <<>>
  /\ fifo' = Tail(fifo)
  /\ UNCHANGED missed

Empty ==
  /\ fifo' = <<>>
  /\ missed' = 0

Next ==
  \/ \E e \in Entry : Put(e)
  \/ Drop
  \/ Take
  \/ Empty

Spec == Init /\ [][Next]_fifoVars
=============================================================================
