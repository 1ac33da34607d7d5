------------------------------ MODULE DriverIrq ------------------------------
(***************************************************************************)
(* The interrupt path of one device of the driver                          *)
(* (driver/rtd-dm35425.c): the board's interrupt status registers, the     *)
(* interrupt handler, the queue, the file operations open, ioctl and       *)
(* release, and the user code that serves and acknowledges interrupts.     *)
(*                                                                         *)
(* The handler holds device_lock from its first test to its return; here   *)
(* each of its register accesses and each entry it queues is a step of its *)
(* own, so the board, the unlocked part of open and the unlocked board     *)
(* reset of release interleave with it.  Whatever the code does under      *)
(* device_lock is one action guarded by LockFree.                          *)
(***************************************************************************)
EXTENDS IntQueue, FiniteSets

CONSTANTS
  NumFB,         \* function blocks of the board
  LowBits,       \* how many of them the lower status register holds (32)
  Sources,       \* the interrupts the user configures the board to raise
  MissedLimit,   \* TOO_MANY_MISSED_IRQ
  Procs,         \* user processes that open the device
  CopyFaults     \* whether copy_to_user may fail

FB == 0 .. NumFB - 1

\* The sign bit of the queued int is the field dma.
ASSUME DriverAssumption ==
  /\ NumFB \in Nat \ {0}
  /\ LowBits \in Nat
  /\ MissedLimit \in Nat
  /\ Sources \subseteq Entry
  /\ CopyFaults \in BOOLEAN
  /\ Entry = [fb : FB, dma : BOOLEAN]
  /\ ZeroEntry = [fb |-> 0, dma |-> FALSE]

VARIABLES
  irq_status,        \* FBs whose bit is set in GBC_IRQ_STATUS
  dma_irq_status,    \* FBs whose bit is set in GBC_DMA_IRQ_STATUS
  raised,            \* interrupts whose function block still asks for service
  enabled,           \* the user has configured the board to interrupt
  reference_count,
  pc,                \* where each process is in a call or in its service code
  held,              \* the entry each process is serving
  isr_pc,            \* where the handler is; it holds device_lock unless idle
  isr_word,          \* the status word it works on, lower (0) or upper (1)
  irq_register,      \* bits it read and has not queued yet
  dma_irq_register,
  fb_clear_mask      \* FBs it will clear in both status registers

boardVars == <<irq_status, dma_irq_status, raised, enabled>>
fileVars == <<reference_count, pc, held>>
isrVars == <<isr_pc, isr_word, irq_register, dma_irq_register, fb_clear_mask>>
vars == <<queueVars, boardVars, fileVars, isrVars>>

LockFree == isr_pc = "idle"

\* The function blocks of a status word.
WordFB(w) == {fb \in FB : (w = 0) <=> (fb < LowBits)}

Initialising(p) ==
  pc[p] \in {"init_missed", "init_count", "init_in", "init_out"}

\* The states of a process from the end of open to the board reset of release.
Using(p) == pc[p] \in {"open", "handling", "serviced", "failed"}

IrqInit ==
  /\ QueueInit
  /\ irq_status = {} /\ dma_irq_status = {} /\ raised = {} /\ enabled = FALSE
  /\ reference_count = 0
  /\ pc = [p \in Procs |-> "closed"]
  /\ held = [p \in Procs |-> ZeroEntry]
  /\ isr_pc = "idle" /\ isr_word = 0
  /\ irq_register = {} /\ dma_irq_register = {} /\ fb_clear_mask = {}

Goto(p, from, to) ==
  /\ pc[p] = from
  /\ pc' = [pc EXCEPT ![p] = to]
-----------------------------------------------------------------------------
(* The board.                                                              *)

\* A function block raises an interrupt and its bit is set.
Raise(e) ==
  /\ enabled
  /\ e \notin raised
  /\ raised' = raised \cup {e}
  /\ irq_status' = IF e.dma THEN irq_status ELSE irq_status \cup {e.fb}
  /\ dma_irq_status' = IF e.dma THEN dma_irq_status \cup {e.fb}
                                ELSE dma_irq_status
  /\ UNCHANGED <<enabled, queueVars, fileVars, isrVars>>

\* The effect of a write to GBC_BOARD_RESET.
BoardReset ==
  /\ irq_status' = {}
  /\ dma_irq_status' = {}
  /\ raised' = {}
  /\ enabled' = FALSE
-----------------------------------------------------------------------------
(* The interrupt handler.                                                  *)

\* The line is shared, so the handler may run though this board is silent.
IsrEnter ==
  /\ isr_pc = "idle"
  /\ isr_pc' = "check"
  /\ UNCHANGED <<isr_word, irq_register, dma_irq_register, fb_clear_mask,
                 queueVars, boardVars, fileVars>>

\* A plausible error: the count of missed interrupts is not looked at.
IsrCheck_Never ==
  /\ isr_pc = "check"
  /\ isr_pc' = "read_irq"
  /\ isr_word' = 0
  /\ UNCHANGED <<irq_register, dma_irq_register, fb_clear_mask,
                 queueVars, boardVars, fileVars>>

IsrCheck ==
  /\ isr_pc = "check"
  /\ isr_pc' = IF int_queue_missed > MissedLimit THEN "reset" ELSE "read_irq"
  /\ isr_word' = 0
  /\ UNCHANGED <<irq_register, dma_irq_register, fb_clear_mask,
                 queueVars, boardVars, fileVars>>

\* Too many were missed: the board is reset, nothing is queued, nobody woken.
IsrReset ==
  /\ isr_pc = "reset"
  /\ BoardReset
  /\ isr_pc' = "idle"
  /\ UNCHANGED <<isr_word, irq_register, dma_irq_register, fb_clear_mask,
                 queueVars, fileVars>>

IsrReadIrq ==
  /\ isr_pc = "read_irq"
  /\ irq_register' = irq_status \cap WordFB(isr_word)
  /\ isr_pc' = "read_dma"
  /\ UNCHANGED <<isr_word, dma_irq_register, fb_clear_mask,
                 queueVars, boardVars, fileVars>>

IsrReadDma ==
  /\ isr_pc = "read_dma"
  /\ dma_irq_register' = dma_irq_status \cap WordFB(isr_word)
  /\ isr_pc' = "scan"
  /\ UNCHANGED <<isr_word, irq_register, fb_clear_mask,
                 queueVars, boardVars, fileVars>>

\* The lowest function block left is next, its DMA interrupt before its other.
IsrQueue(fb) ==
  /\ isr_pc = "scan"
  /\ fb \in irq_register \cup dma_irq_register
  /\ \A lower \in irq_register \cup dma_irq_register : fb <= lower
  /\ IntQueueAdd([fb |-> fb, dma |-> fb \in dma_irq_register])
  /\ dma_irq_register' = dma_irq_register \ {fb}
  /\ irq_register' =
       IF fb \in dma_irq_register THEN irq_register ELSE irq_register \ {fb}
  /\ fb_clear_mask' = fb_clear_mask \cup {fb}
  /\ UNCHANGED <<isr_pc, isr_word, boardVars, fileVars>>

\* Both bits of every block of the word are queued: the upper word is next,
\* then the clearing of both words.
IsrScanned ==
  /\ isr_pc = "scan"
  /\ irq_register \cup dma_irq_register = {}
  /\ isr_pc' = IF isr_word = 0 THEN "read_irq" ELSE "clear_irq"
  /\ isr_word' = 1 - isr_word
  /\ UNCHANGED <<irq_register, dma_irq_register, fb_clear_mask,
                 queueVars, boardVars, fileVars>>

\* A plausible error: every bit of the word is cleared, queued or not.
IsrClearIrq_WholeWord ==
  /\ isr_pc = "clear_irq"
  /\ irq_status' = irq_status \ WordFB(isr_word)
  /\ isr_pc' = "clear_dma"
  /\ UNCHANGED <<dma_irq_status, raised, enabled, isr_word, irq_register,
                 dma_irq_register, fb_clear_mask, queueVars, fileVars>>

\* A status bit is cleared by writing a one.  The same mask goes to both
\* registers, whichever of the two had the bit when it was read.
IsrClearIrq ==
  /\ isr_pc = "clear_irq"
  /\ irq_status' = irq_status \ (fb_clear_mask \cap WordFB(isr_word))
  /\ isr_pc' = "clear_dma"
  /\ UNCHANGED <<dma_irq_status, raised, enabled, isr_word, irq_register,
                 dma_irq_register, fb_clear_mask, queueVars, fileVars>>

IsrClearDma ==
  /\ isr_pc = "clear_dma"
  /\ dma_irq_status' = dma_irq_status \ (fb_clear_mask \cap WordFB(isr_word))
  /\ isr_pc' = IF isr_word = 0 THEN "clear_irq" ELSE "idle"
  /\ isr_word' = 1 - isr_word
  /\ fb_clear_mask' = IF isr_word = 0 THEN fb_clear_mask ELSE {}
  /\ UNCHANGED <<irq_status, raised, enabled, irq_register, dma_irq_register,
                 queueVars, fileVars>>

Isr ==
  \/ IsrEnter \/ IsrCheck \/ IsrReset \/ IsrReadIrq \/ IsrReadDma
  \/ \E fb \in FB : IsrQueue(fb)
  \/ IsrScanned \/ IsrClearIrq \/ IsrClearDma
-----------------------------------------------------------------------------
(* open: the claim is made under the lock, the descriptor is cleared after *)
(* the lock is released, one field at a time.                              *)

\* A plausible error: a device in use is not refused.
Open_Always(p) ==
  /\ LockFree
  /\ Goto(p, "closed", "init_missed")
  /\ reference_count' = reference_count + 1
  /\ UNCHANGED <<held, queueVars, boardVars, isrVars>>

\* With a reference count above 0 open returns EBUSY and changes nothing.
Open(p) ==
  /\ LockFree
  /\ reference_count = 0
  /\ Goto(p, "closed", "init_missed")
  /\ reference_count' = reference_count + 1
  /\ UNCHANGED <<held, queueVars, boardVars, isrVars>>

InitMissed(p) ==
  /\ Goto(p, "init_missed", "init_count")
  /\ int_queue_missed' = 0
  /\ UNCHANGED <<reference_count, held, ring, boardVars,
                 isrVars>>

InitCount(p) ==
  /\ Goto(p, "init_count", "init_in")
  /\ int_queue_count' = 0
  /\ UNCHANGED <<reference_count, held, interrupt_fb,
                 int_queue_missed, int_queue_in_marker, int_queue_out_marker,
                 boardVars, isrVars>>

\* A plausible error: the insertion marker is not reset.
InitInMarker_Kept(p) ==
  /\ Goto(p, "init_in", "init_out")
  /\ UNCHANGED <<reference_count, held, queueVars, boardVars,
                 isrVars>>

InitInMarker(p) ==
  /\ Goto(p, "init_in", "init_out")
  /\ int_queue_in_marker' = 0
  /\ UNCHANGED <<reference_count, held, interrupt_fb,
                 int_queue_missed, int_queue_count, int_queue_out_marker,
                 boardVars, isrVars>>

InitOutMarker(p) ==
  /\ Goto(p, "init_out", "open")
  /\ int_queue_out_marker' = 0
  /\ UNCHANGED <<reference_count, held, interrupt_fb,
                 int_queue_missed, int_queue_count, int_queue_in_marker,
                 boardVars, isrVars>>
-----------------------------------------------------------------------------
(* ioctl, and the user code between the calls.                             *)

\* A plausible error: the register is written without the lock.
Configure_Unlocked(p) ==
  /\ pc[p] = "open"
  /\ enabled' = TRUE
  /\ UNCHANGED <<irq_status, dma_irq_status, raised, queueVars, fileVars,
                 isrVars>>

\* A write to the board's registers that lets it interrupt.
Configure(p) ==
  /\ LockFree
  /\ pc[p] = "open"
  /\ enabled' = TRUE
  /\ UNCHANGED <<irq_status, dma_irq_status, raised, queueVars, fileVars,
                 isrVars>>

\* An interrupt is taken off the queue and copied to the user.
GetInterrupt(p) ==
  /\ LockFree
  /\ Goto(p, "open", "handling")
  /\ held' = [held EXCEPT ![p] = NextEntry]
  /\ DequeueInterrupt
  /\ UNCHANGED <<reference_count, boardVars, isrVars>>

\* The copy to the user fails: the entry is already off the queue.
GetInterruptFault(p) ==
  /\ CopyFaults
  /\ LockFree
  /\ Goto(p, "open", "failed")
  /\ DequeueInterrupt
  /\ UNCHANGED <<reference_count, held, boardVars, isrVars>>

\* User code clears the cause in the function block's own status register.
Service(p) ==
  /\ LockFree
  /\ Goto(p, "handling", "serviced")
  /\ raised' = raised \ {held[p]}
  /\ UNCHANGED <<reference_count, held, irq_status,
                 dma_irq_status, enabled, queueVars, isrVars>>

\* A plausible error: the acknowledgement does not reach the board.
Ack_NotWritten(p) ==
  /\ LockFree
  /\ Goto(p, "serviced", "open")
  /\ held' = [held EXCEPT ![p] = ZeroEntry]
  /\ UNCHANGED <<reference_count, queueVars, boardVars, isrVars>>

\* The end-of-interrupt write: what is still pending is issued again.
Ack(p) ==
  /\ LockFree
  /\ Goto(p, "serviced", "open")
  /\ irq_status' = irq_status \cup {e.fb : e \in {r \in raised : ~r.dma}}
  /\ dma_irq_status' = dma_irq_status \cup {e.fb : e \in {r \in raised : r.dma}}
  /\ held' = [held EXCEPT ![p] = ZeroEntry]
  /\ UNCHANGED <<reference_count, raised, enabled, queueVars, isrVars>>

-----------------------------------------------------------------------------
(* release, also at any point of a killed process.                         *)

\* A plausible error: the board is left running.
ReleaseReset_Forgotten(p) ==
  /\ Using(p)
  /\ pc' = [pc EXCEPT ![p] = "releasing"]
  /\ UNCHANGED <<reference_count, held, queueVars, boardVars,
                 isrVars>>

\* The board is reset first, and without the lock.
ReleaseReset(p) ==
  /\ Using(p)
  /\ pc' = [pc EXCEPT ![p] = "releasing"]
  /\ BoardReset
  /\ UNCHANGED <<reference_count, held, queueVars, isrVars>>

ReleaseUnref(p) ==
  /\ LockFree
  /\ Goto(p, "releasing", "closed")
  /\ reference_count' = reference_count - 1
  /\ held' = [held EXCEPT ![p] = ZeroEntry]
  /\ UNCHANGED <<queueVars, boardVars, isrVars>>

OpenInit(p) ==
  \/ InitMissed(p) \/ InitCount(p) \/ InitInMarker(p)
  \/ InitOutMarker(p)

Proc(p) ==
  \/ Open(p) \/ OpenInit(p) \/ Configure(p)
  \/ GetInterrupt(p) \/ GetInterruptFault(p) \/ Service(p) \/ Ack(p)
  \/ ReleaseReset(p) \/ ReleaseUnref(p)

Next ==
  \/ \E e \in Sources : Raise(e)
  \/ Isr
  \/ \E p \in Procs : Proc(p)

Spec == IrqInit /\ [][Next]_vars
-----------------------------------------------------------------------------
DriverTypeOK ==
  /\ QueueTypeOK
  /\ irq_status \subseteq FB /\ dma_irq_status \subseteq FB
  /\ raised \subseteq Sources /\ enabled \in BOOLEAN
  /\ reference_count \in 0 .. 1
  /\ pc \in [Procs -> {"closed", "init_missed", "init_count",
                       "init_in", "init_out", "open", "handling", "serviced",
                       "failed", "releasing"}]
  /\ held \in [Procs -> Entry]
  /\ isr_pc \in {"idle", "check", "reset", "read_irq", "read_dma", "scan",
                 "clear_irq", "clear_dma"}
  /\ isr_word \in 0 .. 1
  /\ irq_register \subseteq FB /\ dma_irq_register \subseteq FB
  /\ fb_clear_mask \subseteq FB

SomeoneInitialising == \E p \in Procs : Initialising(p)

(* Single open: two processes are never both past the claim of open, and   *)
(* the reference count is 1 exactly while one is (open, release).          *)
SingleUser ==
  /\ \A p, q \in Procs : pc[p] # "closed" /\ pc[q] # "closed" => p = q
  /\ reference_count = IF \E p \in Procs : pc[p] # "closed" THEN 1 ELSE 0

(* open clears the descriptor after it has released the lock.  That is     *)
(* harmless only because the board is silent then and no handler run that  *)
(* saw it speak is still going: release resets the board before it takes   *)
(* the lock for the last time, which waits for such a run.                 *)
QuietUntilOpened ==
  (\A p \in Procs : pc[p] = "closed" \/ Initialising(p)) =>
    /\ irq_status = {} /\ dma_irq_status = {} /\ raised = {} /\ ~enabled
    /\ irq_register = {} /\ dma_irq_register = {} /\ fb_clear_mask = {}

(* Outside the unlocked clearing the counters of the ring agree, whatever  *)
(* the handler did meanwhile on another CPU.                               *)
RingSound == ~SomeoneInitialising => RingConsistent

(* An interrupt whose bit is wiped by the clearing of the other kind's bit *)
(* of its function block, or whose entry found the queue full, is still    *)
(* going to be issued again: an acknowledgement is due, because entries    *)
(* wait in the queue or user code is serving one.  Holding the lock from   *)
(* the queueing to the clearing is what makes it so.  (A reader that died  *)
(* of a failed copy acknowledges nothing.)                                 *)
BitSet(e) == e.fb \in IF e.dma THEN dma_irq_status ELSE irq_status
BitRead(e) == e.fb \in IF e.dma THEN dma_irq_register ELSE irq_register
AckDue == int_queue_count > 0 \/ \E p \in Procs : pc[p] \in {"handling", "serviced"}

NoStrandedInterrupt ==
  \A e \in raised :
    BitSet(e) \/ BitRead(e) \/ AckDue \/ \E p \in Procs : pc[p] = "failed"

(* The handler tests the count of missed interrupts once per run, so one   *)
(* run may take it past the limit by all a run can queue, and no further:  *)
(* the unsigned counter cannot wrap back under the limit.                  *)
MissedBounded == int_queue_missed <= MissedLimit + 2 * NumFB

(* A board that a user has configured is reset by the handler only if this *)
(* user's queue overflowed: never because of a count left by the previous  *)
(* user and read by a handler run that began while open was clearing it.   *)
OverflowResetIsOwn == isr_pc = "reset" /\ enabled => int_queue_missed > MissedLimit

\* What the queue stands for; nothing, as soon as open has begun to clear it.
Waiting == IF SomeoneInitialising THEN <<>> ELSE Contents
Missed == IF SomeoneInitialising THEN 0 ELSE int_queue_missed

DriverFifo == INSTANCE InterruptFifo WITH fifo <- Waiting, missed <- Missed

(* To its reader the driver's queue is a bounded first-in first-out queue  *)
(* that open empties at once, though open clears it field by field.        *)
DriverIsFifo == DriverFifo!Spec
-----------------------------------------------------------------------------
(***************************************************************************)
(* Fairness: the kernel runs the handler while the line is asserted and a  *)
(* run comes to its end; the reader, which competes with the handler for a *)
(* spinlock that serves in order of arrival, gets its turn again and       *)
(* again.  Nobody has to open, configure, close or raise.                  *)
(***************************************************************************)
LineAsserted == irq_status # {} \/ dma_irq_status # {}

Fairness ==
  /\ WF_vars(IsrEnter /\ LineAsserted)
  /\ WF_vars(Isr /\ ~LockFree)
  /\ \A p \in Procs : /\ SF_vars(GetInterrupt(p))
                     /\ SF_vars(Service(p))
                     /\ SF_vars(Ack(p))

FairSpec == Spec /\ Fairness

(* Every interrupt a function block raises is served in the end, however   *)
(* bits are wiped and entries dropped on the way, unless the board is      *)
(* reset (by release or after too many misses).                            *)
EveryInterruptServed == \A e \in Sources : e \in raised ~> e \notin raised
=============================================================================
