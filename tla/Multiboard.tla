------------------------------ MODULE Multiboard ------------------------------
(***************************************************************************)
(* Acquisition with several boards (lib/dm35425_adc_multiboard.c): one     *)
(* thread waits for all boards, reads the DMA buffer of each board that    *)
(* interrupts and calls the user's ISR when every board has been read.     *)
(* An installer starts it, a remover stops it; with block the installer    *)
(* joins the thread and the remover is another thread, or the ISR itself.  *)
(*                                                                         *)
(* Each board fills its DMA buffers in turn and each full buffer asks for  *)
(* an interrupt.  The channels of a board are filled and read together;    *)
(* here they are one.  Only DMA interrupts are enabled on the boards.      *)
(*                                                                         *)
(* mbd->isr is read again for each error call, so the thread tests it and  *)
(* calls through it in two steps, save where the test stands directly      *)
(* before the call.                                                        *)
(***************************************************************************)
EXTENDS Naturals

CONSTANTS
  NumBoards,
  NumBuffers,    \* DMA buffers of a channel (DM35425_NUM_ADC_DMA_BUFFERS)
  QueueSize,     \* DM35425_INT_QUEUE_SIZE
  Blocks,        \* the values of block that InstallISR is called with
  IsrRemoves,    \* whether the ISR may call RemoveISR
  Faults         \* what may fail

ASSUME MultiboardAssumption ==
  /\ NumBoards \in Nat \ {0}
  /\ NumBuffers \in Nat \ {0}
  /\ QueueSize \in Nat \ {0}
  /\ Blocks \subseteq BOOLEAN /\ IsrRemoves \in BOOLEAN
  /\ Faults \subseteq {"alloc", "thread", "start", "signal", "io"}

Board == 1 .. NumBoards
Buffer == 0 .. NumBuffers - 1
NoBuffer == NumBuffers       \* any index outside Buffer

VARIABLES
  int_queue_count,   \* interrupts in each board's driver queue
  remove_isr_flag,   \* boards on which the wakeup ioctl was made
  used,              \* buffers that the DMA engine filled and nobody reset
  engine,            \* the buffer each engine fills next
  overrun,           \* boards whose engine met a used buffer
  running,           \* boards that sample
  done, isr, pid,    \* of the multi-board descriptor; isr and pid: not NULL
  installer,         \* where the thread that calls InstallISR is
  to_start,          \* boards it has still to start
  triggers,          \* trigger threads that run
  start_failed,      \* a trigger thread failed
  remover,           \* where the thread that calls RemoveISR is
  waiter,            \* where the collecting thread is
  irqs,              \* boards it has read since the last call of the ISR
  readable,          \* boards of the last select it has still to look at
  board,             \* the board it is reading
  more,              \* interrupts_remaining > 0
  next_buf,          \* the buffer of each board to be read next
  local_buf,         \* local buffers that hold data not yet given to the ISR
  malloced           \* a history: what malloc has left in next_buf

boardVars == <<int_queue_count, used, engine, overrun, running>>
installVars == <<installer, to_start, triggers, start_failed>>
waiterVars == <<irqs, readable, board, more, next_buf, local_buf>>
vars == <<boardVars, remove_isr_flag, done, isr, pid, installVars, remover,
          waiter, waiterVars, malloced>>

Next_buf(i) == IF i + 1 = NumBuffers THEN 0 ELSE i + 1

Init ==
  /\ int_queue_count = [b \in Board |-> 0]
  /\ remove_isr_flag = {}
  /\ used = [b \in Board |-> {}]
  /\ engine = [b \in Board |-> 0]
  /\ overrun = {} /\ running = {}
  /\ done = FALSE /\ isr = FALSE /\ pid = FALSE
  /\ installer = "idle" /\ to_start = {} /\ triggers = {}
  /\ start_failed = FALSE
  /\ remover = "idle"
  /\ waiter = "none" /\ irqs = {} /\ readable = {} /\ board = 1 /\ more = FALSE
  /\ malloced \in [Board -> Buffer \cup {NoBuffer}]
  /\ next_buf = malloced
  /\ local_buf = [b \in Board |-> {}]
-----------------------------------------------------------------------------
(* The boards and the driver.                                              *)

\* The thread has fetched an interrupt of b and not yet cleared its cause.
InService(b) ==
  board = b /\ waiter \in {"check", "errors", "copy", "reset", "clear"}

\* A plausible error: the queue takes one entry more than it has room for.
Interrupt_OffByOne(b) ==
  /\ int_queue_count[b] <= QueueSize
  /\ int_queue_count' = [int_queue_count EXCEPT ![b] = @ + 1]

\* An interrupt is queued; a function block that still asks for an earlier one
\* may not ask again, and a full queue drops it.
Interrupt(b) ==
  \/ /\ int_queue_count[b] < QueueSize
     /\ int_queue_count' = [int_queue_count EXCEPT ![b] = @ + 1]
  \/ /\ int_queue_count[b] > 0 \/ InService(b)
     /\ UNCHANGED int_queue_count

\* The engine fills the next buffer.  One that is still used stops it.
Fill(b) ==
  /\ b \in running \ overrun
  /\ IF engine[b] \in used[b]
     THEN /\ overrun' = overrun \cup {b}
          /\ UNCHANGED <<used, engine>>
     ELSE /\ used' = [used EXCEPT ![b] = @ \cup {engine[b]}]
          /\ engine' = [engine EXCEPT ![b] = Next_buf(@)]
          /\ UNCHANGED overrun
  /\ Interrupt(b)
  /\ UNCHANGED <<running, remove_isr_flag, done, isr, pid, installVars,
                 remover, waiter, waiterVars, malloced>>

Readable(b) == b \in remove_isr_flag \/ int_queue_count[b] > 0
-----------------------------------------------------------------------------
(* InstallISR.                                                             *)

InstallStep(from, to) ==
  /\ installer = from
  /\ installer' = to
  /\ UNCHANGED <<boardVars, done, remover, waiterVars, malloced>>

\* The call may be made again when an earlier one has returned and its thread
\* is over.  With an ISR in place it returns EEXIST and changes nothing.
InstallReturned == installer \in {"idle", "installed", "failed"}

Install ==
  /\ InstallReturned
  /\ remover \in {"idle", "removed", "refused"}
  /\ waiter \in {"none", "exited", "joined"}
  /\ ~isr
  /\ isr' = TRUE
  /\ to_start' = Board /\ start_failed' = FALSE
  /\ InstallStep(installer, "allocating")
  /\ UNCHANGED <<remove_isr_flag, pid, triggers, waiter>>

\* Both failures leave the ISR in the descriptor.
InstallFails ==
  /\ \/ "alloc" \in Faults /\ InstallStep("allocating", "failed")
     \/ "thread" \in Faults /\ InstallStep("creating", "failed")
  /\ UNCHANGED <<remove_isr_flag, isr, pid, to_start, triggers, start_failed,
                 waiter>>

InstallAllocated ==
  /\ InstallStep("allocating", "creating")
  /\ UNCHANGED <<remove_isr_flag, isr, pid, to_start, triggers, start_failed,
                 waiter>>

InstallCreate ==
  /\ InstallStep("creating", "storing")
  /\ waiter' = "start"
  /\ UNCHANGED <<remove_isr_flag, isr, pid, to_start, triggers, start_failed>>

InstallStorePid ==
  /\ InstallStep("storing", "starting")
  /\ pid' = TRUE
  /\ UNCHANGED <<remove_isr_flag, isr, to_start, triggers, start_failed, waiter>>

\* The boards' DMA is started in order, each with a trigger thread for its ADC.
InstallStart(b) ==
  /\ b \in to_start /\ \A c \in to_start : b <= c
  /\ InstallStep("starting", "starting")
  /\ to_start' = to_start \ {b}
  /\ triggers' = triggers \cup {b}
  /\ UNCHANGED <<remove_isr_flag, isr, pid, start_failed, waiter>>

InstallStartFails ==
  /\ "start" \in Faults
  /\ to_start # {}
  /\ InstallStep("starting", "errored")
  /\ UNCHANGED <<remove_isr_flag, isr, pid, to_start, triggers, start_failed,
                 waiter>>

\* _start_adc_fcn
Trigger(b) ==
  /\ b \in triggers
  /\ triggers' = triggers \ {b}
  /\ \/ running' = running \cup {b} /\ UNCHANGED start_failed
     \/ "start" \in Faults /\ start_failed' = TRUE /\ UNCHANGED running
  /\ UNCHANGED <<int_queue_count, used, engine, overrun, remove_isr_flag, done,
                 isr, pid, installer, to_start, remover, waiter, waiterVars, malloced>>

InstallJoinTriggers ==
  /\ to_start = {} /\ triggers = {}
  /\ \/ start_failed /\ InstallStep("starting", "errored")
     \/ \E block \in Blocks :
          ~start_failed
            /\ InstallStep("starting", IF block THEN "joining" ELSE "installed")
  /\ UNCHANGED <<remove_isr_flag, isr, pid, to_start, triggers, start_failed,
                 waiter>>

\* The error path wakes the thread and joins it, but does not tell it to stop.
InstallWakeup ==
  /\ InstallStep("errored", "joining_errored")
  /\ remove_isr_flag' = Board
  /\ UNCHANGED <<isr, pid, to_start, triggers, start_failed, waiter>>

InstallJoin ==
  /\ waiter = "exited"
  /\ \/ InstallStep("joining_errored", "failed")
     \/ InstallStep("joining", "forgetting")
  /\ waiter' = "joined"
  /\ UNCHANGED <<remove_isr_flag, isr, pid, to_start, triggers, start_failed>>

InstallForgetPid ==
  /\ InstallStep("forgetting", "installed")
  /\ pid' = FALSE
  /\ UNCHANGED <<remove_isr_flag, isr, to_start, triggers, start_failed, waiter>>

InstallGoesOn ==
  \/ InstallAllocated \/ InstallCreate \/ InstallStorePid
  \/ (\E b \in Board : InstallStart(b)) \/ InstallJoinTriggers
  \/ InstallWakeup \/ InstallJoin \/ InstallForgetPid
-----------------------------------------------------------------------------
(* RemoveISR: called when InstallISR has returned or blocks.               *)

RemoveStep(from, to) ==
  /\ remover = from
  /\ remover' = to
  /\ UNCHANGED <<boardVars, installVars, waiterVars, malloced>>

RemoveReturned == remover \in {"idle", "removed", "refused"}

Remove ==
  /\ RemoveReturned
  /\ InstallReturned \/ installer = "joining"
  /\ isr' = FALSE
  /\ RemoveStep(remover, "clearing")
  /\ UNCHANGED <<remove_isr_flag, done, pid, waiter>>

RemoveDone ==
  /\ RemoveStep("clearing", "waking")
  /\ done' = TRUE
  /\ UNCHANGED <<remove_isr_flag, isr, pid, waiter>>

\* A plausible error: the boards are not woken.
RemoveWakeup_Forgotten ==
  /\ RemoveStep("waking", IF pid THEN "joining" ELSE "removed")
  /\ UNCHANGED <<remove_isr_flag, done, isr, pid, waiter>>

RemoveWakeup ==
  /\ RemoveStep("waking", IF pid THEN "joining" ELSE "removed")
  /\ remove_isr_flag' = Board
  /\ UNCHANGED <<done, isr, pid, waiter>>

\* A plausible error: the thread is not waited for.
RemoveJoin_Detached ==
  /\ RemoveStep("joining", "forgetting")
  /\ UNCHANGED <<remove_isr_flag, done, isr, pid, waiter>>

\* A thread that somebody joins already is refused; one that was joined before
\* makes the call undefined, and the model stops there.
RemoveJoin ==
  /\ \/ /\ installer = "joining"
        /\ RemoveStep("joining", "refused") /\ UNCHANGED waiter
     \/ /\ installer # "joining" /\ waiter = "exited"
        /\ RemoveStep("joining", "forgetting") /\ waiter' = "joined"
     \/ /\ waiter = "joined"
        /\ RemoveStep("joining", "joined_twice") /\ UNCHANGED waiter
  /\ UNCHANGED <<remove_isr_flag, done, isr, pid>>

RemoveForgetPid ==
  /\ RemoveStep("forgetting", "removed")
  /\ pid' = FALSE
  /\ UNCHANGED <<remove_isr_flag, done, isr, waiter>>

RemoveGoesOn ==
  RemoveDone \/ RemoveWakeup \/ RemoveJoin \/ RemoveForgetPid
-----------------------------------------------------------------------------
(* The collecting thread: waiting.                                         *)

WaiterStep(from, to) ==
  /\ waiter = from
  /\ waiter' = to
  /\ UNCHANGED <<remove_isr_flag, pid, installVars, remover, malloced>>

\* Its buffers cannot be allocated: the thread ends without a word.
StartFails ==
  /\ "alloc" \in Faults
  /\ WaiterStep("start", "exited")
  /\ UNCHANGED <<boardVars, done, isr, waiterVars>>

Start ==
  /\ WaiterStep("start", "top")
  /\ irqs' = {}
  /\ UNCHANGED <<boardVars, done, isr, readable, board, more, next_buf, local_buf>>

Top ==
  /\ WaiterStep("top", IF done THEN "exited" ELSE "select")
  /\ UNCHANGED <<boardVars, done, isr, waiterVars>>

\* A plausible error: the boards that were read are watched, not the others.
SelectReturns_WatchesRead ==
  /\ WaiterStep("select", "woken")
  /\ readable' = {b \in irqs : Readable(b)}
  /\ readable' # {}
  /\ UNCHANGED <<boardVars, done, isr, irqs, board, more, next_buf, local_buf>>

SelectReturns ==
  /\ WaiterStep("select", "woken")
  /\ readable' = {b \in Board \ irqs : Readable(b)}
  /\ readable' # {}
  /\ UNCHANGED <<boardVars, done, isr, irqs, board, more, next_buf, local_buf>>

SelectFails ==
  /\ "signal" \in Faults
  /\ WaiterStep("select", "select_failed")
  /\ UNCHANGED <<boardVars, done, isr, waiterVars>>

\* The test behind select.
Woken ==
  /\ waiter \in {"woken", "select_failed"}
  /\ IF done \/ ~isr
     THEN WaiterStep(waiter, "exited") /\ done' = TRUE /\ isr' = FALSE
     ELSE /\ WaiterStep(waiter, IF waiter = "woken" THEN "scan" ELSE "failing")
          /\ UNCHANGED <<done, isr>>
  /\ UNCHANGED <<boardVars, waiterVars>>

Scan(b) ==
  /\ ~done
  /\ b \in readable /\ \A c \in readable : b <= c
  /\ WaiterStep("scan", "fetch")
  /\ board' = b
  /\ irqs' = irqs \cup {b}
  /\ readable' = readable \ {b}
  /\ UNCHANGED <<boardVars, done, isr, more, next_buf, local_buf>>

\* A plausible error: the ISR is called as soon as one board was read.
ScanEnds_AnyBoard ==
  /\ done \/ readable = {}
  /\ WaiterStep("scan", IF done \/ ~isr THEN "exited" ELSE "deliver")
  /\ irqs' = {}
  /\ UNCHANGED <<boardVars, done, isr, readable, board, more, next_buf, local_buf>>

\* With every board read their samples are converted and the ISR is next.
ScanEnds ==
  /\ done \/ readable = {}
  /\ IF done \/ ~isr
     THEN WaiterStep("scan", "exited") /\ UNCHANGED irqs
     ELSE IF irqs # Board
     THEN WaiterStep("scan", "top") /\ UNCHANGED irqs
     ELSE WaiterStep("scan", "deliver") /\ irqs' = {}
  /\ UNCHANGED <<boardVars, done, isr, readable, board, more, next_buf, local_buf>>
-----------------------------------------------------------------------------
(* The collecting thread: one interrupt of one board.                      *)

\* As in the driver: an entry if there is one, else what lay on the stack.
Fetch ==
  /\ IF int_queue_count[board] > 0
     THEN /\ WaiterStep("fetch", "check")
          /\ int_queue_count' = [int_queue_count EXCEPT ![board] = @ - 1]
          /\ more' = (int_queue_count[board] > 1)
     ELSE /\ WaiterStep("fetch", "again")
          /\ more' \in BOOLEAN
          /\ UNCHANGED int_queue_count
  /\ UNCHANGED <<used, engine, overrun, running, done, isr, irqs, readable,
                 board, next_buf, local_buf>>

FetchFails ==
  /\ "io" \in Faults
  /\ WaiterStep("fetch", "failing")
  /\ int_queue_count' = [int_queue_count EXCEPT ![board] =
                           IF @ > 0 THEN @ - 1 ELSE 0]
  /\ UNCHANGED <<used, engine, overrun, running, done, isr, waiterVars>>

CheckUsed ==
  /\ WaiterStep("check", IF next_buf[board] \in used[board]
                         THEN "errors" ELSE "not_full")
  /\ UNCHANGED <<boardVars, done, isr, waiterVars>>

CheckForError ==
  /\ WaiterStep("errors", IF board \in overrun THEN "failing" ELSE "copy")
  /\ UNCHANGED <<boardVars, done, isr, waiterVars>>

CopyOut ==
  /\ WaiterStep("copy", "reset")
  /\ local_buf' = [local_buf EXCEPT ![board] = @ \cup {next_buf[board]}]
  /\ UNCHANGED <<boardVars, done, isr, irqs, readable, board, more, next_buf>>

\* A plausible error: the buffer behind the one just read is reset.
ResetBuffer_Next ==
  /\ WaiterStep("reset", "clear")
  /\ used' = [used EXCEPT ![board] = @ \ {Next_buf(next_buf[board])}]
  /\ UNCHANGED <<int_queue_count, engine, overrun, running, done, isr, waiterVars>>

ResetBuffer ==
  /\ WaiterStep("reset", "clear")
  /\ used' = [used EXCEPT ![board] = @ \ {next_buf[board]}]
  /\ UNCHANGED <<int_queue_count, engine, overrun, running, done, isr, waiterVars>>

\* The interrupt is cleared and the next buffer is due.
ClearInterrupt ==
  /\ WaiterStep("clear", "ack")
  /\ next_buf' = [next_buf EXCEPT ![board] = Next_buf(@)]
  /\ UNCHANGED <<boardVars, done, isr, irqs, readable, board, more, local_buf>>

\* The end-of-interrupt write: what filled since the clearing may be issued
\* once more.
Ack ==
  /\ WaiterStep("ack", "again")
  /\ \/ UNCHANGED int_queue_count
     \/ /\ used[board] # {} /\ int_queue_count[board] < QueueSize
        /\ int_queue_count' = [int_queue_count EXCEPT ![board] = @ + 1]
  /\ UNCHANGED <<used, engine, overrun, running, done, isr, waiterVars>>

\* The buffer was not full, or one of the calls on the way failed.
ReadFails ==
  /\ \/ WaiterStep("not_full", "failing")
     \/ /\ "io" \in Faults
        /\ \E from \in {"check", "errors", "copy", "reset", "clear", "ack"} :
             WaiterStep(from, "failing")
  /\ UNCHANGED <<boardVars, done, isr, waiterVars>>

\* Locals that will not be read again are reset, here and in Failing.
Again ==
  /\ \/ /\ more /\ WaiterStep("again", "fetch") /\ UNCHANGED board
     \/ /\ ~more /\ WaiterStep("again", "scan") /\ board' = 1
  /\ more' = FALSE
  /\ UNCHANGED <<boardVars, done, isr, irqs, readable, next_buf, local_buf>>
-----------------------------------------------------------------------------
(* The collecting thread: the calls of the ISR.                            *)

Failing ==
  /\ WaiterStep("failing", "reporting")
  /\ done' = TRUE
  /\ irqs' = {} /\ readable' = {} /\ board' = 1 /\ more' = FALSE
  /\ UNCHANGED <<boardVars, isr, next_buf, local_buf>>

Report ==
  /\ WaiterStep("reporting", IF isr THEN "error_call" ELSE "called_null")
  /\ UNCHANGED <<boardVars, done, isr, waiterVars>>

ErrorCallReturns ==
  /\ WaiterStep("error_call", "exited")
  /\ UNCHANGED <<boardVars, done, isr, waiterVars>>

Deliver ==
  /\ WaiterStep("deliver", IF isr THEN "data_call" ELSE "exited")
  /\ done' = (done \/ ~isr)
  /\ UNCHANGED <<boardVars, isr, waiterVars>>

\* The ISR calls RemoveISR: the join of the thread by itself is refused.
IsrRemovesItself ==
  /\ IsrRemoves
  /\ waiter = "data_call" /\ waiter' = "data_call_refused"
  /\ isr' = FALSE /\ done' = TRUE /\ remove_isr_flag' = Board
  /\ UNCHANGED <<boardVars, pid, installVars, remover, waiterVars, malloced>>

DataCallReturns ==
  /\ waiter \in {"data_call", "data_call_refused"}
  /\ WaiterStep(waiter, "top")
  /\ local_buf' = [b \in Board |-> {}]
  /\ UNCHANGED <<boardVars, done, isr, irqs, readable, board, more, next_buf>>

WaiterNext ==
  \/ Start \/ StartFails \/ Top \/ SelectReturns \/ Woken
  \/ (\E b \in Board : Scan(b)) \/ ScanEnds
  \/ Fetch \/ FetchFails \/ CheckUsed \/ CheckForError \/ CopyOut
  \/ ResetBuffer \/ ClearInterrupt \/ Ack \/ ReadFails \/ Again
  \/ Failing \/ Report \/ ErrorCallReturns \/ Deliver \/ DataCallReturns

Next ==
  \/ \E b \in Board : Fill(b) \/ Trigger(b)
  \/ Install \/ InstallFails \/ InstallStartFails \/ InstallGoesOn
  \/ Remove \/ RemoveGoesOn
  \/ WaiterNext \/ SelectFails \/ IsrRemovesItself

Spec == Init /\ [][Next]_vars
-----------------------------------------------------------------------------
TypeOK ==
  /\ int_queue_count \in [Board -> 0 .. QueueSize]
  /\ remove_isr_flag \subseteq Board
  /\ used \in [Board -> SUBSET Buffer] /\ engine \in [Board -> Buffer]
  /\ overrun \subseteq Board /\ running \subseteq Board
  /\ done \in BOOLEAN /\ isr \in BOOLEAN /\ pid \in BOOLEAN
  /\ installer \in {"idle", "allocating", "creating", "storing", "starting",
                    "errored", "joining_errored", "joining", "forgetting",
                    "installed", "failed"}
  /\ to_start \subseteq Board /\ triggers \subseteq Board
  /\ start_failed \in BOOLEAN
  /\ remover \in {"idle", "clearing", "waking", "joining", "forgetting",
                  "removed", "refused", "joined_twice"}
  /\ waiter \in {"none", "start", "top", "select", "select_failed", "woken",
                 "scan", "fetch", "check", "not_full", "errors", "copy",
                 "reset", "clear", "ack", "again", "failing", "reporting",
                 "error_call", "called_null", "deliver", "data_call",
                 "data_call_refused", "exited", "joined"}
  /\ irqs \subseteq Board /\ readable \subseteq Board
  /\ board \in Board /\ more \in BOOLEAN
  /\ {next_buf, malloced} \subseteq [Board -> Buffer \cup {NoBuffer}]
  /\ local_buf \in [Board -> SUBSET Buffer]

\* The buffer whose samples Convert_ADC hands to the ISR: the one before the
\* next, cyclically.
LastRead(b) == IF next_buf[b] = 0 THEN NumBuffers - 1 ELSE next_buf[b] - 1

(* Every board of a complete readout was read since the last call: the ISR *)
(* never gets the samples of an earlier call again.  The thread counts     *)
(* boards that were readable, not boards that were read; that the two      *)
(* agree needs that no wakeup reaches it while it is meant to go on, which *)
(* only the error path of InstallISR sends.                                *)
FreshFromAll ==
  waiter = "data_call" /\ installer # "joining_errored" =>
    \A b \in Board : LastRead(b) \in local_buf[b]

\* The buffers from i on, up to the one before j; all if i = j.
Window(i, j) == {k \in Buffer : IF i < j THEN i <= k /\ k < j ELSE i <= k \/ k < j}

(* The thread's index of the next buffer and the engine's own never drift  *)
(* apart: what is used begins at next_buf and ends where the engine is,    *)
(* though interrupts are merged, repeated and dropped and each side        *)
(* advances alone, for a board whose index malloc has left at 0, where the *)
(* engine starts; no code sets it.  (Between the reset of a buffer and the *)
(* advance they do drift, and after a failure there, which ends the        *)
(* acquisition.)                                                           *)
ReadsInOrder ==
  \A b \in Board :
    malloced[b] = 0 /\ ~done /\ ~(board = b /\ waiter \in {"clear", "failing"}) =>
      \/ used[b] = {} /\ next_buf[b] = engine[b]
      \/ used[b] # {} /\ used[b] = Window(next_buf[b], engine[b])

(* "Interrupt was triggered but the buffer was not full"                   *)
(* (include/dm35425_adc_multiboard.h): acquisition ends with this error    *)
(* only if the board has no full buffer, or on account of what malloc has  *)
(* left in its index; the interleaving is never to blame.                  *)
NotFullMeansNoneFull ==
  [][CheckUsed /\ waiter' = "not_full" => used[board] = {} \/ malloced[board] # 0]_vars

(* When RemoveISR has returned with success, no thread is left that could  *)
(* call the ISR or read the boards, until another InstallISR.              *)
GoneAfterRemove ==
  remover = "removed" /\ InstallReturned /\ ~isr => waiter \in {"none", "joined"}

(* Fairness: threads run and an ISR that is called returns; and the thread *)
(* does not read one board for ever without once finding its queue empty:  *)
(* a board that always fills faster than it is read is of no use.  No      *)
(* board has to sample, nobody has to install or remove.                   *)
Reading == waiter \in {"fetch", "check", "errors", "copy", "reset", "clear",
                       "ack", "again"}

Fairness ==
  /\ WF_vars(WaiterNext)
  /\ []<>(~Reading \/ int_queue_count[board] = 0)
  /\ WF_vars(InstallGoesOn)
  /\ WF_vars(RemoveGoesOn)
  /\ \A b \in Board : WF_vars(Trigger(b))

FairSpec == Spec /\ Fairness

\* The same without the loop on what an empty queue left in more.
LeavingSpec == FairSpec /\ []<>~Reading

(* RemoveISR returns, wherever the collecting thread was (unless it meets  *)
(* an error and calls the ISR that was just removed, or InstallISR has     *)
(* failed and has joined it already).                                      *)
RemoveReturns ==
  remover = "clearing"
    ~> RemoveReturned \/ remover = "joined_twice" \/ waiter = "called_null"

(* With every board that was not yet read asking for service, the ISR is   *)
(* called, with data or with an error, or the thread is told to stop (or a *)
(* board did not start).                                                   *)
Called == {"data_call", "data_call_refused", "error_call", "called_null", "exited"}
IsrIsCalled ==
  waiter = "select" /\ (\A b \in Board \ irqs : int_queue_count[b] > 0)
    ~> waiter \in Called \/ installer = "joining_errored"

(* InstallISR with block returns when RemoveISR has been called, by        *)
(* another thread or by the ISR, though that call itself may fail.         *)
InstallUnblocks ==
  installer = "joining" /\ done ~> installer # "joining" \/ waiter = "called_null"
-----------------------------------------------------------------------------
(* What the sources say and the code does not keep.                        *)

(* "Installing the ISR starts the data acquisition process on all boards   *)
(* immediately" (include/dm35425_adc_multiboard.h): a thread that          *)
(* InstallISR has created collects.                                        *)
NewThreadCollects == waiter = "start" => ~done
=============================================================================
