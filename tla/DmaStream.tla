------------------------------- MODULE DmaStream -------------------------------
(***************************************************************************)
(* Continuous acquisition through one DMA channel, as the two example      *)
(* programs do it (examples/dm35425_adc_continuous_dma.c and               *)
(* examples/dm35425_adc_all_dma.c): the main thread starts the channel and *)
(* writes what arrives to a file, the interrupt thread empties the DMA     *)
(* buffers into local buffers.  Starting and clearing a channel            *)
(* (lib/librtd-dm35425_dma.c) poll the board until it has taken the action.*)
(*                                                                         *)
(* The data of a buffer is the number of the buffer in the stream, modulo  *)
(* Numbers.  The channels of the second program are filled and read        *)
(* together; here they are one.  The engine fills the buffers in turn, and *)
(* stops at one that is still used.                                        *)
(***************************************************************************)
EXTENDS Naturals

CONSTANTS
  Programs,      \* which of "continuous" and "all" to run
  NumBuffers,    \* num_dma_buffers of the channel, and local buffers
  QueueSize,     \* DM35425_INT_QUEUE_SIZE
  ActionLoops,   \* DM35425_DMA_ACTION_LOOPS
  Numbers        \* a multiple of NumBuffers

ASSUME StreamAssumption ==
  /\ Programs \subseteq {"continuous", "all"}
  /\ NumBuffers \in Nat \ {0} /\ QueueSize \in Nat \ {0}
  /\ ActionLoops \in Nat
  /\ Numbers \in Nat \ {0} /\ Numbers % NumBuffers = 0

Buffer == 0 .. NumBuffers - 1
Number == 0 .. Numbers - 1
Torn == Numbers         \* no data, or of two buffers
MaxAhead == NumBuffers + 1 + Numbers

VARIABLES
  program,
  action, last_action,  \* the registers of the channel
  interrupts,           \* whether its interrupts are enabled
  sampling,             \* the ADC runs
  engine, filled,       \* the buffer that is filled next, and its number
  content, used,        \* of the DMA buffers
  complete, error,      \* status of the channel
  int_queue_count,      \* interrupts in the driver's queue
  main,                 \* where the main thread is
  data, loops,          \* variables of the library's functions, in main
  exit_program,
  local_buffer_count,   \* modulo Numbers
  ahead,                \* buffer_count - local_buffer_count; above NumBuffers + 1
                        \* known modulo Numbers only
  local_buffer,         \* the data of each local buffer
  item,                 \* what main has written of a local buffer
  thread,               \* where the interrupt thread is
  next_buffer

boardVars == <<action, last_action, sampling, engine, filled, content, error>>
statusVars == <<interrupts, used, complete, int_queue_count>>
callVars == <<data, loops>>
mainVars == <<main, local_buffer_count, item>>
vars == <<program, boardVars, statusVars, callVars, mainVars, exit_program,
          ahead, local_buffer, thread, next_buffer>>

Init ==
  /\ program \in Programs
  /\ action \in {"clear", "halt"} /\ last_action = action
  /\ interrupts = FALSE /\ sampling = FALSE
  /\ engine = 0 /\ filled = 0
  /\ content = [b \in Buffer |-> Torn] /\ used = {}
  /\ complete = FALSE /\ error = FALSE
  /\ int_queue_count = 0
  /\ main = "clear" /\ data = "none" /\ loops = 0
  /\ exit_program = FALSE
  /\ local_buffer_count = 0 /\ ahead = 0
  /\ local_buffer = [b \in Buffer |-> Torn] /\ item = Torn
  /\ thread = "none" /\ next_buffer = 0

Next_buffer(b) == (b + 1) % NumBuffers
Running == main \notin {"done", "gave_up"}
-----------------------------------------------------------------------------
(* The board and the driver's queue.                                       *)

\* The board takes an action some time after it was written, or comes back and
\* sets it to Halt.
TakeAction ==
  /\ last_action # action
  /\ \/ last_action' = action /\ UNCHANGED action
     \/ action' = "halt" /\ UNCHANGED last_action
  /\ UNCHANGED <<program, sampling, engine, filled, content, error, statusVars,
                 callVars, mainVars, exit_program, ahead, local_buffer, thread, next_buffer>>

\* From the fetch of an interrupt until its status is cleared.
InService == thread \notin {"none", "waiting", "exited"}

\* One that comes while an earlier one is queued or in service may be merged
\* with it; a full queue drops it.
Interrupt ==
  \/ int_queue_count < QueueSize /\ int_queue_count' = int_queue_count + 1
  \/ (int_queue_count > 0 \/ InService) /\ UNCHANGED int_queue_count

Raise == IF interrupts THEN Interrupt ELSE UNCHANGED int_queue_count

Fill ==
  /\ sampling /\ last_action = "go" /\ ~error
  /\ IF engine \in used
       THEN error' = TRUE /\ UNCHANGED <<used, content, engine, filled, complete>>
       ELSE /\ used' = used \cup {engine}
            /\ content' = [content EXCEPT ![engine] = filled]
            /\ engine' = Next_buffer(engine)
            /\ filled' = (filled + 1) % Numbers
            /\ complete' = TRUE
            /\ UNCHANGED error
  /\ Raise
  /\ UNCHANGED <<program, action, last_action, sampling, interrupts, callVars, mainVars,
                 exit_program, ahead, local_buffer, thread, next_buffer>>
-----------------------------------------------------------------------------
(* The main thread: Dma_Clear and Dma_Start.                               *)

Goto(from, to) == main = from /\ main' = to

Call(from, to) ==
  /\ Goto(from, to)
  /\ UNCHANGED <<program, last_action, sampling, engine, filled, content, error,
                 statusVars, exit_program, local_buffer_count, item, ahead, local_buffer,
                 thread, next_buffer>>

WriteAction(from, act, to) ==
  /\ Call(from, to)
  /\ action' = act /\ data' = act
  /\ UNCHANGED loops

\* Dma_Initialize has disabled the interrupts.  A clear that does not stay is
\* written once more.
Dma_Clear == WriteAction("clear", "clear", "read_back")
ClearAgain == WriteAction("clear_again", "clear", "read_again")

ReadBack ==
  /\ \/ Call("read_back", IF action = "clear" THEN "poll_clear" ELSE "clear_again")
     \/ Call("read_again", IF action = "clear" THEN "poll_clear" ELSE "gave_up")
  /\ data' = action
  /\ UNCHANGED <<action, loops>>

Dma_Start == WriteAction("start", "go", "poll_start")

\* A plausible error: one that is not taken in time is not noticed.
Poll_Patient(at, reread, to) ==
  /\ IF last_action # data /\ loops < ActionLoops
       THEN Call(at, reread) /\ UNCHANGED callVars
       ELSE Call(at, to) /\ data' = "none" /\ loops' = 0
  /\ UNCHANGED action

\* The last action is compared with the action that the board has now, until
\* they agree or the patience is over.
Poll(at, reread, to) ==
  /\ IF last_action # data /\ loops < ActionLoops
       THEN Call(at, reread) /\ UNCHANGED callVars
       ELSE /\ Call(at, IF last_action = data THEN to ELSE "gave_up")
            /\ data' = "none" /\ loops' = 0
  /\ UNCHANGED action

Reread(reread, at) ==
  /\ Call(reread, at)
  /\ data' = action
  /\ loops' = loops + 1
  /\ UNCHANGED action

Polling ==
  \/ Poll("poll_clear", "reread_clear", "setup") \/ Reread("reread_clear", "poll_clear")
  \/ Poll("poll_start", "reread_start", "adc") \/ Reread("reread_start", "poll_start")
-----------------------------------------------------------------------------
(* The main thread: the rest of the program.                               *)

\* Status and buffers are cleared and set up, and the interrupts enabled.
Setup ==
  /\ Goto("setup", "install")
  /\ used' = {} /\ complete' = FALSE /\ interrupts' = TRUE
  /\ UNCHANGED <<program, boardVars, int_queue_count, callVars, local_buffer_count, item,
                 exit_program, ahead, local_buffer, thread, next_buffer>>

InstallISR ==
  /\ Goto("install", "start")
  /\ thread' = "waiting"
  /\ UNCHANGED <<program, boardVars, statusVars, callVars, local_buffer_count, item,
                 exit_program, ahead, local_buffer, next_buffer>>

Adc_Start ==
  /\ Goto("adc", "loop")
  /\ sampling' = TRUE
  /\ UNCHANGED <<program, action, last_action, engine, filled, content, error, statusVars,
                 callVars, local_buffer_count, item, exit_program, ahead, local_buffer,
                 thread, next_buffer>>

InLoop ==
  UNCHANGED <<program, boardVars, statusVars, callVars, local_buffer, thread, next_buffer>>

\* The end of the loop: asked to exit, or enough samples.
LoopEnds ==
  /\ Goto("loop", "end")
  /\ InLoop
  /\ UNCHANGED <<local_buffer_count, item, exit_program, ahead>>

\* The first program looks for an overrun, and writes one more buffer then.
LoopTest ==
  /\ ~exit_program
  /\ program = "continuous"
  /\ IF ahead > NumBuffers THEN Goto("loop", "write") /\ exit_program' = TRUE
                           ELSE Goto("loop", "wait") /\ UNCHANGED exit_program
  /\ InLoop
  /\ UNCHANGED <<local_buffer_count, item, ahead>>

\* It waits for a buffer, and not for ever.
Wait ==
  /\ \/ /\ exit_program \/ ahead = 0
        /\ exit_program' = TRUE
        /\ Goto("wait", "end")
     \/ /\ ~exit_program /\ ahead > 0
        /\ Goto("wait", "write")
        /\ UNCHANGED exit_program
  /\ InLoop
  /\ UNCHANGED <<local_buffer_count, item, ahead>>

\* The second program asks again and again.
LoopTestAll ==
  /\ ~exit_program
  /\ program = "all"
  /\ ahead > 0
  /\ Goto("loop", "write")
  /\ InLoop
  /\ UNCHANGED <<local_buffer_count, item, exit_program, ahead>>

Entry == local_buffer[local_buffer_count % NumBuffers]

Write ==
  /\ \/ Goto("write", "writing") /\ item' = Entry
     \/ Goto("writing", "written") /\ item' = IF Entry = item THEN item ELSE Torn
  /\ InLoop
  /\ UNCHANGED <<local_buffer_count, exit_program, ahead>>

Written ==
  /\ Goto("written", "loop")
  /\ local_buffer_count' = (local_buffer_count + 1) % Numbers
  /\ ahead' \in {ahead - 1} \cup (IF ahead = NumBuffers + 2 THEN {MaxAhead} ELSE {})
  /\ item' = Torn
  /\ InLoop
  /\ UNCHANGED exit_program

\* SIGINT.
Sigint_handler ==
  /\ main \in {"loop", "wait", "write", "writing", "written"}
  /\ exit_program' = TRUE
  /\ InLoop
  /\ UNCHANGED <<mainVars, ahead>>

DisableInterrupts ==
  /\ Goto("end", "free")
  /\ interrupts' = FALSE
  /\ UNCHANGED <<program, boardVars, used, complete, int_queue_count, callVars,
                 local_buffer_count, item, exit_program, ahead, local_buffer, thread,
                 next_buffer>>

FreeBuffers ==
  /\ Goto("free", "remove")
  /\ local_buffer' = [b \in Buffer |-> Torn]
  /\ UNCHANGED <<program, boardVars, statusVars, callVars, local_buffer_count, item,
                 exit_program, ahead, thread, next_buffer>>

\* RemoveISR wakes the thread and waits for its end.
RemoveISR ==
  /\ Goto("remove", "done")
  /\ thread = "waiting"
  /\ thread' = "exited"
  /\ UNCHANGED <<program, boardVars, statusVars, callVars, local_buffer_count, item,
                 exit_program, ahead, local_buffer, next_buffer>>
-----------------------------------------------------------------------------
(* The interrupt thread and the ISR of each program.                       *)

Isr(from, to) ==
  /\ Running
  /\ thread = from /\ thread' = to
  /\ UNCHANGED <<program, boardVars, interrupts, callVars, local_buffer_count, item>>

Fetch ==
  /\ int_queue_count > 0
  /\ int_queue_count' = int_queue_count - 1
  /\ Isr("waiting", IF program = "continuous" THEN "find" ELSE "check")
  /\ UNCHANGED <<used, complete, main, exit_program, ahead, local_buffer, next_buffer>>

\* With nothing to find the ISR returns, without an acknowledgement.
Find ==
  /\ Isr("find", IF complete \/ error THEN "errors" ELSE "waiting")
  /\ UNCHANGED <<used, complete, int_queue_count, main, exit_program, ahead,
                 local_buffer, next_buffer>>

CheckForError ==
  /\ IF error THEN Isr("errors", "waiting") /\ exit_program' = TRUE
     ELSE /\ Isr("errors", IF program = "continuous" THEN "check" ELSE "copy")
          /\ UNCHANGED exit_program
  /\ UNCHANGED <<used, complete, int_queue_count, main, ahead, local_buffer, next_buffer>>

\* The second program ends when the buffer is not full.
CheckBufferUsed ==
  /\ IF program = "continuous"
       THEN Isr("check", IF next_buffer \in used THEN "copy" ELSE "clear") /\ UNCHANGED main
       ELSE IF next_buffer \in used THEN Isr("check", "errors") /\ UNCHANGED main
                                    ELSE Isr("check", "exited") /\ main' = "gave_up"
  /\ UNCHANGED <<used, complete, int_queue_count, exit_program, ahead, local_buffer, next_buffer>>

Counted == ahead' = IF ahead = MaxAhead THEN NumBuffers + 2 ELSE ahead + 1

\* A plausible error: the buffer is given back to the engine before it is read.
Dma_Read_AfterReset ==
  /\ \/ /\ Isr("copy", "copied")
        /\ used' = used \ {next_buffer}
        /\ local_buffer' = [local_buffer EXCEPT ![next_buffer] = Torn]
        /\ UNCHANGED ahead
     \/ /\ Isr("copied", "reset")
        /\ local_buffer' = [local_buffer EXCEPT ![next_buffer] = content[next_buffer]]
        /\ IF program = "continuous" THEN Counted ELSE UNCHANGED ahead
        /\ UNCHANGED used
  /\ UNCHANGED <<complete, int_queue_count, main, exit_program, next_buffer>>

\* Copying takes some time; the first program counts the buffer then.
Dma_Read ==
  /\ \/ /\ Isr("copy", "copied")
        /\ local_buffer' = [local_buffer EXCEPT ![next_buffer] = Torn]
        /\ UNCHANGED ahead
     \/ /\ Isr("copied", "reset")
        /\ local_buffer' = [local_buffer EXCEPT ![next_buffer] = content[next_buffer]]
        /\ IF program = "continuous" THEN Counted ELSE UNCHANGED ahead
  /\ UNCHANGED <<used, complete, int_queue_count, main, exit_program, next_buffer>>

Dma_Reset_Buffer ==
  /\ used' = used \ {next_buffer}
  /\ IF program = "continuous"
       THEN Isr("reset", "check") /\ next_buffer' = Next_buffer(next_buffer)
       ELSE Isr("reset", "clear") /\ UNCHANGED next_buffer
  /\ UNCHANGED <<complete, int_queue_count, main, exit_program, ahead, local_buffer>>

Dma_Clear_Interrupt ==
  /\ Isr("clear", IF program = "continuous" THEN "acknowledge" ELSE "count")
  /\ complete' = FALSE
  /\ UNCHANGED <<used, int_queue_count, main, exit_program, ahead, local_buffer, next_buffer>>

CountAll ==
  /\ Isr("count", "acknowledge")
  /\ next_buffer' = Next_buffer(next_buffer)
  /\ Counted
  /\ UNCHANGED <<used, complete, int_queue_count, main, exit_program, local_buffer>>

\* A plausible error: no acknowledgement.
Ack_Interrupt_Forgotten ==
  /\ Isr("acknowledge", "waiting")
  /\ UNCHANGED <<used, complete, int_queue_count, main, exit_program, ahead, local_buffer,
                 next_buffer>>

\* "This will cause any pending interrupts to re-issue."
Ack_Interrupt ==
  /\ Isr("acknowledge", "waiting")
  /\ IF interrupts /\ (complete \/ error)
       THEN \/ int_queue_count < QueueSize /\ int_queue_count' = int_queue_count + 1
            \/ int_queue_count > 0 /\ UNCHANGED int_queue_count
       ELSE UNCHANGED int_queue_count
  /\ UNCHANGED <<used, complete, main, exit_program, ahead, local_buffer, next_buffer>>
-----------------------------------------------------------------------------
Starting ==
  Dma_Clear \/ ClearAgain \/ ReadBack \/ Dma_Start \/ Polling \/ Setup \/ InstallISR \/ Adc_Start
Looping == LoopTest \/ Wait \/ LoopTestAll \/ Write \/ Written
Ending == DisableInterrupts \/ FreeBuffers \/ RemoveISR
InISR ==
  \/ Find \/ CheckForError \/ CheckBufferUsed \/ Dma_Read \/ Dma_Reset_Buffer
  \/ Dma_Clear_Interrupt \/ CountAll \/ Ack_Interrupt
Board == TakeAction \/ Fill

Next == Starting \/ Looping \/ LoopEnds \/ Sigint_handler \/ Ending \/ Fetch \/ InISR \/ Board

\* The engine goes on, and so do both threads; nobody has to interrupt the program
\* or to have enough samples.
Fairness ==
  /\ WF_vars(Fill)
  /\ WF_vars(Fetch) /\ WF_vars(InISR)
  /\ WF_vars(Looping) /\ WF_vars(Ending)
  /\ WF_vars(exit_program /\ LoopEnds)

Spec == Init /\ [][Next]_vars /\ Fairness
-----------------------------------------------------------------------------
Action == {"clear", "halt", "go"}

\* Types; where the three positions in the stream must agree; and a start that
\* has succeeded means that the board has taken the action that it has.
StreamTypeOK ==
  /\ action \in Action /\ last_action \in Action /\ data \in Action \cup {"none"}
  /\ engine \in Buffer /\ next_buffer \in Buffer /\ used \subseteq Buffer
  /\ filled \in Number /\ local_buffer_count \in Number
  /\ \A b \in Buffer : {content[b], local_buffer[b]} \subseteq Number \cup {Torn}
  /\ int_queue_count \in 0 .. QueueSize
  /\ loops \in 0 .. ActionLoops
  /\ ahead \in 0 .. MaxAhead
  /\ filled % NumBuffers = engine
  /\ sampling => last_action = action

\* While the ISR is less than a whole turn ahead, what main writes to the file is
\* the next buffer of the stream, whole: no buffer is left out, repeated, or
\* overwritten while it is written, wherever the interrupts come and merge.
DeliveredInOrder ==
  main = "written" /\ ahead < NumBuffers => item = local_buffer_count

\* A buffer that was filled is emptied, whichever interrupts are merged, dropped
\* or cleared too early - or the program ends, as it does when the engine meets a
\* buffer that is still used.
BufferCollected ==
  \A b \in Buffer :
    b \in used ~> b \notin used \/ main \in {"done", "gave_up"}
=============================================================================
