-------------------------------- MODULE OsIsr --------------------------------
(***************************************************************************)
(* The user-space half of interrupt delivery (lib/dm35425_os.c): the       *)
(* application installs and removes an ISR, and a thread of the library    *)
(* sleeps in select until the driver has an interrupt, fetches it by ioctl *)
(* and calls the ISR.  One application thread, one opened device.          *)
(*                                                                         *)
(* Of the driver the library sees the length of the interrupt queue (its   *)
(* order and bound are IntQueue) and remove_isr_flag, both under the       *)
(* driver's lock, so every system call is one step.                        *)
(*                                                                         *)
(* handle->isr is read and written by two threads without synchronisation. *)
(* A test of it and the call that follows use one load in the optimised    *)
(* build the makefiles ask for, so they are one step, except where a       *)
(* system call lies between the last test and the call.                    *)
(***************************************************************************)
EXTENDS Naturals

CONSTANTS
  QueueSize,      \* DM35425_INT_QUEUE_SIZE
  MaxRemovals,    \* bound of the model on the number of RemoveISR calls
  Signals,        \* whether signals may interrupt select
  CopyFaults,     \* whether the ioctl that fetches an interrupt may fail
  ThreadFaults    \* whether pthread_create may fail

ASSUME OsAssumption ==
  /\ QueueSize \in Nat \ {0}
  /\ MaxRemovals \in Nat
  /\ Signals \in BOOLEAN /\ CopyFaults \in BOOLEAN /\ ThreadFaults \in BOOLEAN

VARIABLES
  int_queue_count,   \* interrupts in the driver's queue
  remove_isr_flag,   \* set by the wakeup ioctl, cleared by open only
  isr,               \* whether handle->isr is not NULL
  app,               \* where the application thread is
  waiter,            \* where the waiting thread is
  inner,             \* the waiting thread is in its inner loop
  info,              \* what its last fetch brought: an entry, "nothing", "failed"
  remaining,         \* interrupts_remaining of that fetch
  removals,          \* RemoveISR calls so far
  dropped            \* entries fetched when the ISR was gone

driverVars == <<int_queue_count, remove_isr_flag>>
waiterVars == <<waiter, inner, info, remaining>>
vars == <<driverVars, isr, app, waiterVars, removals, dropped>>

Init ==
  /\ int_queue_count = 0 /\ remove_isr_flag = FALSE
  /\ isr = FALSE
  /\ app = "idle"
  /\ waiter = "none" /\ inner = FALSE /\ info = "nothing" /\ remaining = 0
  /\ removals = 0 /\ dropped = 0
-----------------------------------------------------------------------------
(* The driver.                                                             *)

Arrive ==
  /\ int_queue_count < QueueSize
  /\ int_queue_count' = int_queue_count + 1
  /\ UNCHANGED <<remove_isr_flag, isr, app, waiterVars, removals, dropped>>

\* A plausible error: only a pending wakeup makes the device readable.
Readable_FlagOnly == remove_isr_flag

Readable == remove_isr_flag \/ int_queue_count > 0

\* A plausible error: the count is taken before the removal.
FetchEntry_CountBefore ==
  /\ int_queue_count > 0
  /\ int_queue_count' = int_queue_count - 1
  /\ info' = "entry"
  /\ remaining' = int_queue_count

\* A plausible error: an empty queue is not noticed.
FetchEntry_Unchecked ==
  /\ int_queue_count' = int_queue_count - 1
  /\ info' = "entry"
  /\ remaining' \in 0 .. QueueSize

\* The fetch takes an entry if there is one.  If there is none the argument
\* comes back with interrupts_remaining as it lay on the kernel's stack.
FetchEntry ==
  /\ int_queue_count > 0
  /\ int_queue_count' = int_queue_count - 1
  /\ info' = "entry"
  /\ remaining' = int_queue_count - 1

FetchNothing ==
  /\ int_queue_count = 0
  /\ info' = "nothing"
  /\ remaining' \in 0 .. QueueSize
  /\ UNCHANGED int_queue_count

FetchFault ==
  /\ CopyFaults
  /\ int_queue_count' = IF int_queue_count > 0 THEN int_queue_count - 1 ELSE 0
  /\ info' = "failed"
-----------------------------------------------------------------------------
(* The application thread.                                                 *)

\* With an ISR in place the call returns EBUSY and changes nothing.
Install ==
  /\ app = "idle"
  /\ ~isr
  /\ isr' = TRUE
  /\ app' = "creating"
  /\ UNCHANGED <<driverVars, waiterVars, removals, dropped>>

CreateThread ==
  /\ app = "creating"
  /\ waiter' = "select"
  /\ app' = "idle"
  /\ UNCHANGED <<driverVars, isr, inner, info, remaining, removals, dropped>>

\* InstallISR returns an error and leaves handle->isr set.
CreateFails ==
  /\ ThreadFaults
  /\ app = "creating"
  /\ app' = "idle"
  /\ UNCHANGED <<driverVars, isr, waiterVars, removals, dropped>>

RemoveClear ==
  /\ app = "idle"
  /\ isr
  /\ removals < MaxRemovals
  /\ isr' = FALSE
  /\ removals' = removals + 1
  /\ app' = "waking"
  /\ UNCHANGED <<driverVars, waiterVars, dropped>>

\* A plausible error: the thread is left asleep.
RemoveWakeup_Forgotten ==
  /\ app = "waking"
  /\ app' = "joining"
  /\ UNCHANGED <<driverVars, isr, waiterVars, removals, dropped>>

RemoveWakeup ==
  /\ app = "waking"
  /\ remove_isr_flag' = TRUE
  /\ app' = "joining"
  /\ UNCHANGED <<int_queue_count, isr, waiterVars, removals, dropped>>

\* A plausible error: the thread is not waited for.
RemoveJoin_Detached ==
  /\ app = "joining"
  /\ app' = "idle"
  /\ UNCHANGED <<driverVars, isr, waiterVars, removals, dropped>>

\* pthread_join of a thread that was never created, or joined before, is
\* undefined; the model stops there.
RemoveJoin ==
  /\ app = "joining"
  /\ \/ waiter = "exited" /\ waiter' = "none" /\ app' = "idle"
     \/ waiter = "none" /\ app' = "joined_no_thread" /\ UNCHANGED waiter
  /\ UNCHANGED <<driverVars, isr, inner, info, remaining, removals, dropped>>
-----------------------------------------------------------------------------
(* The waiting thread.                                                     *)

WaiterStep(from, to) ==
  /\ waiter = from
  /\ waiter' = to
  /\ UNCHANGED <<isr, app, remove_isr_flag, removals>>

SelectReturns ==
  /\ Readable
  /\ WaiterStep("select", "woken")
  /\ UNCHANGED <<int_queue_count, inner, info, remaining, dropped>>

SelectInterrupted ==
  /\ Signals
  /\ WaiterStep("select", "signalled")
  /\ UNCHANGED <<int_queue_count, inner, info, remaining, dropped>>

\* The test behind select.  An interrupted select ends the thread, after a
\* last call of the ISR if there is one.
Woken ==
  /\ WaiterStep("woken", IF isr THEN "fetch" ELSE "exited")
  /\ UNCHANGED <<int_queue_count, inner, info, remaining, dropped>>

Signalled ==
  /\ WaiterStep("signalled", IF isr THEN "last_call" ELSE "exited")
  /\ UNCHANGED <<int_queue_count, inner, info, remaining, dropped>>

Fetch ==
  /\ WaiterStep("fetch", "fetched")
  /\ \/ FetchEntry
     \/ FetchNothing
     \/ FetchFault /\ remaining' = IF inner THEN 0 ELSE remaining
  /\ UNCHANGED <<inner, dropped>>

\* The first fetch failed: the ISR is called without another test.
FetchFailed ==
  /\ ~inner /\ info = "failed"
  /\ WaiterStep("fetched", IF isr THEN "last_call" ELSE "called_null")
  /\ UNCHANGED <<int_queue_count, inner, info, remaining, dropped>>

\* A plausible error: the inner loop goes on when the ISR is gone.
CallOrQuit_InnerGoesOn ==
  /\ inner \/ info # "failed"
  /\ WaiterStep("fetched", IF isr THEN "calling"
                           ELSE IF inner THEN "fetch" ELSE "exited")
  /\ dropped' = IF ~isr /\ info = "entry" THEN dropped + 1 ELSE dropped
  /\ UNCHANGED <<int_queue_count, inner, info, remaining>>

\* The test behind the ioctl: with no ISR the first fetch ends the thread, one
\* of the inner loop goes back to select; what was fetched is dropped.
CallOrQuit ==
  /\ inner \/ info # "failed"
  /\ WaiterStep("fetched", IF isr THEN "calling"
                           ELSE IF inner THEN "select" ELSE "exited")
  /\ inner' = (inner /\ isr)
  /\ dropped' = IF ~isr /\ info = "entry" THEN dropped + 1 ELSE dropped
  /\ UNCHANGED <<int_queue_count, info, remaining>>

IsrReturns ==
  /\ WaiterStep("calling", IF remaining > 0 THEN "fetch" ELSE "select")
  /\ inner' = (remaining > 0)
  /\ UNCHANGED <<int_queue_count, info, remaining, dropped>>

LastCallReturns ==
  /\ WaiterStep("last_call", "exited")
  /\ inner' = FALSE
  /\ UNCHANGED <<int_queue_count, info, remaining, dropped>>

Application ==
  \/ Install \/ CreateThread \/ CreateFails
  \/ RemoveClear \/ RemoveWakeup \/ RemoveJoin

Waiter ==
  \/ SelectReturns \/ Woken \/ Signalled \/ Fetch \/ FetchFailed
  \/ CallOrQuit \/ IsrReturns \/ LastCallReturns

Next == Arrive \/ Application \/ Waiter \/ SelectInterrupted

Spec == Init /\ [][Next]_vars
-----------------------------------------------------------------------------
TypeOK ==
  /\ int_queue_count \in 0 .. QueueSize /\ remove_isr_flag \in BOOLEAN
  /\ isr \in BOOLEAN
  /\ app \in {"idle", "creating", "waking", "joining", "joined_no_thread"}
  /\ waiter \in {"none", "select", "woken", "signalled", "fetch", "fetched",
                 "calling", "last_call", "called_null", "exited"}
  /\ inner \in BOOLEAN
  /\ info \in {"entry", "nothing", "failed"}
  /\ remaining \in 0 .. QueueSize
  /\ removals \in 0 .. MaxRemovals /\ dropped \in Nat

(* When RemoveISR has returned, the thread is gone: no call of the ISR is  *)
(* going on or will be made until another InstallISR.                      *)
NoCallAfterRemove == app = "idle" /\ ~isr => waiter = "none"

(* A call of the ISR without an interrupt happens only once a wakeup has   *)
(* been sent: until then a readable device, and a positive                 *)
(* interrupts_remaining, each mean that the next fetch finds an entry,     *)
(* because this thread alone fetches.                                      *)
FetchFindsEntry ==
  waiter = "fetched" /\ info = "nothing" => remove_isr_flag

(* Removing the ISR throws away at most the one entry that the thread has  *)
(* fetched and not delivered; the rest stays in the driver's queue.        *)
RemovalDropsAtMostOne == dropped <= removals

(* Fairness: the threads run, and an ISR that is called returns.  Nobody   *)
(* has to install, remove or interrupt.                                    *)
Fairness ==
  /\ WF_vars(Waiter)
  /\ WF_vars(CreateThread \/ RemoveWakeup \/ RemoveJoin)

FairSpec == Spec /\ Fairness

(* RemoveISR returns: whatever the thread was doing, it sees that the ISR  *)
(* is gone and the join ends, also when a signal or a failing fetch met the*)
(* thread, when the fetch left rubbish in interrupts_remaining, and when   *)
(* interrupts keep arriving; only a call through NULL ends it all.         *)
RemoveReturns ==
  app = "waking" ~> app \in {"idle", "joined_no_thread"} \/ waiter = "called_null"

(* While an ISR is installed and its thread runs, a queued interrupt leads *)
(* to a call of the ISR with an interrupt, or fetching fails.              *)
Alive == isr /\ waiter \notin {"none", "exited", "last_call", "signalled"}
InterruptReachesIsr ==
  int_queue_count > 0 /\ Alive
    ~> (waiter = "calling" /\ info = "entry") \/ info = "failed" \/ ~Alive
-----------------------------------------------------------------------------
(* What the sources say and the code does not keep.                        *)

(* "As an ioctl call can occur, one more check is needed before calling    *)
(* the ISR" (lib/dm35425_os.c): the ISR is never called through a pointer  *)
(* that RemoveISR has set to NULL.                                         *)
NeverCallsNull == waiter # "called_null"
=============================================================================
