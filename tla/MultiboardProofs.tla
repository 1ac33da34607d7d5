--------------------------- MODULE MultiboardProofs ---------------------------
(***************************************************************************)
(* Proofs about acquisition with several boards, for any number of boards, *)
(* buffers and slots, with and without block, whoever removes the ISR and  *)
(* whatever fails.                                                         *)
(***************************************************************************)
EXTENDS Multiboard, TLAPS

(* Only an index inside the ring is ever read, reset and advanced.         *)
IndexInRing ==
  waiter \in {"errors", "copy", "reset", "clear"} => next_buf[board] \in Buffer

(* Who holds, joins or forgets the thread's id; there is one thread at a   *)
(* time.                                                                   *)
IdKept ==
  /\ installer \in {"allocating", "creating"} => waiter \in {"none", "exited", "joined"}
  /\ ~pid /\ installer # "storing" => waiter \in {"none", "joined"}
  /\ installer \in {"starting", "joining"} => pid
  /\ installer = "forgetting" \/ remover = "forgetting" => waiter = "joined"
  /\ remover = "forgetting" => installer # "joining"
  /\ ~RemoveReturned /\ remover # "joined_twice"
       => InstallReturned \/ installer \in {"joining", "forgetting"}

Installing == installer \in {"allocating", "creating", "storing", "starting",
                             "errored", "joining_errored"}

(* A removal stays in force: done is never reset, so that a thread created *)
(* later ends before it looks at a board.                                  *)
RemovalLasts ==
  /\ remover \notin {"idle", "clearing"} => done
  /\ remover = "removed" /\ Installing => isr
  /\ remover = "removed" =>
       \/ waiter \in {"none", "joined"}
       \/ isr /\ waiter \in {"start", "top", "exited"}

(* A wakeup means that the thread is to end, save on the error path of     *)
(* InstallISR, which then joins it.                                        *)
WakeupMeansEnd ==
  /\ Installing => isr \/ done
  /\ remove_isr_flag # {} =>
       \/ done
       \/ installer = "joining_errored"
       \/ installer = "failed" /\ waiter = "joined" /\ (isr \/ remover = "clearing")

(* The boards that the thread has still to look at have an entry, and so   *)
(* has the board from which it fetches.                                    *)
EntriesFound ==
  installer # "joining_errored" =>
    /\ waiter = "woken" => done \/ \A b \in readable : int_queue_count[b] > 0
    /\ waiter = "scan" \/ Reading => \A b \in readable : int_queue_count[b] > 0
    /\ Reading => board \notin readable
    /\ waiter = "fetch" => int_queue_count[board] > 0
    /\ Reading /\ waiter # "fetch" /\ more => int_queue_count[board] > 0

LastIsRead(b) == LastRead(b) \in local_buf[b]

(* The boards that are counted were read, but for the one in hand; when    *)
(* the ISR is called all were.                                             *)
CountedWereRead ==
  /\ waiter \in {"reset", "clear"} => next_buf[board] \in local_buf[board]
  /\ installer # "joining_errored" =>
       /\ waiter \in {"top", "select", "woken", "scan"} \/ Reading =>
            \A b \in irqs :
              \/ LastIsRead(b)
              \/ b = board /\ Reading /\ waiter \notin {"ack", "again"}
       /\ waiter \in {"deliver", "data_call"} => \A b \in Board : LastIsRead(b)
       /\ waiter \in {"deliver", "data_call", "data_call_refused"} => irqs = {}

Inv ==
  /\ TypeOK /\ IndexInRing
  /\ IdKept /\ RemovalLasts
  /\ WakeupMeansEnd /\ EntriesFound /\ CountedWereRead
-----------------------------------------------------------------------------
(* The first board and the first buffer exist.                             *)
LEMMA First == 1 \in Board /\ 0 \in Buffer
BY MultiboardAssumption DEF Board, Buffer

(* The buffer behind one of the ring is in the ring, and that one is the   *)
(* one before it.                                                          *)
LEMMA BeforeNext ==
  ASSUME NEW i \in Buffer
  PROVE  /\ Next_buf(i) \in Buffer
         /\ i = IF Next_buf(i) = 0 THEN NumBuffers - 1 ELSE Next_buf(i) - 1
BY MultiboardAssumption DEF Buffer, Next_buf

(* The invariant holds before the first InstallISR.                        *)
LEMMA InitInv == Init => Inv
<1> SUFFICES ASSUME Init PROVE Inv
  OBVIOUS
<1>1. /\ int_queue_count \in [Board -> 0 .. QueueSize]
      /\ {next_buf, malloced} \subseteq [Board -> Buffer \cup {NoBuffer}]
      /\ used \in [Board -> SUBSET Buffer] /\ engine \in [Board -> Buffer]
      /\ local_buf \in [Board -> SUBSET Buffer]
  BY First, MultiboardAssumption DEF Init
<1>2. done \in BOOLEAN /\ isr \in BOOLEAN /\ pid \in BOOLEAN
      /\ start_failed \in BOOLEAN /\ more \in BOOLEAN
  BY DEF Init
<1>3. TypeOK
  BY <1>1, <1>2, First DEF Init, TypeOK
<1>4. IndexInRing /\ EntriesFound /\ CountedWereRead
  BY DEF Init, IndexInRing, EntriesFound, CountedWereRead, Reading
<1>5. IdKept /\ RemovalLasts /\ WakeupMeansEnd
  BY DEF Init, IdKept, RemovalLasts, WakeupMeansEnd, Installing,
         InstallReturned, RemoveReturned
<1> QED BY <1>3, <1>4, <1>5 DEF Inv

(* A buffer that fills keeps the invariant: entries are only added.        *)
LEMMA FillKeepsInv ==
  ASSUME Inv, NEW b \in Board, Fill(b)
  PROVE  Inv'
<1> USE DEF Inv, Fill, installVars, waiterVars
<1>1. int_queue_count' \in [Board -> 0 .. QueueSize]
      /\ \A c \in Board : int_queue_count[c] <= int_queue_count'[c]
  BY MultiboardAssumption DEF TypeOK, Interrupt
<1>2. used' \in [Board -> SUBSET Buffer] /\ engine' \in [Board -> Buffer]
  BY BeforeNext DEF TypeOK
<1>3. TypeOK'
  BY <1>1, <1>2 DEF TypeOK
<1>4. IndexInRing' /\ IdKept' /\ RemovalLasts' /\ WakeupMeansEnd'
  BY DEF IndexInRing, IdKept, RemovalLasts, WakeupMeansEnd, Installing,
         InstallReturned, RemoveReturned
<1>5. EntriesFound'
  BY <1>1, MultiboardAssumption DEF EntriesFound, TypeOK, Reading
<1>6. CountedWereRead'
  BY DEF CountedWereRead, LastIsRead, LastRead, Reading
<1> QED BY <1>3, <1>4, <1>5, <1>6

(* A board that starts keeps the invariant.                                *)
LEMMA TriggerKeepsInv ==
  ASSUME Inv, NEW b \in Board, Trigger(b)
  PROVE  Inv'
<1> USE DEF Inv, Trigger, waiterVars
<1>1. TypeOK'
  <2>1. start_failed' \in BOOLEAN /\ running' \subseteq Board /\ triggers' \subseteq Board
    BY DEF TypeOK
  <2> QED BY <2>1 DEF TypeOK
<1>2. IndexInRing' /\ IdKept' /\ RemovalLasts' /\ WakeupMeansEnd'
  BY DEF IndexInRing, IdKept, RemovalLasts, WakeupMeansEnd, Installing,
         InstallReturned, RemoveReturned
<1>3. EntriesFound' /\ CountedWereRead'
  BY DEF EntriesFound, CountedWereRead, LastIsRead, LastRead, Reading
<1> QED BY <1>1, <1>2, <1>3

(* InstallISR keeps the invariant up to the thread it creates.             *)
LEMMA InstallKeepsInv ==
  ASSUME Inv, Install \/ InstallFails \/ InstallAllocated \/ InstallCreate
              \/ InstallStorePid
  PROVE  Inv'
<1> USE DEF Inv, Install, InstallFails, InstallAllocated, InstallCreate,
            InstallStorePid, InstallStep, boardVars, waiterVars
<1>1. TypeOK'
  <2>1. isr' \in BOOLEAN /\ pid' \in BOOLEAN /\ start_failed' \in BOOLEAN
    BY DEF TypeOK
  <2> QED BY <2>1 DEF TypeOK
<1>2. IdKept'
  BY DEF IdKept, InstallReturned, RemoveReturned, TypeOK
<1>3. RemovalLasts' /\ WakeupMeansEnd'
  BY DEF RemovalLasts, WakeupMeansEnd, Installing, InstallReturned, TypeOK
<1>4. IndexInRing' /\ EntriesFound' /\ CountedWereRead'
  BY DEF IndexInRing, EntriesFound, CountedWereRead, LastIsRead, LastRead, Reading
<1> QED BY <1>1, <1>2, <1>3, <1>4

(* Starting the boards keeps the invariant.                                *)
LEMMA StartKeepsInv ==
  ASSUME Inv, \/ InstallStartFails \/ InstallJoinTriggers
              \/ \E b \in Board : InstallStart(b)
  PROVE  Inv'
<1> USE DEF Inv, InstallStartFails, InstallJoinTriggers, InstallStart,
            InstallStep, boardVars, waiterVars
<1>1. TypeOK'
  <2>1. to_start' \subseteq Board /\ triggers' \subseteq Board
    BY DEF TypeOK
  <2>2. installer' \in {"starting", "errored", "joining", "installed"}
    OBVIOUS
  <2> QED BY <2>1, <2>2 DEF TypeOK
<1>2. IdKept'
  BY DEF IdKept, InstallReturned, RemoveReturned, TypeOK
<1>3. RemovalLasts' /\ WakeupMeansEnd'
  BY DEF RemovalLasts, WakeupMeansEnd, Installing, TypeOK
<1>4. IndexInRing' /\ EntriesFound' /\ CountedWereRead'
  BY DEF IndexInRing, EntriesFound, CountedWereRead, LastIsRead, LastRead, Reading
<1> QED BY <1>1, <1>2, <1>3, <1>4

(* The end of InstallISR keeps the invariant: once it has joined the       *)
(* thread nobody reads any more.                                           *)
LEMMA InstallEndKeepsInv ==
  ASSUME Inv, InstallWakeup \/ InstallJoin \/ InstallForgetPid
  PROVE  Inv'
<1> USE DEF Inv, InstallWakeup, InstallJoin, InstallForgetPid, InstallStep,
            boardVars, waiterVars
<1>1. TypeOK'
  <2>1. pid' \in BOOLEAN /\ remove_isr_flag' \subseteq Board
    BY DEF TypeOK
  <2> QED BY <2>1 DEF TypeOK
<1>2. IdKept'
  BY DEF IdKept, InstallReturned, RemoveReturned, TypeOK
<1>3. RemovalLasts' /\ WakeupMeansEnd'
  BY DEF RemovalLasts, WakeupMeansEnd, IdKept, Installing, InstallReturned,
         RemoveReturned, TypeOK
<1>4. IndexInRing' /\ EntriesFound' /\ CountedWereRead'
  BY DEF IndexInRing, EntriesFound, CountedWereRead, LastIsRead, LastRead, Reading
<1> QED BY <1>1, <1>2, <1>3, <1>4

(* RemoveISR keeps the invariant: done is set before any board is woken.   *)
LEMMA RemoveKeepsInv ==
  ASSUME Inv, Remove \/ RemoveGoesOn
  PROVE  Inv'
<1> USE DEF Inv, Remove, RemoveGoesOn, RemoveDone, RemoveWakeup, RemoveJoin,
            RemoveForgetPid, RemoveStep, boardVars, installVars, waiterVars
<1>1. TypeOK'
  <2>1. isr' \in BOOLEAN /\ pid' \in BOOLEAN /\ done' \in BOOLEAN
    BY DEF TypeOK
  <2> QED BY <2>1 DEF TypeOK, RemoveReturned
<1>2. IdKept'
  BY DEF IdKept, InstallReturned, RemoveReturned, TypeOK
<1>3. RemovalLasts'
  BY DEF RemovalLasts, IdKept, Installing, InstallReturned, RemoveReturned, TypeOK
<1>4. WakeupMeansEnd'
  BY DEF RemovalLasts, WakeupMeansEnd, Installing, InstallReturned, TypeOK
<1>5. IndexInRing' /\ EntriesFound' /\ CountedWereRead'
  BY DEF IndexInRing, EntriesFound, CountedWereRead, LastIsRead, LastRead, Reading
<1> QED BY <1>1, <1>2, <1>3, <1>4, <1>5

(* The thread's way into select and out of it keeps the invariant: without *)
(* a wakeup a readable board has an entry, and with one the thread ends.   *)
LEMMA WaitKeepsInv ==
  ASSUME Inv, Start \/ StartFails \/ Top \/ SelectReturns \/ SelectFails
  PROVE  Inv'
<1> USE DEF Inv, Start, StartFails, Top, SelectReturns, SelectFails, WaiterStep,
            boardVars, installVars
<1>1. TypeOK'
  BY DEF TypeOK, waiterVars
<1>2. IdKept' /\ RemovalLasts'
  BY DEF IdKept, RemovalLasts, Installing, InstallReturned, RemoveReturned
<1>3. IndexInRing' /\ WakeupMeansEnd'
  BY DEF IndexInRing, WakeupMeansEnd, Installing
<1>4. EntriesFound'
  BY DEF EntriesFound, WakeupMeansEnd, Reading, Readable, TypeOK, waiterVars
<1>5. CountedWereRead'
  BY DEF CountedWereRead, LastIsRead, LastRead, Reading, waiterVars
<1> QED BY <1>1, <1>2, <1>3, <1>4, <1>5

(* The test behind select and the choice of a board keep the invariant.    *)
LEMMA ScanKeepsInv ==
  ASSUME Inv, Woken \/ (\E b \in Board : Scan(b)) \/ ScanEnds
  PROVE  Inv'
<1> USE DEF Inv, Woken, Scan, ScanEnds, WaiterStep, boardVars, installVars
<1>1. TypeOK'
  <2>1. done' \in BOOLEAN /\ isr' \in BOOLEAN
    BY DEF TypeOK
  <2> QED BY <2>1 DEF TypeOK, waiterVars
<1>2. IdKept' /\ RemovalLasts'
  BY DEF IdKept, RemovalLasts, Installing, InstallReturned, RemoveReturned, TypeOK
<1>3. IndexInRing' /\ WakeupMeansEnd'
  BY DEF IndexInRing, WakeupMeansEnd, Installing, TypeOK
<1>4. EntriesFound'
  BY DEF EntriesFound, Reading, TypeOK, waiterVars
<1>5. CountedWereRead'
  BY DEF CountedWereRead, LastIsRead, LastRead, Reading, TypeOK, waiterVars
<1> QED BY <1>1, <1>2, <1>3, <1>4, <1>5

(* A fetch keeps the invariant: with an entry it tells how many are left.  *)
LEMMA FetchKeepsInv ==
  ASSUME Inv, Fetch \/ FetchFails
  PROVE  Inv'
<1> USE DEF Inv, Fetch, FetchFails, WaiterStep, installVars, waiterVars
<1>1. TypeOK'
  <2>1. int_queue_count' \in [Board -> 0 .. QueueSize]
    BY MultiboardAssumption DEF TypeOK
  <2>2. CASE Fetch
    <3> DEFINE several == int_queue_count[board] > 1
    <3>1. more' \in BOOLEAN \/ more' = several
      BY <2>2
    <3>2. several \in BOOLEAN
      OBVIOUS
    <3> HIDE DEF several
    <3>3. more' \in BOOLEAN
      BY <3>1, <3>2
    <3> QED BY <2>1, <2>2, <3>3 DEF TypeOK
  <2>3. CASE FetchFails
    BY <2>1, <2>3 DEF TypeOK
  <2> QED BY <2>2, <2>3
<1>2. IdKept' /\ RemovalLasts' /\ IndexInRing' /\ WakeupMeansEnd'
  BY DEF IdKept, RemovalLasts, IndexInRing, WakeupMeansEnd, Installing,
         InstallReturned, RemoveReturned
<1>3. EntriesFound'
  <2>1. CASE FetchFails
    BY <2>1 DEF EntriesFound, Reading
  <2>2. CASE Fetch /\ installer # "joining_errored"
    <3>1. /\ int_queue_count[board] > 0
          /\ board \notin readable
          /\ \A c \in readable : int_queue_count[c] > 0
      BY <2>2 DEF EntriesFound, Reading
    <3>2. /\ waiter' = "check" /\ (more' => int_queue_count[board] > 1)
          /\ int_queue_count'
               = [int_queue_count EXCEPT ![board] = int_queue_count[board] - 1]
      BY <2>2, <3>1
    <3> QED BY <2>2, <3>1, <3>2, MultiboardAssumption
            DEF EntriesFound, Reading, TypeOK
  <2> QED BY <2>1, <2>2 DEF EntriesFound
<1>4. CountedWereRead'
  BY DEF CountedWereRead, EntriesFound, LastIsRead, LastRead, Reading
<1> QED BY <1>1, <1>2, <1>3, <1>4

(* The checks and the copying of a buffer keep the invariant.              *)
LEMMA CopyKeepsInv ==
  ASSUME Inv, CheckUsed \/ CheckForError \/ CopyOut \/ ResetBuffer \/ ReadFails
  PROVE  Inv'
<1> USE DEF Inv, CheckUsed, CheckForError, CopyOut, ResetBuffer, ReadFails,
            WaiterStep, boardVars, installVars, waiterVars
<1>1. TypeOK'
  <2>1. used' \in [Board -> SUBSET Buffer] /\ local_buf' \in [Board -> SUBSET Buffer]
    BY DEF TypeOK, IndexInRing
  <2> QED BY <2>1 DEF TypeOK
<1>2. IdKept' /\ RemovalLasts' /\ WakeupMeansEnd'
  BY DEF IdKept, RemovalLasts, WakeupMeansEnd, Installing, InstallReturned,
         RemoveReturned
<1>3. IndexInRing'
  BY DEF IndexInRing, TypeOK
<1>4. EntriesFound'
  BY DEF EntriesFound, Reading
<1>5. CountedWereRead'
  BY DEF CountedWereRead, LastIsRead, LastRead, Reading, TypeOK
<1> QED BY <1>1, <1>2, <1>3, <1>4, <1>5

(* The advance keeps the invariant: the buffer just copied is now the last *)
(* one before the next.                                                    *)
LEMMA ClearKeepsInv ==
  ASSUME Inv, ClearInterrupt
  PROVE  Inv'
<1> USE DEF Inv, ClearInterrupt, WaiterStep, boardVars, installVars
<1> DEFINE old == next_buf[board]
<1>1. old \in Buffer /\ Next_buf(old) \in Buffer
      /\ old = IF Next_buf(old) = 0 THEN NumBuffers - 1 ELSE Next_buf(old) - 1
  BY BeforeNext DEF IndexInRing
<1>2. TypeOK'
  BY <1>1 DEF TypeOK
<1>3. IdKept' /\ RemovalLasts' /\ WakeupMeansEnd' /\ IndexInRing'
  BY DEF IdKept, RemovalLasts, WakeupMeansEnd, IndexInRing, Installing,
         InstallReturned, RemoveReturned
<1>4. EntriesFound'
  BY DEF EntriesFound, Reading
<1>5. CountedWereRead'
  BY <1>1 DEF CountedWereRead, LastIsRead, LastRead, Reading, TypeOK
<1> QED BY <1>2, <1>3, <1>4, <1>5

(* The acknowledgement and the next turn keep the invariant.               *)
LEMMA AckKeepsInv ==
  ASSUME Inv, Ack \/ Again
  PROVE  Inv'
<1> USE DEF Inv, Ack, Again, WaiterStep, boardVars, installVars
<1>1. int_queue_count' \in [Board -> 0 .. QueueSize]
      /\ \A c \in Board : int_queue_count[c] <= int_queue_count'[c]
  BY MultiboardAssumption DEF TypeOK
<1>2. TypeOK'
  <2>1. CASE Ack
    BY <1>1, <2>1 DEF TypeOK, waiterVars
  <2>2. CASE Again
    <3>1. more' \in BOOLEAN
      BY <2>2
    <3> QED BY <2>2, <3>1, First DEF TypeOK
  <2> QED BY <2>1, <2>2
<1>3. IdKept' /\ RemovalLasts' /\ WakeupMeansEnd' /\ IndexInRing'
  BY DEF IdKept, RemovalLasts, WakeupMeansEnd, IndexInRing, Installing,
         InstallReturned, RemoveReturned
<1>4. EntriesFound'
  BY <1>1, MultiboardAssumption DEF EntriesFound, Reading, TypeOK, waiterVars
<1>5. CountedWereRead'
  BY DEF CountedWereRead, LastIsRead, LastRead, Reading, waiterVars
<1> QED BY <1>2, <1>3, <1>4, <1>5

(* The calls of the ISR keep the invariant, also when it removes itself.   *)
LEMMA CallKeepsInv ==
  ASSUME Inv, Failing \/ Report \/ ErrorCallReturns \/ Deliver
              \/ DataCallReturns \/ IsrRemovesItself
  PROVE  Inv'
<1> USE DEF Inv, Failing, Report, ErrorCallReturns, Deliver, DataCallReturns,
            IsrRemovesItself, WaiterStep, boardVars, installVars, waiterVars
<1>1. TypeOK'
  <2>1. done' \in BOOLEAN /\ isr' \in BOOLEAN /\ more' \in BOOLEAN
    BY DEF TypeOK
  <2>2. local_buf' \in [Board -> SUBSET Buffer] /\ board' \in Board
        /\ irqs' \subseteq Board /\ readable' \subseteq Board
        /\ remove_isr_flag' \subseteq Board
    BY First DEF TypeOK
  <2> QED BY <2>1, <2>2 DEF TypeOK
<1>2. IdKept' /\ RemovalLasts'
  BY DEF IdKept, RemovalLasts, Installing, InstallReturned, RemoveReturned, TypeOK
<1>3. WakeupMeansEnd' /\ IndexInRing'
  BY DEF WakeupMeansEnd, IndexInRing, Installing, TypeOK
<1>4. EntriesFound' /\ CountedWereRead'
  BY DEF EntriesFound, CountedWereRead, LastIsRead, LastRead, Reading
<1> QED BY <1>1, <1>2, <1>3, <1>4
-----------------------------------------------------------------------------
(* Every step keeps the invariant.                                         *)
LEMMA StepKeepsInv == Inv /\ [Next]_vars => Inv'
<1> SUFFICES ASSUME Inv, [Next]_vars PROVE Inv'
  OBVIOUS
<1>1. ASSUME NEW b \in Board, Fill(b) \/ Trigger(b) PROVE Inv'
  BY <1>1, FillKeepsInv, TriggerKeepsInv
<1>2. CASE Install \/ InstallFails \/ InstallStartFails \/ InstallGoesOn
  BY <1>2, InstallKeepsInv, StartKeepsInv, InstallEndKeepsInv DEF InstallGoesOn
<1>3. CASE Remove \/ RemoveGoesOn
  BY <1>3, RemoveKeepsInv
<1>4. CASE WaiterNext \/ SelectFails \/ IsrRemovesItself
  BY <1>4, WaitKeepsInv, ScanKeepsInv, FetchKeepsInv, CopyKeepsInv,
     ClearKeepsInv, AckKeepsInv, CallKeepsInv DEF WaiterNext
<1>5. CASE UNCHANGED vars
  <2> USE <1>5 DEF Inv, vars, boardVars, installVars, waiterVars
  <2>1. TypeOK'
    BY DEF TypeOK
  <2>2. IdKept' /\ RemovalLasts' /\ WakeupMeansEnd' /\ IndexInRing'
    BY DEF IdKept, RemovalLasts, WakeupMeansEnd, IndexInRing, Installing,
           InstallReturned, RemoveReturned
  <2>3. EntriesFound' /\ CountedWereRead'
    BY DEF EntriesFound, CountedWereRead, LastIsRead, LastRead, Reading
  <2> QED BY <2>1, <2>2, <2>3
<1> QED BY <1>1, <1>2, <1>3, <1>4, <1>5 DEF Next

(* The invariant holds in every behaviour.                                 *)
LEMMA AlwaysInv == Spec => []Inv
BY InitInv, StepKeepsInv, PTL DEF Spec

(* Every variable keeps its type; in particular the local buffers and the  *)
(* buffers of the board are only indexed inside the ring, though next_buf  *)
(* may start as anything.                                                  *)
THEOREM TypeCorrect == Spec => []TypeOK
<1>1. Inv => TypeOK
  BY DEF Inv
<1> QED BY <1>1, AlwaysInv, PTL

(* When RemoveISR has returned with success no thread is left, with block  *)
(* and without, also if InstallISR is called again later.                  *)
THEOREM NothingLeftAfterRemove == Spec => []GoneAfterRemove
<1>1. Inv => GoneAfterRemove
  BY DEF Inv, RemovalLasts, GoneAfterRemove
<1> QED BY <1>1, AlwaysInv, PTL

(* The ISR gets from every board samples read since its last call: a board *)
(* that is counted was read, not only woken.                               *)
THEOREM ReadoutsAreFresh == Spec => []FreshFromAll
<1>1. Inv => FreshFromAll
  BY DEF Inv, CountedWereRead, FreshFromAll, LastIsRead
<1> QED BY <1>1, AlwaysInv, PTL
-----------------------------------------------------------------------------
(* The ring of buffers of a board whose index malloc has left at 0: what   *)
(* is used runs from the buffer due to the engine.                         *)
InStep(u, i, j) == IF u = {} THEN i = j ELSE u = Window(i, j)

\* Between the reset of a buffer and the advance the one behind it is due.
Due(b) == IF board = b /\ waiter = "clear" THEN Next_buf(next_buf[b])
                                           ELSE next_buf[b]

\* A thread that has not yet looked at done again, or that will not end.
Active == \/ ~done
          \/ Reading
          \/ waiter \in {"select", "select_failed", "woken", "scan", "not_full",
                         "deliver", "data_call", "data_call_refused"}

\* Those boards; their index is in the ring.
Zeroed == {b \in Board : malloced[b] = 0}
IndexOfZeroed == \A b \in Zeroed : next_buf[b] \in Buffer

RingInStep ==
  Active =>
    \A b \in Zeroed : \/ board = b /\ waiter = "failing"
                      \/ InStep(used[b], Due(b), engine[b])

BufferInHand ==
  waiter \in {"errors", "copy", "reset"} => next_buf[board] \in used[board]

RingInv == IndexOfZeroed /\ BufferInHand /\ RingInStep

(* The engine goes on in step when the buffer it meets is not used.        *)
LEMMA FillInStep ==
  ASSUME NEW i \in Buffer, NEW j \in Buffer, NEW u \in SUBSET Buffer,
         InStep(u, i, j), j \notin u
  PROVE  InStep(u \cup {j}, i, Next_buf(j))
<1> USE MultiboardAssumption DEF Buffer, Next_buf, Window, InStep
<1>1. CASE u = {}
  <2>1. ASSUME NEW k \in Buffer PROVE k = j <=> k \in Window(i, Next_buf(j))
    BY <1>1
  <2> QED BY <1>1, <2>1
<1>2. CASE u # {}
  <2>1. ASSUME NEW k \in Buffer
        PROVE  k \in u \cup {j} <=> k \in Window(i, Next_buf(j))
    BY <1>2
  <2>2. Window(i, Next_buf(j)) \subseteq Buffer
    BY DEF Window
  <2> HIDE DEF Buffer, Next_buf, Window
  <2>3. u \cup {j} = Window(i, Next_buf(j))
    BY <2>1, <2>2
  <2> QED BY <2>3
<1> QED BY <1>1, <1>2

(* Resetting the buffer that is due leaves the one behind it due.          *)
LEMMA ResetInStep ==
  ASSUME NEW i \in Buffer, NEW j \in Buffer, NEW u \in SUBSET Buffer,
         InStep(u, i, j), i \in u
  PROVE  InStep(u \ {i}, Next_buf(i), j)
<1> USE MultiboardAssumption DEF Buffer, Next_buf, Window, InStep
<1>1. u = Window(i, j)
  OBVIOUS
<1>2. CASE Next_buf(i) = j
  <2>1. ASSUME NEW k \in Buffer PROVE k \in u <=> k = i
    BY <1>1, <1>2
  <2> QED BY <1>2, <2>1
<1>3. CASE Next_buf(i) # j
  <2>1. ASSUME NEW k \in Buffer
        PROVE  k \in u \ {i} <=> k \in Window(Next_buf(i), j)
    BY <1>1, <1>3
  <2>2. Next_buf(i) \in u \ {i}
    BY <1>1, <1>3
  <2> QED BY <2>1, <2>2
<1> QED BY <1>2, <1>3

(* If the buffer due is not used, none is.                                 *)
LEMMA NotDueNoneUsed ==
  ASSUME NEW i \in Buffer, NEW j \in Buffer, NEW u, InStep(u, i, j), i \notin u
  PROVE  u = {}
BY MultiboardAssumption DEF Buffer, Window, InStep

(* The ring starts in step, with nothing used.                             *)
LEMMA InitRing == Init => RingInv
<1> SUFFICES ASSUME Init PROVE RingInv
  OBVIOUS
<1>1. \A b \in Zeroed : next_buf[b] = 0 /\ engine[b] = 0
  BY DEF Init, Zeroed
<1>2. BufferInHand /\ RingInStep
  BY <1>1 DEF Init, BufferInHand, RingInStep, Active, InStep, Due, Reading, Zeroed
<1>3. IndexOfZeroed
  BY <1>1, First DEF IndexOfZeroed
<1> QED BY <1>2, <1>3 DEF RingInv

(* A buffer that fills keeps the ring in step.                             *)
LEMMA FillKeepsRing ==
  ASSUME Inv, RingInv, NEW b \in Board, Fill(b)
  PROVE  RingInv'
<1> USE DEF Fill, installVars, waiterVars
<1>1. IndexOfZeroed' /\ BufferInHand' /\ Zeroed' = Zeroed
  BY DEF Inv, TypeOK, RingInv, BufferInHand, IndexOfZeroed, Zeroed
<1>2. ASSUME Active', NEW c \in Zeroed, ~(board' = c /\ waiter' = "failing")
      PROVE  InStep(used'[c], Due(c)', engine'[c])
  <2>1. Due(c)' = Due(c) /\ InStep(used[c], Due(c), engine[c])
    BY <1>2 DEF RingInv, RingInStep, Active, Reading, Due
  <2>2. CASE used' = used /\ engine' = engine
    BY <2>1, <2>2
  <2>3. CASE engine[b] \notin used[b]
    <3>1. Due(c) \in Buffer /\ engine[c] \in Buffer /\ used[c] \in SUBSET Buffer
      <4>1. c \in Board /\ next_buf[c] \in Buffer
        BY DEF RingInv, IndexOfZeroed, Zeroed
      <4> QED BY <4>1, BeforeNext DEF Inv, TypeOK, Due
    <3>2. CASE c = b
      <4>1. used'[c] = used[c] \cup {engine[c]} /\ engine'[c] = Next_buf(engine[c])
        BY <2>3, <3>2 DEF Inv, TypeOK
      <4> QED BY <2>1, <2>3, <3>1, <3>2, <4>1, FillInStep
    <3>3. CASE c # b
      BY <2>1, <2>3, <3>3 DEF Inv, TypeOK, Zeroed
    <3> QED BY <3>2, <3>3
  <2> QED BY <2>2, <2>3
<1>3. RingInStep'
  BY <1>1, <1>2 DEF RingInStep
<1> QED BY <1>1, <1>3 DEF RingInv

(* Installing, starting and removing leave the ring alone.                 *)
LEMMA OthersKeepRing ==
  ASSUME Inv, RingInv,
         \/ \E b \in Board : Trigger(b)
         \/ Install \/ InstallFails \/ InstallStartFails \/ InstallGoesOn
         \/ Remove \/ RemoveGoesOn \/ UNCHANGED vars
  PROVE  RingInv'
<1> USE DEF Trigger, Install, InstallFails, InstallStartFails,
            InstallGoesOn, InstallAllocated, InstallCreate, InstallStorePid,
            InstallStart, InstallJoinTriggers, InstallWakeup, InstallJoin,
            InstallForgetPid, InstallStep, Remove, RemoveGoesOn, RemoveDone,
            RemoveWakeup, RemoveJoin, RemoveForgetPid, RemoveStep, vars,
            boardVars, installVars, waiterVars
<1>1. UNCHANGED <<used, engine, next_buf, board, malloced>>
  OBVIOUS
<1>2. done => done'
  BY DEF Inv, TypeOK
<1>3. \/ waiter' = waiter
      \/ waiter \in {"none", "exited", "joined"} /\ waiter' \in {"start", "joined"}
  BY DEF Inv, IdKept
<1> QED BY <1>1, <1>2, <1>3
        DEF RingInv, IndexOfZeroed, BufferInHand, RingInStep, Zeroed, Active, Due, Reading

(* What a step of the thread that leaves ring, engine and index alone has  *)
(* to obey for the ring to stay in step.                                   *)
LEMMA SameRing ==
  ASSUME RingInv, UNCHANGED <<used, engine, next_buf, malloced>>, BufferInHand',
         Active' => Active /\ waiter # "failing", waiter' # "clear",
         waiter = "clear" => waiter' = "failing" /\ board' = board
  PROVE  RingInv'
BY DEF RingInv, IndexOfZeroed, RingInStep, Zeroed, Due

(* The thread keeps the ring in step outside its reading of a board.       *)
LEMMA WaitKeepsRing ==
  ASSUME Inv, RingInv,
         \/ Start \/ StartFails \/ Top \/ SelectReturns \/ SelectFails \/ Woken
         \/ (\E b \in Board : Scan(b)) \/ ScanEnds
  PROVE  RingInv'
<1> USE DEF Start, StartFails, Top, SelectReturns, SelectFails, Woken, Scan,
            ScanEnds, WaiterStep, boardVars, waiterVars
<1>1. UNCHANGED <<used, engine, next_buf, malloced>> /\ waiter' # "clear" /\ waiter # "clear"
  OBVIOUS
<1>2. BufferInHand'
  BY DEF BufferInHand
<1>3. Active' => Active /\ waiter # "failing"
  BY DEF Active, Reading, Inv, TypeOK
<1> QED BY <1>1, <1>2, <1>3, SameRing

(* So do its calls of the ISR and its end.                                 *)
LEMMA CallKeepsRing ==
  ASSUME Inv, RingInv,
         \/ Failing \/ Report \/ ErrorCallReturns \/ Deliver \/ DataCallReturns
         \/ IsrRemovesItself
  PROVE  RingInv'
<1> USE DEF Failing, Report, ErrorCallReturns, Deliver, DataCallReturns,
            IsrRemovesItself, WaiterStep, boardVars, waiterVars
<1>1. UNCHANGED <<used, engine, next_buf, malloced>> /\ waiter' # "clear" /\ waiter # "clear"
  OBVIOUS
<1>2. BufferInHand'
  BY DEF BufferInHand
<1>3. Active' => Active /\ waiter # "failing"
  BY DEF Active, Reading, Inv, TypeOK
<1> QED BY <1>1, <1>2, <1>3, SameRing

(* And its fetches, checks and acknowledgement.                            *)
LEMMA CheckKeepsRing ==
  ASSUME Inv, RingInv,
         \/ Fetch \/ FetchFails \/ CheckUsed \/ CheckForError \/ CopyOut
         \/ ReadFails \/ Ack \/ Again
  PROVE  RingInv'
<1> USE DEF Fetch, FetchFails, CheckUsed, CheckForError, CopyOut, ReadFails,
            Ack, Again, WaiterStep, boardVars, waiterVars
<1>1. UNCHANGED <<used, engine, next_buf, malloced>> /\ waiter' # "clear"
  OBVIOUS
<1>2. waiter = "clear" => waiter' = "failing" /\ board' = board
  OBVIOUS
<1>3. BufferInHand'
  BY DEF BufferInHand, RingInv
<1>4. Active' => Active /\ waiter # "failing"
  BY DEF Active, Reading, Inv, TypeOK
<1> QED BY <1>1, <1>2, <1>3, <1>4, SameRing

(* Resetting the buffer keeps the ring in step: the one behind it is due.  *)
LEMMA ResetKeepsRing ==
  ASSUME Inv, RingInv, ResetBuffer
  PROVE  RingInv'
<1> USE DEF ResetBuffer, WaiterStep, waiterVars
<1>1. IndexOfZeroed' /\ BufferInHand' /\ Zeroed' = Zeroed
  BY DEF RingInv, BufferInHand, IndexOfZeroed, Zeroed
<1>2. ASSUME NEW c \in Zeroed
      PROVE  InStep(used'[c], Due(c)', engine'[c])
  <2>1. /\ InStep(used[c], next_buf[c], engine[c])
        /\ engine' = engine /\ board' = board
    BY DEF RingInv, RingInStep, Active, Reading, Due
  <2>2. CASE c = board
    <3>1. /\ next_buf[c] \in used[c] /\ used[c] \in SUBSET Buffer
          /\ next_buf[c] \in Buffer /\ engine[c] \in Buffer
          /\ used'[c] = used[c] \ {next_buf[c]}
          /\ Due(c)' = Next_buf(next_buf[c])
      BY <2>2 DEF Inv, TypeOK, RingInv, BufferInHand, IndexOfZeroed, Zeroed, Due
    <3> QED BY <2>1, <3>1, ResetInStep
  <2>3. CASE c # board
    <3>1. used'[c] = used[c] /\ Due(c)' = next_buf[c]
      BY <2>3 DEF Inv, TypeOK, Due, Zeroed
    <3> QED BY <2>1, <3>1
  <2> QED BY <2>2, <2>3
<1> QED BY <1>1, <1>2 DEF RingInv, RingInStep

(* Advancing to the buffer that is due keeps the ring in step.             *)
LEMMA ClearKeepsRing ==
  ASSUME Inv, RingInv, ClearInterrupt
  PROVE  RingInv'
<1> USE DEF ClearInterrupt, WaiterStep, boardVars
<1>1. IndexOfZeroed' /\ BufferInHand' /\ Zeroed' = Zeroed
  BY BeforeNext DEF Inv, TypeOK, RingInv, BufferInHand, IndexOfZeroed, Zeroed
<1>2. ASSUME NEW c \in Zeroed
      PROVE  InStep(used'[c], Due(c)', engine'[c])
  <2>1. /\ InStep(used[c], Due(c), engine[c])
        /\ engine' = engine /\ used' = used
    BY DEF RingInv, RingInStep, Active, Reading
  <2>2. Due(c)' = Due(c)
    BY DEF Due, Inv, TypeOK, RingInv, Zeroed
  <2> QED BY <2>1, <2>2
<1> QED BY <1>1, <1>2 DEF RingInv, RingInStep

(* Every step keeps the ring in step.                                      *)
LEMMA StepKeepsRing == Inv /\ RingInv /\ [Next]_vars => RingInv'
<1> SUFFICES ASSUME Inv, RingInv, [Next]_vars PROVE RingInv'
  OBVIOUS
<1>1. ASSUME NEW b \in Board, Fill(b) PROVE RingInv'
  BY <1>1, FillKeepsRing
<1>2. CASE WaiterNext \/ SelectFails \/ IsrRemovesItself
  BY <1>2, WaitKeepsRing, CallKeepsRing, CheckKeepsRing, ResetKeepsRing,
     ClearKeepsRing DEF WaiterNext
<1> QED BY <1>1, <1>2, OthersKeepRing DEF Next

(* The thread's index and the engine's own never drift apart on a board    *)
(* whose index malloc has left at 0, whatever the size of the ring and     *)
(* however interrupts merge, repeat and are dropped, and whatever malloc   *)
(* has left for the other boards.                                          *)
THEOREM BuffersReadInOrder == Spec => []ReadsInOrder
<1>1. RingInv => ReadsInOrder
  BY DEF RingInv, RingInStep, Zeroed, Active, ReadsInOrder, InStep, Due
<1> QED BY <1>1, AlwaysInv, InitRing, StepKeepsRing, PTL DEF Spec

(* Acquisition ends with "buffer not full" only if the board has no full   *)
(* buffer at all, or because of what malloc has left in its index.         *)
THEOREM NotFullIsTrue == Spec => NotFullMeansNoneFull
<1>1. Inv /\ RingInv /\ [Next]_vars =>
        [CheckUsed /\ waiter' = "not_full" => used[board] = {} \/ malloced[board] # 0]_vars
  <2> SUFFICES ASSUME Inv, RingInv, CheckUsed, waiter' = "not_full", malloced[board] = 0
               PROVE  used[board] = {}
    OBVIOUS
  <2>1. /\ InStep(used[board], next_buf[board], engine[board])
        /\ next_buf[board] \in Buffer /\ engine[board] \in Buffer
        /\ next_buf[board] \notin used[board]
    BY DEF CheckUsed, WaiterStep, Inv, TypeOK, RingInv, RingInStep, IndexOfZeroed, Zeroed,
           Active, Reading, Due
  <2> QED BY <2>1, NotDueNoneUsed
<1> QED BY <1>1, AlwaysInv, InitRing, StepKeepsRing, PTL
        DEF Spec, NotFullMeansNoneFull
=============================================================================
