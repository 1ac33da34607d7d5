----------------------------- MODULE OsIsrProofs -----------------------------
(***************************************************************************)
(* Proofs about the library's interrupt thread, for every queue size, any  *)
(* number of removals and with every fault allowed.                        *)
(***************************************************************************)
EXTENDS OsIsr, TLAPS

(* Where the application is tells whether the ISR is set and, at the two   *)
(* ends of a thread's life, that there is no thread.                       *)
ThreadLife ==
  /\ app = "creating" => isr /\ waiter = "none"
  /\ app \in {"waking", "joining", "joined_no_thread"} => ~isr
  /\ NoCallAfterRemove

(* Until a wakeup is sent, the thread goes to fetch only what is there.    *)
FetchIsCovered ==
  ~remove_isr_flag =>
    /\ waiter \in {"woken", "fetch"} => int_queue_count > 0
    /\ waiter \in {"fetched", "calling"} /\ (inner \/ info # "failed")
         => remaining <= int_queue_count
    /\ waiter = "calling" => inner \/ info # "failed"
    /\ waiter = "fetched" => info # "nothing"

(* A thread that can still drop an entry has not dropped one for the       *)
(* removal under way.                                                      *)
DropsCounted ==
  /\ dropped <= removals
  /\ ~isr /\ waiter \in {"fetch", "fetched", "calling"} => dropped < removals

Inv == TypeOK /\ ThreadLife /\ FetchIsCovered /\ DropsCounted

(* The invariant holds before the first InstallISR.                        *)
LEMMA InitInv == Init => Inv
<1> SUFFICES ASSUME Init PROVE Inv
  OBVIOUS
<1>1. int_queue_count \in 0 .. QueueSize /\ remaining \in 0 .. QueueSize
      /\ removals \in 0 .. MaxRemovals
  BY OsAssumption DEF Init
<1>2. TypeOK
  BY <1>1 DEF Init, TypeOK
<1>3. ThreadLife /\ FetchIsCovered /\ DropsCounted
  BY DEF Init, ThreadLife, NoCallAfterRemove, FetchIsCovered, DropsCounted
<1> QED BY <1>2, <1>3 DEF Inv

(* A new interrupt in the driver's queue keeps the invariant.              *)
LEMMA ArriveKeepsInv ==
  ASSUME Inv, Arrive
  PROVE  Inv'
BY OsAssumption
   DEF Arrive, Inv, TypeOK, ThreadLife, NoCallAfterRemove, FetchIsCovered,
       DropsCounted, waiterVars

(* InstallISR keeps the invariant: with no ISR there is no thread either.  *)
LEMMA InstallKeepsInv ==
  ASSUME Inv, Install \/ CreateThread \/ CreateFails
  PROVE  Inv'
<1> USE OsAssumption DEF driverVars, waiterVars
<1>1. TypeOK'
  BY DEF Inv, TypeOK, Install, CreateThread, CreateFails
<1>2. ThreadLife'
  BY DEF Inv, TypeOK, ThreadLife, NoCallAfterRemove, Install, CreateThread,
         CreateFails
<1>3. FetchIsCovered' /\ DropsCounted'
  BY DEF Inv, TypeOK, ThreadLife, FetchIsCovered, DropsCounted, Install,
         CreateThread, CreateFails
<1> QED BY <1>1, <1>2, <1>3 DEF Inv

(* RemoveISR keeps the invariant: it counts itself before the thread can   *)
(* drop an entry on its account.                                           *)
LEMMA RemoveKeepsInv ==
  ASSUME Inv, RemoveClear \/ RemoveWakeup \/ RemoveJoin
  PROVE  Inv'
<1> USE OsAssumption DEF driverVars, waiterVars
<1>1. TypeOK'
  <2>1. CASE RemoveClear
    <3>1. removals' \in 0 .. MaxRemovals
      BY <2>1 DEF Inv, TypeOK, RemoveClear
    <3>2. isr' \in BOOLEAN /\ remove_isr_flag' \in BOOLEAN /\ inner' \in BOOLEAN
      BY <2>1 DEF Inv, TypeOK, RemoveClear
    <3> QED BY <2>1, <3>1, <3>2 DEF Inv, TypeOK, RemoveClear
  <2>2. CASE RemoveWakeup
    BY <2>2 DEF Inv, TypeOK, RemoveWakeup
  <2>3. CASE RemoveJoin
    BY <2>3 DEF Inv, TypeOK, RemoveJoin
  <2> QED BY <2>1, <2>2, <2>3
<1>2. ThreadLife'
  BY DEF Inv, TypeOK, ThreadLife, NoCallAfterRemove, RemoveClear, RemoveWakeup,
         RemoveJoin
<1>3. FetchIsCovered'
  BY DEF Inv, TypeOK, FetchIsCovered, RemoveClear, RemoveWakeup, RemoveJoin
<1>4. DropsCounted'
  BY DEF Inv, TypeOK, DropsCounted, RemoveClear, RemoveWakeup, RemoveJoin
<1> QED BY <1>1, <1>2, <1>3, <1>4 DEF Inv

(* Waking from select keeps the invariant: a readable device has a wakeup  *)
(* or an entry.                                                            *)
LEMMA SelectKeepsInv ==
  ASSUME Inv, SelectReturns \/ SelectInterrupted \/ Woken \/ Signalled
  PROVE  Inv'
BY OsAssumption
   DEF Inv, TypeOK, ThreadLife, NoCallAfterRemove, FetchIsCovered, DropsCounted,
       SelectReturns, SelectInterrupted, Woken, Signalled, WaiterStep, Readable

(* A fetch keeps the invariant, whatever it brings.                        *)
LEMMA FetchKeepsInv ==
  ASSUME Inv, Fetch
  PROVE  Inv'
<1> USE OsAssumption
        DEF Fetch, FetchEntry, FetchNothing, FetchFault, WaiterStep
<1>1. TypeOK'
  BY DEF Inv, TypeOK
<1>2. ThreadLife'
  BY DEF Inv, TypeOK, ThreadLife, NoCallAfterRemove
<1>3. FetchIsCovered'
  BY DEF Inv, TypeOK, FetchIsCovered
<1>4. DropsCounted'
  BY DEF Inv, TypeOK, DropsCounted
<1> QED BY <1>1, <1>2, <1>3, <1>4 DEF Inv

(* The call of the ISR, its return and the end of the thread keep the      *)
(* invariant: a dropped entry is the last that the thread fetches.         *)
LEMMA CallKeepsInv ==
  ASSUME Inv, FetchFailed \/ CallOrQuit \/ IsrReturns \/ LastCallReturns
  PROVE  Inv'
<1> USE OsAssumption
        DEF FetchFailed, CallOrQuit, IsrReturns, LastCallReturns, WaiterStep
<1>1. TypeOK'
  <2>1. CASE FetchFailed \/ LastCallReturns
    BY <2>1 DEF Inv, TypeOK
  <2>2. CASE CallOrQuit
    BY <2>2 DEF Inv, TypeOK
  <2>3. CASE IsrReturns
    BY <2>3 DEF Inv, TypeOK
  <2> QED BY <2>1, <2>2, <2>3
<1>2. ThreadLife'
  BY DEF Inv, TypeOK, ThreadLife, NoCallAfterRemove
<1>3. FetchIsCovered'
  BY DEF Inv, TypeOK, FetchIsCovered
<1>4. DropsCounted'
  BY DEF Inv, TypeOK, DropsCounted
<1> QED BY <1>1, <1>2, <1>3, <1>4 DEF Inv

(* The invariant holds in every reachable state.                           *)
LEMMA Invariant == Spec => []Inv
<1>1. Inv /\ [Next]_vars => Inv'
  <2> SUFFICES ASSUME Inv, [Next]_vars
               PROVE  Inv'
    OBVIOUS
  <2>1. CASE Next
    BY <2>1, ArriveKeepsInv, InstallKeepsInv, RemoveKeepsInv, SelectKeepsInv,
       FetchKeepsInv, CallKeepsInv
       DEF Next, Application, Waiter
  <2>2. CASE UNCHANGED vars
    BY <2>2
       DEF vars, driverVars, waiterVars, Inv, TypeOK, ThreadLife,
           NoCallAfterRemove, FetchIsCovered, DropsCounted
  <2> QED BY <2>1, <2>2
<1> QED BY <1>1, InitInv, PTL DEF Spec

(* The queue length that the thread works from and the positions of the    *)
(* two threads keep to their values.                                       *)
THEOREM TypeCorrect == Spec => []TypeOK
<1>1. Inv => TypeOK
  BY DEF Inv
<1> QED BY <1>1, Invariant, PTL

(* When RemoveISR has returned no call of the ISR is going on or to come.  *)
THEOREM RemovedIsrIsNotCalled == Spec => []NoCallAfterRemove
<1>1. Inv => NoCallAfterRemove
  BY DEF Inv, ThreadLife
<1> QED BY <1>1, Invariant, PTL

(* Before the first wakeup every fetch that succeeds brings an interrupt.  *)
THEOREM FetchBringsEntry == Spec => []FetchFindsEntry
<1>1. Inv => FetchFindsEntry
  BY DEF Inv, TypeOK, FetchIsCovered, FetchFindsEntry
<1> QED BY <1>1, Invariant, PTL

(* A removal costs at most the one interrupt fetched and not delivered.    *)
THEOREM RemovalCostsAtMostOne == Spec => []RemovalDropsAtMostOne
<1>1. Inv => RemovalDropsAtMostOne
  BY DEF Inv, DropsCounted, RemovalDropsAtMostOne
<1> QED BY <1>1, Invariant, PTL
=============================================================================
