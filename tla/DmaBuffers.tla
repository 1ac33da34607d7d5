------------------------------- MODULE DmaBuffers -------------------------------
(***************************************************************************)
(* The DMA buffers of an open board, from opening to closing, on top of    *)
(* the loading of the driver: the list that the driver keeps without a     *)
(* lock (driver/rtd-dm35425.c), the library's functions that initialise    *)
(* and use the buffers (lib/dm35425_os.c), and opening and closing         *)
(* (lib/dm35425_board_access.c).                                           *)
(*                                                                         *)
(* One process, with several threads, that has one board open at a time;   *)
(* the buffers are those of one DMA channel.  An ioctl that changes the    *)
(* list is several steps.  What the buffers hold is left out.              *)
(***************************************************************************)
EXTENDS DriverLoad, Sequences

CONSTANTS
  Threads,        \* the threads of the process
  Initialisers,   \* those that call Dma_Initialize
  NumBuffers,     \* buffers of the channel
  Piece,          \* pieces of memory that can be had for DMA
  NoPiece

Buffer == 0 .. NumBuffers - 1

ASSUME BuffersAssumption ==
  /\ Initialisers \subseteq Threads
  /\ NumBuffers \in Nat \ {0}
  /\ NoPiece \notin Piece

VARIABLES
  file,       \* where the life of the process's file is
  on,         \* the board it is for
  list,       \* dma_descr_list of each board
  used,       \* the pieces that are allocated
  call,       \* for each thread where it is in a call, and the call's own variables
  ready,      \* the buffers that Dma_Initialize has completed since the opening
  address,    \* for each board the address that it has for each buffer
  valid,      \* the buffers of the board that its engine may fill
  running     \* whether the engine of the board's channel runs

dmaVars == <<file, on, list, used, call, ready, address, valid, running>>
vars == <<loadVars, dmaVars>>

Out == [at |-> "out", buffer |-> 0, piece |-> NoPiece]

Init ==
  /\ LoadInit
  /\ file = "none" /\ on = 0
  /\ list = [m \in Minors |-> <<>>]
  /\ used = {}
  /\ call = [t \in Threads |-> Out]
  /\ ready = {}
  /\ address = [m \in Minors |-> [b \in Buffer |-> NoPiece]]
  /\ valid = [m \in Minors |-> {}]
  /\ running = [m \in Minors |-> FALSE]

Matching(b) == {i \in DOMAIN list[on] : list[on][i].buffer = b}
-----------------------------------------------------------------------------
(* Opening.  The reference is taken under the lock, the descriptor is      *)
(* initialised outside of it.                                              *)

Open(m) ==
  /\ file = "none"
  /\ Node(m) \in held /\ loader \in {"nodes", "loaded"}
  /\ desc[m].reference_count = 0
  /\ desc' = [desc EXCEPT ![m].reference_count = @ + 1]
  /\ file' = "opening" /\ on' = m
  /\ UNCHANGED <<bars, devices, held, twice, loader, minor, region, calls,
                 list, used, call, ready, address, valid, running>>

InitDescriptor ==
  /\ file = "opening"
  /\ list' = [list EXCEPT ![on] = <<>>]
  /\ file' = "opened"
  /\ UNCHANGED <<loadVars, on, used, call, ready, address, valid, running>>

\* Board_Open that gets no memory for its handle leaves the file open.
Board_Open ==
  /\ file = "opened"
  /\ file' \in {"held"} \cup ({"leaked"} \cap Faults)
  /\ UNCHANGED <<loadVars, on, list, used, call, ready, address, valid, running>>
-----------------------------------------------------------------------------
(* Calls of the library.                                                   *)

Enter(t, from, to) ==
  /\ call[t].at = from
  /\ call' = [call EXCEPT ![t].at = to]

\* A failing call of the library ends the process (check_result).
Give_up(t) ==
  /\ call' = [call EXCEPT ![t] = Out]
  /\ file' = "closing"

\* Dma_Initialize first stops the channel.
Dma_Initialize(t) ==
  /\ t \in Initialisers
  /\ file = "held"
  /\ call[t].at = "out"
  /\ call' = [call EXCEPT ![t] = [Out EXCEPT !.at = "next buffer"]]
  /\ running' = [running EXCEPT ![on] = FALSE]
  /\ UNCHANGED <<loadVars, file, on, list, used, ready, address, valid>>

\* The loop over the buffers, and the driver's check of the arguments.
NextBuffer(t) ==
  /\ file = "held"
  /\ \/ call[t].buffer \in Buffer /\ Enter(t, "next buffer", "search") /\ UNCHANGED file
     \/ call[t].buffer \notin Buffer /\ Enter(t, "next buffer", "out") /\ UNCHANGED file
     \/ call[t].at = "next buffer" /\ "size" \in Faults /\ Give_up(t)
  /\ UNCHANGED <<loadVars, on, list, used, ready, address, valid, running>>

\* Each buffer that was initialised is cleared: the engine may not use it yet.
ClearBuffer(t) ==
  /\ file = "held"
  /\ call[t].at = "initialized"
  /\ call' = [call EXCEPT ![t].at = "next buffer", ![t].buffer = @ + 1, ![t].piece = NoPiece]
  /\ valid' = [valid EXCEPT ![on] = @ \ {call[t].buffer}]
  /\ ready' = ready \cup {call[t].buffer}
  /\ UNCHANGED <<loadVars, file, on, list, used, address, running>>

\* A thread makes a buffer valid, and starts the channel, when Dma_Initialize
\* has returned for all its buffers.
Usable(t) == file = "held" /\ call[t].at = "out" /\ ready = Buffer

Buffer_Setup(t) ==
  /\ Usable(t)
  /\ \E b \in Buffer \ valid[on] : valid' = [valid EXCEPT ![on] = @ \cup {b}]
  /\ UNCHANGED <<loadVars, file, on, list, used, call, ready, address, running>>

Dma_Start(t) ==
  /\ Usable(t)
  /\ running' = [running EXCEPT ![on] = TRUE]
  /\ UNCHANGED <<loadVars, file, on, list, used, call, ready, address, valid>>

\* Board_Close, or the end of the process: what another thread has begun in the
\* kernel ends first.
Close ==
  /\ file \in {"held", "leaked"}
  /\ file' = "closing"
  /\ UNCHANGED <<loadVars, on, list, used, call, ready, address, valid, running>>
-----------------------------------------------------------------------------
(* DMA_INITIALIZE in the driver.                                           *)

\* A plausible error: a buffer that is already there is not noticed.
Search_Blind(t) ==
  /\ call[t].at = "search"
  /\ Enter(t, "search", "allocate") /\ UNCHANGED file
  /\ UNCHANGED <<loadVars, on, list, used, ready, address, valid, running>>

Search(t) ==
  /\ call[t].at = "search"
  /\ IF Matching(call[t].buffer) = {} THEN Enter(t, "search", "allocate") /\ UNCHANGED file
                                      ELSE Give_up(t)
  /\ UNCHANGED <<loadVars, on, list, used, ready, address, valid, running>>

Allocate(t) ==
  /\ call[t].at = "allocate"
  /\ \/ /\ \E p \in Piece \ used :
             /\ used' = used \cup {p}
             /\ call' = [call EXCEPT ![t].at = "tell board", ![t].piece = p]
        /\ UNCHANGED file
     \/ /\ "coherent" \in Faults \/ used = Piece
        /\ Give_up(t)
        /\ UNCHANGED used
  /\ UNCHANGED <<loadVars, on, list, ready, address, valid, running>>

\* Both words of the address are written; the upper one of an address below
\* 2^32 is zero.
TellBoard(t) ==
  /\ Enter(t, "tell board", "describe")
  /\ address' = [address EXCEPT ![on][call[t].buffer] = call[t].piece]
  /\ UNCHANGED <<loadVars, file, on, list, used, ready, valid, running>>

\* Without a descriptor the memory is given back; the board keeps its address.
Describe(t) ==
  /\ call[t].at = "describe"
  /\ \/ /\ list' = [list EXCEPT ![on] =
                      Append(@, [buffer |-> call[t].buffer, piece |-> call[t].piece])]
        /\ Enter(t, "describe", "initialized")
        /\ UNCHANGED <<used, file>>
     \/ /\ "descriptor" \in Faults
        /\ used' = used \ {call[t].piece}
        /\ Give_up(t)
        /\ UNCHANGED list
  /\ UNCHANGED <<loadVars, on, ready, address, valid, running>>

\* A thread that is back from the kernel when the process ends does no more.
Die(t) ==
  /\ file = "closing"
  /\ call[t].at \in {"next buffer", "initialized"}
  /\ call' = [call EXCEPT ![t] = Out]
  /\ UNCHANGED <<loadVars, file, on, list, used, ready, address, valid, running>>
-----------------------------------------------------------------------------
(* The release of the file.                                                *)

\* A plausible error: the board is not reset.
ResetBoard_Not ==
  /\ file = "closing"
  /\ \A t \in Threads : call[t].at = "out"
  /\ file' = "freeing"
  /\ ready' = {}
  /\ UNCHANGED <<loadVars, on, list, used, call, address, valid, running>>

\* The reset stops the board's engines before their memory goes.
ResetBoard ==
  /\ file = "closing"
  /\ \A t \in Threads : call[t].at = "out"
  /\ running' = [running EXCEPT ![on] = FALSE]
  /\ valid' = [valid EXCEPT ![on] = {}]
  /\ file' = "freeing"
  /\ ready' = {}
  /\ UNCHANGED <<loadVars, on, list, used, call, address>>

FreeBuffer ==
  /\ file = "freeing"
  /\ list[on] # <<>>
  /\ list' = [list EXCEPT ![on] = Tail(@)]
  /\ used' = used \ {Head(list[on]).piece}
  /\ UNCHANGED <<loadVars, file, on, call, ready, address, valid, running>>

\* A plausible error: the reference is kept.
Released_Referenced ==
  /\ file = "freeing"
  /\ list[on] = <<>>
  /\ file' = "none" /\ on' = 0
  /\ UNCHANGED <<loadVars, list, used, call, ready, address, valid, running>>

Released ==
  /\ file = "freeing"
  /\ list[on] = <<>>
  /\ desc' = [desc EXCEPT ![on].reference_count = @ - 1]
  /\ file' = "none" /\ on' = 0
  /\ UNCHANGED <<bars, devices, held, twice, loader, minor, region, calls,
                 list, used, call, ready, address, valid, running>>
-----------------------------------------------------------------------------
Module == (Loading \/ Releasing \/ Unload(file = "none")) /\ UNCHANGED dmaVars

InKernel(t) ==
  Search(t) \/ Allocate(t) \/ TellBoard(t) \/ Describe(t) \/ Die(t)
Library(t) ==
  Dma_Initialize(t) \/ NextBuffer(t) \/ ClearBuffer(t) \/ Buffer_Setup(t) \/ Dma_Start(t)
Closing == ResetBoard \/ FreeBuffer \/ Released

Next ==
  \/ Module
  \/ \E m \in Minors : Open(m)
  \/ InitDescriptor \/ Board_Open \/ Close \/ Closing
  \/ \E t \in Threads : Library(t) \/ InKernel(t)

Spec == Init /\ [][Next]_vars
-----------------------------------------------------------------------------
DriverTypeOK ==
  /\ LoadTypeOK
  /\ file \in {"none", "opening", "opened", "held", "leaked", "closing", "freeing"}
  /\ \A m \in Minors :
       /\ desc[m].reference_count = (IF file # "none" /\ on = m THEN 1 ELSE 0)
       /\ valid[m] \subseteq Buffer /\ running[m] \in BOOLEAN
       /\ \A b \in Buffer : address[m][b] \in Piece \cup {NoPiece}
  /\ used \subseteq Piece

\* Whatever step of the loading fails, and after unloading, nothing stays behind:
\* no region, mapping, handler, device number or reference to a board.  Although
\* release_resources is called by a step that fails and again by its caller, nothing
\* is given back twice, save the class, which unloading releases by two calls.  DMA
\* memory is allocated only while a board is open.
NothingLeft ==
  /\ twice \subseteq {Class}
  /\ loader = "out" => held = {} /\ ~devices
  /\ file = "none" => used = {} /\ \A m \in Minors : list[m] = <<>>

\* An engine that runs fills only memory that is allocated for its buffer, and
\* from which DMA_READ copies: through failing allocations, repeated calls of
\* Dma_Initialize, and closing with the engine running.
EngineSafe ==
  \A m \in Minors : running[m] =>
    /\ file # "none" /\ on = m
    /\ \A b \in valid[m] :
         /\ address[m][b] \in used
         /\ {list[m][i].piece : i \in Matching(b)} = {address[m][b]}

\* The list, searched and extended without a lock, implements a table of buffers.
Entries == {e \in Minors \X Buffer : \E i \in DOMAIN list[e[1]] : list[e[1]][i].buffer = e[2]}
PieceOf(e) ==
  list[e[1]][CHOOSE i \in DOMAIN list[e[1]] : list[e[1]][i].buffer = e[2]].piece
Table == INSTANCE DmaTable WITH
  Buffer <- (UNION {DOMAIN b : b \in Bars}) \X Buffer, table <- [e \in Entries |-> PieceOf(e)]
DmaIsTable == Table!Spec

=============================================================================
