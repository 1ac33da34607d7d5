---------------------------- MODULE DmaStreamProofs ----------------------------
(***************************************************************************)
(* Proofs about the continuous acquisition, for any number of buffers and  *)
(* numbers, any depth of the queue and any patience of the library.        *)
(*                                                                         *)
(* The buffers are a window of the stream.  P is the position in the       *)
(* stream of the buffer that the ISR empties next, F of the one that the   *)
(* engine fills next: RingOK says that the used buffers are those between  *)
(* P and F, with their data, LocalOK that the local buffers are the        *)
(* NumBuffers before P, AheadOK how far main is behind.  The program knows *)
(* the positions only modulo the number of buffers, so that the proofs     *)
(* begin with what a remainder determines.                                 *)
(***************************************************************************)
EXTENDS DmaStream, Integers, TLAPS

(* Division with remainder.                                                *)
LEMMA Division ==
  ASSUME NEW a \in Nat, NEW n \in Nat, n > 0
  PROVE  /\ a % n \in 0 .. n - 1
         /\ \E q \in Nat : a = (n * q) + (a % n)
<1>1. a % n \in 0 .. n - 1 OBVIOUS
<1>2. a \div n \in Nat OBVIOUS
<1>3. a = (n * (a \div n)) + (a % n) OBVIOUS
<1> QED BY <1>1, <1>2, <1>3

(* Products are kept out of sight of the arithmetic.                       *)
Times(n, q) == n * q

(* Different multiples of a number differ by at least that number.         *)
LEMMA TimesDiffer ==
  ASSUME NEW n \in Nat, n > 0, NEW q \in Int, NEW p \in Int, q > p
  PROVE  Times(n, q) - Times(n, p) >= n /\ Times(n, q) \in Int /\ Times(n, p) \in Int
<1> DEFINE d == q - p - 1
<1>1. d \in Nat /\ q = p + 1 + d OBVIOUS
<1>2. n * q = (n * p) + n + (n * d) BY <1>1
<1>3. n * d \in Nat BY <1>1
<1> HIDE DEF d
<1> QED BY <1>2, <1>3 DEF Times

(* Two numbers have the same remainder when they differ by a multiple.     *)
Cong(a, b, n) == \E q \in Int : a - b = Times(n, q)

(* The quotients do not matter: the remainders agree when the difference   *)
(* is a multiple.                                                          *)
LEMMA CongIs ==
  ASSUME NEW a \in Nat, NEW b \in Nat, NEW n \in Nat, n > 0
  PROVE  Cong(a, b, n) <=> a % n = b % n
<1> DEFINE r == a % n
           s == b % n
<1>1. PICK p \in Nat : a = (n * p) + r BY Division
<1>2. PICK t \in Nat : b = (n * t) + s BY Division
<1>3. r \in 0 .. n - 1 /\ s \in 0 .. n - 1 BY Division
<1> HIDE DEF r, s
<1>4. ASSUME r = s PROVE Cong(a, b, n)
  <2>1. a - b = n * (p - t) /\ p - t \in Int BY <1>1, <1>2, <1>3, <1>4
  <2> QED BY <2>1 DEF Cong, Times
<1>5. ASSUME NEW q \in Int, a - b = Times(n, q) PROVE r = s
  <2>1. PICK u \in Int : u = t + q OBVIOUS
  <2>2. Times(n, p) - Times(n, u) = s - r
    BY <1>1, <1>2, <1>3, <1>5, <2>1 DEF Times
  <2>3. ~(p > u)
    <3> SUFFICES ASSUME p > u PROVE FALSE OBVIOUS
    <3>1. Times(n, p) - Times(n, u) >= n BY TimesDiffer
    <3> QED BY <3>1, <2>2, <1>3
  <2>4. ~(u > p)
    <3> SUFFICES ASSUME u > p PROVE FALSE OBVIOUS
    <3>1. Times(n, u) - Times(n, p) >= n BY TimesDiffer
    <3>2. Times(n, u) \in Int /\ Times(n, p) \in Int BY DEF Times
    <3> QED BY <3>1, <3>2, <2>2, <1>3
  <2>5. p = u BY <2>3, <2>4
  <2> QED BY <2>2, <2>5, <1>3 DEF Times
<1>6. Cong(a, b, n) <=> r = s BY <1>4, <1>5 DEF Cong
<1> QED BY <1>6 DEF r, s

(* Only the difference matters.                                            *)
LEMMA CongSame ==
  ASSUME NEW a \in Nat, NEW b \in Nat, NEW c \in Nat, NEW d \in Nat,
         NEW n \in Nat, a - b = c - d, Cong(a, b, n)
  PROVE  Cong(c, d, n)
BY DEF Cong

(* Two numbers closer than the divisor with the same remainder are equal.  *)
LEMMA CongSmall ==
  ASSUME NEW a \in Nat, NEW b \in Nat, NEW n \in Nat, n > 0, Cong(a, b, n), a < b + n, b < a + n
  PROVE a = b
<1>1. PICK q \in Int : a - b = Times(n, q) BY DEF Cong
<1>2. Times(n, 0) = 0 BY DEF Times
<1>3. ~(q > 0)
  <2> SUFFICES ASSUME q > 0 PROVE FALSE OBVIOUS
  <2>1. Times(n, q) - Times(n, 0) >= n BY TimesDiffer
  <2> QED BY <2>1, <1>1, <1>2
<1>4. ~(0 > q)
  <2> SUFFICES ASSUME 0 > q PROVE FALSE OBVIOUS
  <2>1. Times(n, 0) - Times(n, q) >= n BY TimesDiffer
  <2> QED BY <2>1, <1>1, <1>2
<1>5. q = 0 BY <1>3, <1>4
<1> QED BY <1>1, <1>2, <1>5

(* A period may be added.*)
LEMMA CongPeriod ==
  ASSUME NEW a \in Nat, NEW n \in Nat
  PROVE Cong(a + n, a, n)
<1>1. a + n - a = Times(n, 1) /\ 1 \in Int BY DEF Times
<1> QED BY <1>1 DEF Cong

(* A number and its remainder.                                             *)
LEMMA CongMod ==
  ASSUME NEW a \in Nat, NEW n \in Nat, n > 0
  PROVE  a % n \in 0 .. n - 1 /\ Cong(a % n, a, n)
<1>1. PICK q \in Nat : a = (n * q) + (a % n) BY Division
<1>2. a % n \in 0 .. n - 1 BY Division
<1>3. (a % n) - a = Times(n, 0 - q) /\ 0 - q \in Int BY <1>1, <1>2 DEF Times
<1> QED BY <1>2, <1>3 DEF Cong

(* What agrees modulo a multiple agrees modulo the number.                 *)
LEMMA CongDivisor ==
  ASSUME NEW a \in Nat, NEW b \in Nat, NEW n \in Nat, n > 0, NEW m \in Nat, m % n = 0, Cong(a, b, m)
  PROVE  Cong(a, b, n)
<1>1. PICK k \in Nat : m = n * k
  <2>1. PICK k \in Nat : m = (n * k) + (m % n) BY Division
  <2> QED BY <2>1
<1>2. PICK q \in Int : a - b = Times(m, q) BY DEF Cong
<1>3. m * q = n * (k * q) /\ k * q \in Int
  <2>1. (n * k) * q = n * (k * q) OBVIOUS
  <2>2. k * q \in Int OBVIOUS
  <2> QED BY <1>1, <2>1, <2>2
<1> QED BY <1>2, <1>3 DEF Cong, Times

-----------------------------------------------------------------------------
(* Slot is the buffer of a position of the stream, Label its number.       *)
Slot(x) == x % NumBuffers
Label(x) == x % Numbers

(* The assumption, conjunct by conjunct.                                   *)
LEMMA Constants == /\ NumBuffers \in Nat /\ NumBuffers > 0 /\ Numbers \in Nat /\ Numbers > 0
                   /\ Numbers % NumBuffers = 0 /\ QueueSize \in Nat /\ QueueSize > 0
                   /\ ActionLoops \in Nat /\ Programs \subseteq {"continuous", "all"}
BY StreamAssumption

(* The stream begins in the first buffer, with number 0.                   *)
LEMMA Small0 == 0 % NumBuffers = 0 /\ 0 % Numbers = 0
BY Constants

(* Slots and labels as remainders.                                         *)
LEMMA SameSlot ==
  ASSUME NEW x \in Nat, NEW y \in Nat
  PROVE  Slot(x) = Slot(y) <=> Cong(x, y, NumBuffers)
BY Constants, CongIs DEF Slot

LEMMA SameLabel ==
  ASSUME NEW x \in Nat, NEW y \in Nat
  PROVE  Label(x) = Label(y) <=> Cong(x, y, Numbers)
BY Constants, CongIs DEF Label

(* The engine and the ISR step from a slot to the slot of the next         *)
(* position.                                                               *)
LEMMA SlotIs ==
  ASSUME NEW x \in Nat
  PROVE  Slot(x) \in Buffer /\ Next_buffer(Slot(x)) = Slot(x + 1)
<1> DEFINE y == x % NumBuffers
<1>1. y \in 0 .. NumBuffers - 1 /\ Cong(y, x, NumBuffers) BY Constants, CongMod
<1> HIDE DEF y
<1>2. Cong(y + 1, x + 1, NumBuffers) BY <1>1, Constants, CongSame
<1>3. Slot(y + 1) = Slot(x + 1) BY <1>1, <1>2, SameSlot
<1>4. y \in Buffer BY <1>1 DEF Buffer
<1> QED BY <1>3, <1>4 DEF Slot, Next_buffer, y

(* Numbers step like positions, and a number gives the slot of its         *)
(* position.                                                               *)
LEMMA LabelIs ==
  ASSUME NEW x \in Nat
  PROVE  Label(x) \in Number /\ Label(Label(x) + 1) = Label(x + 1) /\ Slot(Label(x)) = Slot(x)
<1> DEFINE y == x % Numbers
<1>1. y \in 0 .. Numbers - 1 /\ Cong(y, x, Numbers) BY Constants, CongMod
<1> HIDE DEF y
<1>2. Cong(y + 1, x + 1, Numbers) BY <1>1, Constants, CongSame
<1>3. Label(y + 1) = Label(x + 1) BY <1>1, <1>2, SameLabel
<1>4. Cong(y, x, NumBuffers) BY <1>1, Constants, CongDivisor
<1>5. Slot(y) = Slot(x) BY <1>1, <1>4, SameSlot
<1>6. y \in Number BY <1>1 DEF Number
<1> QED BY <1>3, <1>5, <1>6 DEF Label, y

(* Positions less than a turn apart have different buffers.                *)
LEMMA SlotsDiffer ==
  ASSUME NEW x \in Nat, NEW y \in Nat, x < y, y < x + NumBuffers
  PROVE  Slot(x) # Slot(y)
<1> SUFFICES ASSUME Slot(x) = Slot(y) PROVE FALSE OBVIOUS
<1>1. Cong(x, y, NumBuffers) BY SameSlot
<1>2. x = y BY <1>1, Constants, CongSmall
<1> QED BY <1>2

(* After a turn the buffers repeat, and after Numbers positions the        *)
(* numbers.                                                                *)
LEMMA SlotComesBack ==
  ASSUME NEW x \in Nat
  PROVE  Slot(x + NumBuffers) = Slot(x)
<1>1. Cong(x + NumBuffers, x, NumBuffers) BY Constants, CongPeriod
<1>2. x + NumBuffers \in Nat BY Constants
<1> QED BY <1>1, <1>2, SameSlot

LEMMA LabelComesBack ==
  ASSUME NEW x \in Nat
  PROVE  Label(x + Numbers) = Label(x)
<1>1. Cong(x + Numbers, x, Numbers) BY Constants, CongPeriod
<1>2. x + Numbers \in Nat BY Constants
<1> QED BY <1>1, <1>2, SameLabel

(* Positions that are moved together keep the same label.                  *)
LEMMA LabelMoves ==
  ASSUME NEW x \in Nat, NEW y \in Nat, NEW u \in Nat, NEW v \in Nat, x - y = u - v
  PROVE  Label(x) = Label(y) <=> Label(u) = Label(v)
<1>1. Cong(x, y, Numbers) <=> Cong(u, v, Numbers) BY DEF Cong
<1> QED BY <1>1, SameLabel

(* A number is its own label.                                              *)
LEMMA LabelOfNumber ==
  ASSUME NEW x \in Number
  PROVE  Label(x) = x
<1>1. x \in Nat /\ x < Numbers BY Constants DEF Number
<1>2. Label(x) \in Nat /\ Label(x) < Numbers BY <1>1, Constants, LabelIs DEF Number
<1> DEFINE y == Label(x)
<1>3. Cong(y, x, Numbers) BY <1>1, Constants, CongMod DEF Label
<1>4. y \in Nat /\ y < Numbers BY <1>2
<1> HIDE DEF y
<1>5. y = x BY <1>1, <1>3, <1>4, Constants, CongSmall
<1> QED BY <1>5 DEF y
-----------------------------------------------------------------------------
(* Where main is: before it has installed its ISR, before it has started   *)
(* the ADC, waiting for the board, writing a local buffer, after it has    *)
(* freed them.                                                             *)
BeforeInstall == {"clear", "read_back", "poll_clear", "reread_clear", "clear_again", "read_again",
                  "setup", "install"}
Early == BeforeInstall \cup {"start", "poll_start", "reread_start", "adc"}
Polled == {"poll_clear", "reread_clear", "poll_start", "reread_start"}
Writes == {"write", "writing", "written"}
Freed == {"remove", "done", "gave_up"}
Data == Number \cup {Torn}

(* Types.                                                                  *)
TypeInv ==
  /\ program \in {"continuous", "all"}
  /\ action \in Action /\ last_action \in Action /\ data \in Action \cup {"none"}
  /\ engine \in Buffer /\ next_buffer \in Buffer /\ used \subseteq Buffer
  /\ filled \in Number /\ local_buffer_count \in Number
  /\ content \in [Buffer -> Data] /\ local_buffer \in [Buffer -> Data]
  /\ int_queue_count \in 0 .. QueueSize /\ loops \in 0 .. ActionLoops /\ ahead \in 0 .. MaxAhead
  /\ interrupts \in BOOLEAN /\ sampling \in BOOLEAN /\ complete \in BOOLEAN
  /\ error \in BOOLEAN /\ exit_program \in BOOLEAN

(* While main polls, it looks for the action that the board has, or for    *)
(* one that cannot come any more; what sampling runs on was taken.         *)
ActionOK ==
  /\ main \in Polled => \/ data = action
                        \/ data # last_action /\ data # "halt" /\ action = "halt"
  /\ main \in {"reread_clear", "reread_start"} => loops < ActionLoops
  /\ main = "adc" \/ sampling => last_action = action

(* What main and the ISR have done when they are at a place.               *)
PlaceOK ==
  /\ main \in BeforeInstall => thread = "none"
  /\ main \in Early => ~sampling
  /\ ~sampling => used = {}
  /\ main \in Writes => ahead > 0
  /\ thread = "count" => program = "all"
  /\ thread = "find" => program = "continuous"

Inv0 == TypeInv /\ ActionOK /\ PlaceOK

(* The ranges of the counters that are stepped modulo a constant.          *)
LEMMA Ranges ==
  /\ 0 \in Number /\ 0 \in Buffer
  /\ \A b \in Buffer : Next_buffer(b) \in Buffer
  /\ \A x \in Number : (x + 1) % Numbers \in Number
  /\ MaxAhead = NumBuffers + 1 + Numbers /\ MaxAhead \in Nat /\ NumBuffers + 2 \in 0 .. MaxAhead
<1>1. \A x \in Nat : x % Numbers \in 0 .. Numbers - 1 BY Constants, Division
<1>2. \A x \in Nat : x % NumBuffers \in 0 .. NumBuffers - 1 BY Constants, Division
<1> QED BY <1>1, <1>2, Constants DEF Number, Buffer, Next_buffer, MaxAhead

(* Types and places, action by action.                                     *)
LEMMA InitPlaces == Init => Inv0
<1> SUFFICES ASSUME Init PROVE Inv0 OBVIOUS
<1>1. content \in [Buffer -> Data] /\ local_buffer \in [Buffer -> Data] BY DEF Init, Data
<1>4. int_queue_count \in 0 .. QueueSize /\ loops \in 0 .. ActionLoops /\ ahead \in 0 .. MaxAhead
  BY Constants, Ranges DEF Init
<1>5. action \in Action /\ program \in {"continuous", "all"} BY Constants DEF Init, Action
<1>3. TypeInv BY <1>1, <1>4, <1>5, Ranges DEF Init, TypeInv, Action
<1>2. ActionOK /\ PlaceOK BY DEF Init, ActionOK, PlaceOK, Polled, Writes
<1> QED BY <1>3, <1>2 DEF Inv0

LEMMA StartingKeepsPlaces ==
  ASSUME Inv0, Starting
  PROVE  Inv0'
<1> USE DEF Inv0, boardVars, statusVars, callVars, mainVars, Goto
<1>1. CASE Dma_Clear \/ ClearAgain \/ Dma_Start
  <2> USE <1>1 DEF Dma_Clear, ClearAgain, Dma_Start, WriteAction, Call
  <2>1. TypeInv' BY DEF TypeInv, Action
  <2>2. ActionOK' BY DEF TypeInv, ActionOK, PlaceOK, Polled, Early, BeforeInstall
  <2>3. PlaceOK' BY DEF TypeInv, PlaceOK, Early, BeforeInstall, Writes
  <2> QED BY <2>1, <2>2, <2>3
<1>2. CASE ReadBack
  <2> USE <1>2 DEF ReadBack, Call
  <2>1. TypeInv' BY DEF TypeInv, Action
  <2>2. ActionOK' BY DEF TypeInv, ActionOK, PlaceOK, Polled, Early, BeforeInstall
  <2>3. PlaceOK' BY DEF TypeInv, PlaceOK, Early, BeforeInstall, Writes
  <2> QED BY <2>1, <2>2, <2>3
<1>3. ASSUME NEW at \in {"poll_clear", "poll_start"}, NEW reread \in Polled,
             NEW to \in {"setup", "adc"}, Poll(at, reread, to),
             at = "poll_clear" => reread = "reread_clear" /\ to = "setup",
             at = "poll_start" => reread = "reread_start" /\ to = "adc"
      PROVE  Inv0'
  <2> USE <1>3 DEF Poll, Call
  <2>1. TypeInv' BY Constants DEF TypeInv, Action, ActionOK
  <2>2. ActionOK' BY Constants DEF TypeInv, ActionOK, PlaceOK, Polled, Early, BeforeInstall
  <2>3. PlaceOK' BY DEF TypeInv, PlaceOK, Early, BeforeInstall, Writes
  <2> QED BY <2>1, <2>2, <2>3
<1>4. ASSUME NEW at \in {"poll_clear", "poll_start"}, NEW reread \in Polled, Reread(reread, at),
             at = "poll_clear" => reread = "reread_clear",
             at = "poll_start" => reread = "reread_start"
      PROVE  Inv0'
  <2> USE <1>4 DEF Reread, Call
  <2>1. TypeInv' BY Constants DEF TypeInv, Action, ActionOK
  <2>2. ActionOK' BY Constants DEF TypeInv, ActionOK, PlaceOK, Polled, Early, BeforeInstall
  <2>3. PlaceOK' BY DEF TypeInv, PlaceOK, Early, BeforeInstall, Writes
  <2> QED BY <2>1, <2>2, <2>3
<1>5. CASE Polling BY <1>3, <1>4, <1>5 DEF Polling, Polled
<1>6. CASE Setup \/ InstallISR \/ Adc_Start
  <2> USE <1>6 DEF Setup, InstallISR, Adc_Start
  <2>1. TypeInv' BY DEF TypeInv, Action
  <2>2. ActionOK' BY DEF TypeInv, ActionOK, PlaceOK, Polled, Early, BeforeInstall
  <2>3. PlaceOK' BY DEF TypeInv, PlaceOK, Early, BeforeInstall, Writes
  <2> QED BY <2>1, <2>2, <2>3
<1> QED BY <1>1, <1>2, <1>5, <1>6 DEF Starting

LEMMA MainKeepsPlaces ==
  ASSUME Inv0, Looping \/ LoopEnds \/ Sigint_handler \/ Ending
  PROVE  Inv0'
<1> USE DEF Inv0, boardVars, statusVars, callVars, mainVars, InLoop, Goto
<1>1. CASE LoopTest \/ Wait \/ LoopTestAll \/ Write \/ LoopEnds \/ Sigint_handler
  <2> USE <1>1 DEF LoopTest, Wait, LoopTestAll, Write, LoopEnds, Sigint_handler
  <2>1. TypeInv' BY DEF TypeInv
  <2>2. ActionOK' BY DEF TypeInv, ActionOK, Polled
  <2>3. PlaceOK' BY Constants, Ranges DEF TypeInv, PlaceOK, Early, BeforeInstall, Writes
  <2> QED BY <2>1, <2>2, <2>3
<1>2. CASE Written
  <2>1. ahead' \in 0 .. MaxAhead
    BY <1>2, Ranges, Constants DEF Written, TypeInv, PlaceOK, Writes
  <2>2. TypeInv' BY <1>2, <2>1, Ranges DEF Written, TypeInv
  <2>3. ActionOK' BY <1>2 DEF Written, ActionOK, Polled
  <2>4. PlaceOK' BY <1>2 DEF Written, PlaceOK, Early, BeforeInstall, Writes
  <2> QED BY <2>2, <2>3, <2>4
<1>3. CASE Ending
  <2> USE <1>3 DEF Ending, DisableInterrupts, FreeBuffers, RemoveISR
  <2>1. TypeInv' BY DEF TypeInv, Data
  <2>2. ActionOK' BY DEF TypeInv, ActionOK, Polled
  <2>3. PlaceOK' BY DEF TypeInv, PlaceOK, Early, BeforeInstall, Writes
  <2> QED BY <2>1, <2>2, <2>3
<1> QED BY <1>1, <1>2, <1>3 DEF Looping

LEMMA IsrKeepsPlaces ==
  ASSUME Inv0, Fetch \/ InISR
  PROVE  Inv0'
<1> USE DEF Inv0, boardVars, statusVars, callVars, mainVars, Isr
<1>0. Counted => ahead' \in 0 .. MaxAhead /\ ahead' > 0 BY Ranges, Constants DEF Counted, TypeInv
<1>1. CASE Fetch \/ Find \/ CheckForError \/ CheckBufferUsed \/ Dma_Clear_Interrupt \/ Ack_Interrupt
  <2> USE <1>1 DEF Fetch, Find, CheckForError, CheckBufferUsed, Dma_Clear_Interrupt, Ack_Interrupt
  <2>4. int_queue_count' \in 0 .. QueueSize BY Constants DEF TypeInv
  <2>1. TypeInv' BY <2>4 DEF TypeInv
  <2>2. ActionOK' BY DEF TypeInv, ActionOK, Polled
  <2>3. PlaceOK' BY DEF TypeInv, PlaceOK, Early, BeforeInstall, Writes
  <2> QED BY <2>1, <2>2, <2>3
<1>2. CASE Dma_Read \/ Dma_Reset_Buffer \/ CountAll
  <2> USE <1>2, <1>0, Ranges DEF Dma_Read, Dma_Reset_Buffer, CountAll
  <2>1. TypeInv' BY DEF TypeInv, Data
  <2>2. ActionOK' BY DEF TypeInv, ActionOK, Polled
  <2>3. PlaceOK' BY DEF TypeInv, PlaceOK, Early, BeforeInstall, Writes
  <2> QED BY <2>1, <2>2, <2>3
<1> QED BY <1>1, <1>2 DEF InISR

LEMMA BoardKeepsPlaces ==
  ASSUME Inv0, Board
  PROVE  Inv0'
<1> USE DEF Inv0, boardVars, statusVars, callVars, mainVars
<1>1. CASE TakeAction
  <2> USE <1>1 DEF TakeAction
  <2>1. TypeInv' BY DEF TypeInv, Action
  <2>2. ActionOK' BY DEF TypeInv, ActionOK, Polled
  <2>3. PlaceOK' BY DEF TypeInv, PlaceOK, Early, BeforeInstall, Writes
  <2> QED BY <2>1, <2>2, <2>3
<1>2. CASE Fill
  <2>0. int_queue_count' \in 0 .. QueueSize BY <1>2, Constants DEF Fill, Raise, Interrupt, TypeInv
  <2> USE <1>2 DEF Fill
  <2>1. TypeInv' BY <2>0, Ranges DEF TypeInv, Data
  <2>2. ActionOK' BY DEF TypeInv, ActionOK, Polled
  <2>3. PlaceOK' BY DEF TypeInv, PlaceOK, Early, BeforeInstall, Writes
  <2> QED BY <2>1, <2>2, <2>3
<1> QED BY <1>1, <1>2 DEF Board
-----------------------------------------------------------------------------
(* Where the ISR is: it has given the buffer at P back and not yet stepped *)
(* on; it knows that the buffer is full; it has copied it; its local copy  *)
(* is not that of the turn before any more.                                *)
GivenBack == program = "all" /\ thread \in {"clear", "count"}
Full == thread \in {"copy", "copied", "reset"} \/ (program = "all" /\ thread = "errors")
Recopied == program = "all" /\ thread \in {"reset", "clear", "count"}
Overwriting == thread = "copied" \/ Recopied
(* The first position that is still in use, and the first that is not      *)
(* copied and counted.                                                     *)
Emptied(P) == IF GivenBack THEN P + 1 ELSE P
Copied(P) == IF program = "continuous" /\ thread = "reset" THEN P + 1 ELSE P

(* The used buffers hold the positions from Emptied(P) to F, in order.     *)
RingOK(P, F) ==
  /\ next_buffer = Slot(P) /\ engine = Slot(F) /\ filled = Label(F)
  /\ Emptied(P) <= F /\ F <= Emptied(P) + NumBuffers
  /\ \A x \in Nat : Emptied(P) <= x /\ x < F => Slot(x) \in used /\ content[Slot(x)] = Label(x)
  /\ \A b \in used : \E x \in Nat : Emptied(P) <= x /\ x < F /\ b = Slot(x)
  /\ Full => P < F

(* How far main is behind what was copied.                                 *)
AheadOK(P) ==
  /\ Label(local_buffer_count + ahead) = Label(Copied(P))
  /\ ahead <= NumBuffers => ahead <= Copied(P)
  /\ ahead > NumBuffers => NumBuffers <= Copied(P)

(* The local buffers hold the last NumBuffers positions that were copied.  *)
LocalOK(P) ==
  main \notin Freed =>
    /\ \A y \in Nat : /\ y < Copied(P) /\ Copied(P) <= y + NumBuffers
                      /\ ~(Overwriting /\ Copied(P) = y + NumBuffers)
                      => local_buffer[Slot(y)] = Label(y)
    /\ Recopied => local_buffer[Slot(P)] = Label(P)

(* What main has read of the local buffer is what it should write.         *)
ItemOK == main \in {"writing", "written"} /\ ahead < NumBuffers => item = local_buffer_count

(* The invariant.                                                          *)
PositionsOK(P, F) == RingOK(P, F) /\ AheadOK(P) /\ LocalOK(P)
StreamInv == Inv0 /\ ItemOK /\ \E P \in Nat, F \in Nat : PositionsOK(P, F)

(* What a step must leave alone for each part of the invariant.            *)
LEMMA RingKept ==
  ASSUME NEW P \in Nat, NEW F \in Nat, RingOK(P, F),
         UNCHANGED <<used, engine, filled, content, next_buffer>>,
         GivenBack' <=> GivenBack, Full' => P < F
  PROVE  RingOK(P, F)'
<1>1. Emptied(P)' = Emptied(P) BY DEF Emptied
<1> QED BY <1>1 DEF RingOK

LEMMA AheadKept ==
  ASSUME NEW P \in Nat, AheadOK(P), UNCHANGED <<local_buffer_count, ahead>>, Copied(P)' = Copied(P)
  PROVE  AheadOK(P)'
BY DEF AheadOK

LEMMA LocalKept ==
  ASSUME NEW P \in Nat, LocalOK(P), Copied(P)' = Copied(P),
         main' \notin Freed => main \notin Freed /\ local_buffer' = local_buffer,
         Overwriting => Overwriting', Recopied' => Recopied
  PROVE  LocalOK(P)'
BY DEF LocalOK

(* The places that matter for the positions.                               *)
LEMMA ThreadKept ==
  ASSUME NEW P \in Nat, UNCHANGED <<program, thread>>
  PROVE  /\ GivenBack' <=> GivenBack
         /\ Full' <=> Full
         /\ Recopied' <=> Recopied
         /\ Overwriting' <=> Overwriting
         /\ Copied(P)' = Copied(P) /\ Emptied(P)' = Emptied(P)
BY DEF GivenBack, Full, Recopied, Overwriting, Copied, Emptied

(* Nothing is filled and nothing is copied at first.                       *)
LEMMA InitPositions == Init => StreamInv
<1> SUFFICES ASSUME Init PROVE StreamInv OBVIOUS
<1>1. Slot(0) = 0 /\ Label(0) = 0 BY Constants, Small0 DEF Slot, Label
<1>2. Emptied(0) = 0 /\ Copied(0) = 0 /\ ~Full /\ ~Recopied
  BY DEF Init, Emptied, Copied, Full, Recopied, GivenBack
<1>3. RingOK(0, 0) BY <1>1, <1>2, Constants DEF RingOK, Init
<1>4. AheadOK(0) BY <1>1, <1>2, Constants DEF AheadOK, Init
<1>5. LocalOK(0) BY <1>1, <1>2, Constants DEF LocalOK, Init
<1>6. ItemOK BY DEF ItemOK, Init
<1> QED BY <1>3, <1>4, <1>5, <1>6, InitPlaces DEF StreamInv, PositionsOK

(* Starting the channel moves no position.                                 *)
LEMMA StartingKeepsPositions ==
  ASSUME Inv0, NEW P \in Nat, NEW F \in Nat, PositionsOK(P, F), Starting
  PROVE  PositionsOK(P, F)' /\ ItemOK'
<1>1. /\ UNCHANGED <<program, used, engine, filled, content, next_buffer,
                   local_buffer_count, ahead, local_buffer>>
      /\ thread' = thread \/ (thread = "none" /\ thread' = "waiting")
      /\ main \notin Freed /\ main' \notin {"writing", "written"}
  BY DEF Inv0, PlaceOK, Early, BeforeInstall, Freed, Starting, Dma_Clear, ClearAgain,
         Dma_Start, WriteAction, ReadBack, Polling, Poll, Reread,
         Setup, InstallISR, Adc_Start, Call, Goto, boardVars, statusVars,
         callVars
<1>2. /\ GivenBack' <=> GivenBack
      /\ Full' <=> Full
      /\ Recopied' <=> Recopied
      /\ Overwriting' <=> Overwriting
      /\ Copied(P)' = Copied(P)
  BY <1>1 DEF GivenBack, Full, Recopied, Overwriting, Copied
<1>3. RingOK(P, F)' BY <1>1, <1>2, RingKept DEF PositionsOK, RingOK
<1>4. AheadOK(P)' BY <1>1, <1>2, AheadKept DEF PositionsOK
<1>5. LocalOK(P)' BY <1>1, <1>2, LocalKept DEF PositionsOK
<1> QED BY <1>1, <1>3, <1>4, <1>5 DEF PositionsOK, ItemOK

(* Main writes one more buffer: what it is behind is one less.             *)
LEMMA WrittenKeepsAhead ==
  ASSUME Inv0, NEW P \in Nat, AheadOK(P), Written
  PROVE  AheadOK(P)'
<1>1. /\ local_buffer_count \in Nat /\ local_buffer_count' = Label(local_buffer_count + 1)
      /\ ahead \in Nat /\ ahead > 0
  BY Constants, Ranges DEF Inv0, TypeInv, PlaceOK, Writes, Written, Goto, Label, Number
<1>2. Copied(P)' = Copied(P) /\ Copied(P) \in Nat
  BY ThreadKept DEF Written, InLoop, Copied
<1> DEFINE c == local_buffer_count + 1
<1>3. c \in Nat /\ local_buffer_count + ahead = c + (ahead - 1) BY <1>1
<1> HIDE DEF c
<1>4. Label(c) \in Number /\ Label(c) \in Nat BY <1>3, LabelIs, Constants DEF Number
<1>5. Label(Label(c)) = Label(c) BY <1>4, LabelOfNumber
<1>6. \A k \in Nat : Label(Label(c) + k) = Label(c + k)
  <2> SUFFICES ASSUME NEW k \in Nat PROVE Label(Label(c) + k) = Label(c + k) OBVIOUS
  <2> DEFINE d == Label(c)
  <2>1. d \in Nat /\ Label(d) = Label(c) BY <1>4, <1>5
  <2> HIDE DEF d
  <2>2. d + k \in Nat /\ c + k \in Nat /\ d - c = (d + k) - (c + k) BY <1>3, <2>1
  <2>3. Label(d + k) = Label(c + k) BY <1>3, <2>1, <2>2, LabelMoves
  <2> QED BY <2>3 DEF d
<1>7. CASE ahead' = ahead - 1
  <2>1. ahead' \in Nat BY <1>1, <1>7
  <2>2. Label(local_buffer_count' + ahead') = Label(local_buffer_count + ahead)
    BY <1>1, <1>3, <1>6, <1>7, <2>1 DEF c
  <2> QED BY <1>1, <1>2, <1>7, <2>2, Constants DEF AheadOK
<1>8. CASE ahead = NumBuffers + 2 /\ ahead' = MaxAhead
  <2>1. /\ ahead' \in Nat /\ c + ahead' = (local_buffer_count + ahead) + Numbers
        /\ local_buffer_count + ahead \in Nat
    BY <1>1, <1>3, <1>8, Constants DEF MaxAhead
  <2>2. Label(local_buffer_count' + ahead') = Label((local_buffer_count + ahead) + Numbers)
    BY <1>1, <1>6, <2>1 DEF c
  <2>3. Label(local_buffer_count' + ahead') = Label(local_buffer_count + ahead)
    BY <2>1, <2>2, LabelComesBack
  <2> QED BY <1>1, <1>2, <1>8, <2>3, Constants DEF AheadOK, MaxAhead
<1> QED BY <1>7, <1>8 DEF Written

(* What main finds in the local buffers, unless the ISR is a turn ahead.   *)
LEMMA EntryIsNext ==
  ASSUME Inv0, NEW P \in Nat, NEW F \in Nat, PositionsOK(P, F),
         main \notin Freed, 0 < ahead, ahead < NumBuffers
  PROVE  Entry = local_buffer_count
<1>1. /\ local_buffer_count \in Number /\ local_buffer_count \in Nat
      /\ ahead \in Nat /\ Copied(P) \in Nat
  BY Constants, Ranges DEF Inv0, TypeInv, Number, Copied
<1>2. /\ Label(local_buffer_count + ahead) = Label(Copied(P)) /\ ahead <= Copied(P)
  BY <1>1, Constants DEF PositionsOK, AheadOK
<1> DEFINE y == Copied(P) - ahead
<1>3. y \in Nat /\ local_buffer_count - y = (local_buffer_count + ahead) - Copied(P)
  BY <1>1, <1>2
<1> HIDE DEF y
<1>4. Label(local_buffer_count) = Label(y)
  <2>1. PICK u \in Nat, v \in Nat : u = local_buffer_count + ahead /\ v = Copied(P) BY <1>1
  <2>2. Cong(u, v, Numbers) BY <1>2, <2>1, SameLabel
  <2>3. Cong(local_buffer_count, y, Numbers) BY <1>3, <2>1, <2>2 DEF Cong
  <2> QED BY <1>1, <1>3, <2>3, SameLabel
<1>5. local_buffer_count = Label(y) BY <1>1, <1>4, LabelOfNumber
<1>6. Slot(local_buffer_count) = Slot(y) BY <1>3, <1>5, LabelIs
<1>7. y < Copied(P) /\ Copied(P) < y + NumBuffers BY <1>1, <1>2, Constants DEF y
<1>8. local_buffer[Slot(y)] = Label(y) BY <1>1, <1>3, <1>7, Constants DEF PositionsOK, LocalOK
<1> QED BY <1>5, <1>6, <1>8 DEF Entry, Slot

(* Main reads local buffers, and frees them at the end.                    *)
LEMMA MainKeepsPositions ==
  ASSUME StreamInv, NEW P \in Nat, NEW F \in Nat, PositionsOK(P, F),
         Looping \/ LoopEnds \/ Sigint_handler \/ Ending
  PROVE  PositionsOK(P, F)' /\ ItemOK'
<1>1. /\ UNCHANGED <<program, used, engine, filled, content, next_buffer>>
      /\ thread' = thread \/ (thread = "waiting" /\ thread' = "exited")
      /\ main' \notin Freed => main \notin Freed /\ local_buffer' = local_buffer
  BY DEF Freed, Looping, LoopEnds, Sigint_handler, Ending, LoopTest, Wait, LoopTestAll, Write,
         Written, InLoop, Goto,
         DisableInterrupts, FreeBuffers, RemoveISR, boardVars, statusVars, callVars, mainVars
<1>2. /\ GivenBack' <=> GivenBack
      /\ Full' <=> Full
      /\ Recopied' <=> Recopied
      /\ Overwriting' <=> Overwriting
      /\ Copied(P)' = Copied(P)
  BY <1>1 DEF GivenBack, Full, Recopied, Overwriting, Copied
<1>3. RingOK(P, F)' BY <1>1, <1>2, RingKept DEF PositionsOK, RingOK
<1>4. AheadOK(P)'
  <2>1. CASE Written BY <2>1, WrittenKeepsAhead DEF StreamInv, PositionsOK
  <2>2. CASE ~Written
    <3>1. UNCHANGED <<local_buffer_count, ahead>>
      BY <2>2 DEF Looping, LoopEnds, Sigint_handler, Ending, LoopTest, Wait, LoopTestAll,
         Write, InLoop, Goto, DisableInterrupts, FreeBuffers, RemoveISR, mainVars
    <3> QED BY <1>2, <3>1, AheadKept DEF PositionsOK
  <2> QED BY <2>1, <2>2
<1>5. LocalOK(P)' BY <1>1, <1>2, LocalKept DEF PositionsOK
<1>6. ItemOK'
  <2>1. CASE Write
    <3>1. /\ main \in {"write", "writing"} /\ UNCHANGED <<local_buffer_count, ahead>>
          /\ main = "write" => item' = Entry
          /\ main = "writing" => item' = IF Entry = item THEN item ELSE Torn
      BY <2>1 DEF Write, Goto
    <3>2. 0 < ahead /\ main \notin Freed BY <3>1 DEF StreamInv, Inv0, PlaceOK, Writes, Freed
    <3>3. ahead < NumBuffers => Entry = local_buffer_count BY <3>2, EntryIsNext DEF StreamInv
    <3> QED BY <3>1, <3>3 DEF ItemOK, StreamInv
  <2>2. CASE Sigint_handler BY <2>2 DEF Sigint_handler, mainVars, ItemOK, StreamInv
  <2>3. CASE ~Write /\ ~Sigint_handler
    <3>1. main' \notin {"writing", "written"}
      BY <2>3 DEF Looping, LoopEnds, Ending, LoopTest, Wait, LoopTestAll, Written, Goto,
           DisableInterrupts, FreeBuffers, RemoveISR
    <3> QED BY <3>1 DEF ItemOK
  <2> QED BY <2>1, <2>2, <2>3
<1> QED BY <1>3, <1>4, <1>5, <1>6 DEF PositionsOK

(* The ISR counts one more buffer.                                         *)
LEMMA CountedAhead ==
  ASSUME Inv0, NEW P \in Nat, AheadOK(P), Counted, UNCHANGED local_buffer_count,
         Copied(P) = P, NEW Q \in Nat, Copied(Q)' = P + 1
  PROVE  AheadOK(Q)'
<1>1. /\ local_buffer_count \in Nat /\ ahead \in 0 .. MaxAhead
      /\ MaxAhead = NumBuffers + 1 + Numbers
  BY Constants, Ranges DEF Inv0, TypeInv, Number
<1> DEFINE x == local_buffer_count + ahead
           y == local_buffer_count + ahead'
<1>2. x \in Nat /\ y \in Nat /\ Label(x) = Label(P)
  BY <1>1, Constants, Ranges DEF Counted, AheadOK
<1>3. Label(x + 1) = Label(P + 1)
  <2> HIDE DEF x
  <2>1. PICK u \in Nat, v \in Nat : u = x + 1 /\ v = P + 1 BY <1>2
  <2>2. Cong(x, P, Numbers) BY <1>2, SameLabel
  <2>3. Cong(u, v, Numbers) BY <1>2, <2>1, <2>2 DEF Cong
  <2> QED BY <2>1, <2>3, SameLabel
<1>4. Label(y) = Label(x + 1)
  <2>1. CASE ahead = MaxAhead
    <3>1. x + 1 = y + Numbers BY <1>1, <2>1, Constants DEF Counted
    <3> HIDE DEF x, y
    <3> QED BY <1>2, <3>1, LabelComesBack
  <2>2. CASE ahead # MaxAhead BY <1>1, <2>2 DEF Counted
  <2> QED BY <2>1, <2>2
<1>5. Label(local_buffer_count' + ahead') = Label(Copied(Q)') BY <1>3, <1>4
<1>6. /\ ahead' <= NumBuffers => ahead' <= P + 1
      /\ ahead' > NumBuffers => NumBuffers <= P + 1
  BY <1>1, Constants DEF Counted, AheadOK
<1> QED BY <1>5, <1>6 DEF AheadOK

(* The ISR copies the oldest used buffer over the local copy of a turn     *)
(* before.                                                                 *)
LEMMA ReadKeepsPositions ==
  ASSUME Inv0, NEW P \in Nat, NEW F \in Nat, PositionsOK(P, F), Dma_Read
  PROVE  PositionsOK(P, F)'
<1>1. /\ UNCHANGED <<program, used, engine, filled, content, next_buffer, main, local_buffer_count>>
      /\ thread \in {"copy", "copied"} /\ Full
      /\ ~GivenBack /\ ~GivenBack' /\ ~Recopied /\ Copied(P) = P
      /\ program \in {"continuous", "all"}
  BY DEF Dma_Read, Isr, boardVars, callVars, GivenBack, Full, Recopied, Copied, Inv0, TypeInv
<1>2. RingOK(P, F)' BY <1>1, RingKept DEF PositionsOK, RingOK
<1>3. /\ next_buffer = Slot(P) /\ next_buffer \in Buffer /\ content[next_buffer] = Label(P)
      /\ local_buffer \in [Buffer -> Data]
      /\ \A y \in Nat : Slot(y) \in Buffer
  BY <1>1, SlotIs DEF PositionsOK, RingOK, Inv0, TypeInv, Emptied
<1>4. \A y \in Nat : y < P /\ P < y + NumBuffers => Slot(y) # Slot(P) BY SlotsDiffer
<1>5. CASE thread = "copy"
  <2>1. /\ local_buffer' = [local_buffer EXCEPT ![next_buffer] = Torn]
        /\ UNCHANGED ahead /\ thread' = "copied"
    BY <1>5 DEF Dma_Read, Isr
  <2>2. Copied(P)' = P /\ ~Recopied' /\ Overwriting' BY <2>1 DEF Copied, Recopied, Overwriting
  <2>3. AheadOK(P)' BY <1>1, <2>1, <2>2, AheadKept DEF PositionsOK
  <2>4. LocalOK(P)'
    BY <1>1, <1>3, <1>4, <1>5, <2>1, <2>2, Constants DEF PositionsOK, LocalOK
  <2> QED BY <1>2, <2>3, <2>4 DEF PositionsOK
<1>6. CASE thread = "copied"
  <2>1. /\ local_buffer' = [local_buffer EXCEPT ![next_buffer] = Label(P)]
        /\ thread' = "reset" /\ Overwriting
        /\ IF program = "continuous" THEN Counted ELSE UNCHANGED ahead
    BY <1>3, <1>6 DEF Dma_Read, Isr, Overwriting, Counted
  <2>2. CASE program = "continuous"
    <3>1. Copied(P)' = P + 1 /\ ~Recopied' /\ ~Overwriting'
      BY <1>1, <2>1, <2>2 DEF Copied, Recopied, Overwriting
    <3>2. AheadOK(P)'
      <4>1. Counted /\ AheadOK(P) BY <2>1, <2>2 DEF PositionsOK
      <4> QED BY <1>1, <3>1, <4>1, CountedAhead
    <3>3. LocalOK(P)'
      BY <1>1, <1>3, <1>4, <2>1, <3>1, Constants DEF PositionsOK, LocalOK
    <3> QED BY <1>2, <3>2, <3>3 DEF PositionsOK
  <2>3. CASE program = "all"
    <3>1. Copied(P)' = P /\ Recopied' /\ Overwriting' /\ UNCHANGED ahead
      BY <1>1, <2>1, <2>3 DEF Copied, Recopied, Overwriting
    <3>2. AheadOK(P)' BY <1>1, <3>1, AheadKept DEF PositionsOK
    <3>3. LocalOK(P)'
      BY <1>1, <1>3, <1>4, <2>1, <3>1, Constants DEF PositionsOK, LocalOK
    <3> QED BY <1>2, <3>2, <3>3 DEF PositionsOK
  <2> QED BY <1>1, <2>2, <2>3
<1> QED BY <1>1, <1>5, <1>6

(* A buffer is given back: it was the oldest that was in use.              *)
LEMMA ResetKeepsPositions ==
  ASSUME Inv0, NEW P \in Nat, NEW F \in Nat, PositionsOK(P, F), Dma_Reset_Buffer
  PROVE  \E Q \in Nat : PositionsOK(Q, F)'
<1>1. /\ UNCHANGED <<program, engine, filled, content, main, ahead,
                   local_buffer_count, local_buffer>>
      /\ used' = used \ {Slot(P)} /\ next_buffer = Slot(P)
      /\ Full /\ P < F /\ F <= P + NumBuffers /\ Emptied(P) = P /\ thread = "reset"
      /\ program \in {"continuous", "all"}
  BY DEF Dma_Reset_Buffer, Isr, boardVars, callVars, Full, GivenBack, Emptied,
         PositionsOK, RingOK, Inv0, TypeInv
<1>2. \A x \in Nat : P < x /\ x < F => Slot(x) # Slot(P) BY <1>1, SlotsDiffer, Constants
<1>3. /\ \A x \in Nat : P + 1 <= x /\ x < F => Slot(x) \in used' /\ content'[Slot(x)] = Label(x)
      /\ \A b \in used' : \E x \in Nat : P + 1 <= x /\ x < F /\ b = Slot(x)
  <2>1. \A x \in Nat : P + 1 <= x /\ x < F => Slot(x) \in used' /\ content'[Slot(x)] = Label(x)
    BY <1>1, <1>2 DEF PositionsOK, RingOK
  <2>2. ASSUME NEW b \in used' PROVE \E x \in Nat : P + 1 <= x /\ x < F /\ b = Slot(x)
    <3>1. PICK x \in Nat : P <= x /\ x < F /\ b = Slot(x)
      BY <1>1, <2>2 DEF PositionsOK, RingOK
    <3>2. x # P BY <1>1, <2>2, <3>1
    <3> QED BY <3>1, <3>2
  <2> QED BY <2>1, <2>2
<1>4. CASE program = "continuous"
  <2> DEFINE Q == P + 1
  <2>1. /\ next_buffer' = Slot(Q) /\ thread' = "check" /\ Q \in Nat
        /\ Copied(P) = Q /\ Copied(Q)' = Q /\ Emptied(Q)' = Q
        /\ ~Full' /\ ~Recopied' /\ ~Overwriting'
    BY <1>1, <1>4, SlotIs
       DEF Dma_Reset_Buffer, Isr, Copied, Emptied, GivenBack, Full, Recopied, Overwriting
  <2>2. RingOK(Q, F)'
    <3>1. /\ engine' = Slot(F) /\ filled' = Label(F) /\ Q <= F /\ F <= Q + NumBuffers
      BY <1>1, Constants DEF RingOK, PositionsOK
    <3> HIDE DEF Q
    <3> QED BY <1>1, <1>3, <2>1, <3>1 DEF RingOK, Q
  <2>3. AheadOK(Q)' BY <1>1, <2>1 DEF AheadOK, PositionsOK
  <2>4. ~Overwriting BY <1>1, <1>4 DEF Overwriting, Recopied
  <2>5. LocalOK(Q)' BY <1>1, <2>1, <2>4 DEF LocalOK, PositionsOK
  <2> QED BY <2>1, <2>2, <2>3, <2>5 DEF PositionsOK
<1>5. CASE program = "all"
  <2>1. /\ next_buffer' = Slot(P) /\ thread' = "clear"
        /\ Copied(P) = P /\ Copied(P)' = P /\ Emptied(P)' = P + 1
        /\ ~Full' /\ Recopied /\ Recopied' /\ Overwriting /\ Overwriting'
    BY <1>1, <1>5
       DEF Dma_Reset_Buffer, Isr, Copied, Emptied, GivenBack, Full, Recopied, Overwriting
  <2>2. RingOK(P, F)'
    <3>1. /\ engine' = Slot(F) /\ filled' = Label(F) /\ P + 1 <= F /\ F <= P + 1 + NumBuffers
      BY <1>1, Constants DEF RingOK, PositionsOK
    <3> QED BY <1>1, <1>3, <2>1, <3>1 DEF RingOK
  <2>3. AheadOK(P)' BY <1>1, <2>1 DEF AheadOK, PositionsOK
  <2>4. LocalOK(P)' BY <1>1, <2>1 DEF LocalOK, PositionsOK
  <2> QED BY <2>2, <2>3, <2>4 DEF PositionsOK
<1> QED BY <1>1, <1>4, <1>5

(* The second program counts a buffer after it was given back.             *)
LEMMA CountAllKeepsPositions ==
  ASSUME Inv0, NEW P \in Nat, NEW F \in Nat, PositionsOK(P, F), CountAll
  PROVE  PositionsOK(P + 1, F)'
<1> DEFINE Q == P + 1
<1>1. /\ UNCHANGED <<program, engine, filled, content, used, main, local_buffer_count,
                   local_buffer>>
      /\ program = "all" /\ thread = "count" /\ thread' = "acknowledge" /\ Counted
      /\ next_buffer' = Slot(Q) /\ Q \in Nat
  BY SlotIs DEF CountAll, Isr, boardVars, callVars, PositionsOK, RingOK, Inv0, PlaceOK
<1>2. /\ Copied(P) = P /\ Copied(Q)' = Q /\ Emptied(P) = Q /\ Emptied(Q)' = Q
      /\ ~Full' /\ Recopied /\ Overwriting /\ ~Recopied' /\ ~Overwriting'
  BY <1>1 DEF Copied, Emptied, GivenBack, Full, Recopied, Overwriting
<1>3. RingOK(Q, F)' BY <1>1, <1>2 DEF RingOK, PositionsOK
<1>4. AheadOK(Q)' BY <1>1, <1>2, CountedAhead DEF PositionsOK
<1>5. LocalOK(Q)'
  <2> SUFFICES ASSUME main' \notin Freed, NEW y \in Nat, y < Q, Q <= y + NumBuffers
               PROVE  local_buffer'[Slot(y)] = Label(y)
    BY <1>2 DEF LocalOK
  <2>1. CASE y = P BY <1>1, <1>2, <2>1 DEF LocalOK, PositionsOK
  <2>2. CASE y < P BY <1>1, <1>2, <2>2, Constants DEF LocalOK, PositionsOK
  <2> QED BY <2>1, <2>2
<1> QED BY <1>3, <1>4, <1>5 DEF PositionsOK

(* Every step of the ISR keeps the window, or moves P by one.              *)
LEMMA IsrKeepsPositions ==
  ASSUME StreamInv, NEW P \in Nat, NEW F \in Nat, PositionsOK(P, F), Fetch \/ InISR
  PROVE  \E Q \in Nat : PositionsOK(Q, F)'
<1>1. CASE Fetch \/ Find \/ CheckForError \/ CheckBufferUsed \/ Dma_Clear_Interrupt \/ Ack_Interrupt
  <2>1. /\ UNCHANGED <<program, engine, filled, content, used, next_buffer, ahead,
                     local_buffer_count, local_buffer>>
        /\ main' # main => main' = "gave_up"
    BY <1>1 DEF Fetch, Find, CheckForError, CheckBufferUsed, Dma_Clear_Interrupt, Ack_Interrupt,
                Isr, boardVars, callVars
  <2>2. \/ thread = "waiting" /\ thread' \in {"find", "check"}
        \/ thread = "find" /\ program = "continuous" /\ thread' \in {"errors", "waiting"}
        \/ thread = "errors" /\ program = "continuous" /\ thread' \in {"check", "waiting"}
        \/ thread = "errors" /\ program = "all" /\ thread' \in {"copy", "waiting"}
        \/ thread = "check" /\ next_buffer \notin used /\ program = "continuous" /\ thread' = "clear"
        \/ thread = "check" /\ next_buffer \notin used /\ program = "all" /\ thread' = "exited"
        \/ thread = "check" /\ next_buffer \in used /\ thread' \in {"copy", "errors"}
        \/ thread = "clear" /\ program = "continuous" /\ thread' = "acknowledge"
        \/ thread = "clear" /\ program = "all" /\ thread' = "count"
        \/ thread = "acknowledge" /\ thread' = "waiting"
    BY <1>1 DEF Fetch, Find, CheckForError, CheckBufferUsed, Dma_Clear_Interrupt, Ack_Interrupt,
                Isr, StreamInv, Inv0, TypeInv, PlaceOK
  <2>3. /\ GivenBack' <=> GivenBack
        /\ Recopied' <=> Recopied
        /\ Overwriting' <=> Overwriting
        /\ Copied(P)' = Copied(P)
    BY <2>1, <2>2 DEF GivenBack, Recopied, Overwriting, Copied
  <2>4. Full' => P < F
    <3>1. CASE thread = "check" /\ next_buffer \in used
      <4>1. Emptied(P) = P BY <3>1 DEF Emptied, GivenBack
      <4>2. PICK x \in Nat : P <= x /\ x < F BY <3>1, <4>1 DEF PositionsOK, RingOK
      <4> QED BY <4>2
    <3>2. CASE Full BY <3>2 DEF PositionsOK, RingOK
    <3>3. CASE ~Full /\ ~(thread = "check" /\ next_buffer \in used)
      BY <2>1, <2>2, <3>3 DEF Full
    <3> QED BY <3>1, <3>2, <3>3
  <2>5. RingOK(P, F)' BY <2>1, <2>3, <2>4, RingKept DEF PositionsOK
  <2>6. AheadOK(P)' BY <2>1, <2>3, AheadKept DEF PositionsOK
  <2>7. main' \notin Freed => main \notin Freed BY <2>1 DEF Freed
  <2>8. LocalOK(P)' BY <2>1, <2>3, <2>7, LocalKept DEF PositionsOK
  <2> QED BY <2>5, <2>6, <2>8 DEF PositionsOK
<1>2. CASE Dma_Read BY <1>2, ReadKeepsPositions DEF StreamInv
<1>3. CASE Dma_Reset_Buffer BY <1>3, ResetKeepsPositions DEF StreamInv
<1>4. CASE CountAll
  <2>1. P + 1 \in Nat /\ PositionsOK(P + 1, F)' BY <1>4, CountAllKeepsPositions DEF StreamInv
  <2> QED BY <2>1
<1> QED BY <1>1, <1>2, <1>3, <1>4 DEF InISR

(* The engine fills a buffer that is not used: the window is not full      *)
(* then.                                                                   *)
LEMMA FillKeepsPositions ==
  ASSUME Inv0, NEW P \in Nat, NEW F \in Nat, PositionsOK(P, F), Fill
  PROVE  \E G \in Nat : PositionsOK(P, G)'
<1>1. UNCHANGED <<program, thread, next_buffer, main, ahead, local_buffer_count, local_buffer>>
  BY DEF Fill, callVars, mainVars
<1>2. /\ GivenBack' <=> GivenBack
      /\ Full' <=> Full
      /\ Recopied' <=> Recopied
      /\ Overwriting' <=> Overwriting
      /\ Copied(P)' = Copied(P) /\ Emptied(P)' = Emptied(P)
  BY <1>1, ThreadKept
<1>3. AheadOK(P)' BY <1>1, <1>2, AheadKept DEF PositionsOK
<1>4. LocalOK(P)' BY <1>1, <1>2, LocalKept DEF PositionsOK
<1>5. CASE engine \in used
  <2>1. UNCHANGED <<used, engine, filled, content>> BY <1>5 DEF Fill
  <2>2. RingOK(P, F)' BY <1>1, <1>2, <2>1, RingKept DEF PositionsOK, RingOK
  <2> QED BY <1>3, <1>4, <2>2 DEF PositionsOK
<1>6. CASE engine \notin used
  <2> DEFINE R == Emptied(P)
             G == F + 1
  <2>1. R \in Nat /\ G \in Nat BY DEF Emptied
  <2>2. /\ engine = Slot(F) /\ filled = Label(F) /\ next_buffer = Slot(P)
        /\ R <= F /\ F <= R + NumBuffers
        /\ \A x \in Nat : R <= x /\ x < F => Slot(x) \in used /\ content[Slot(x)] = Label(x)
        /\ \A b \in used : \E x \in Nat : R <= x /\ x < F /\ b = Slot(x)
        /\ Full => P < F
    BY DEF PositionsOK, RingOK
  <2>3. /\ used' = used \cup {Slot(F)} /\ content' = [content EXCEPT ![Slot(F)] = Label(F)]
        /\ engine' = Slot(G) /\ filled' = Label(G)
        /\ content \in [Buffer -> Data] /\ Slot(F) \in Buffer
    BY <1>6, <2>2, SlotIs, LabelIs DEF Fill, Label, Inv0, TypeInv
  <2> HIDE DEF R
  <2>4. F < R + NumBuffers
    <3> SUFFICES ASSUME F = R + NumBuffers PROVE FALSE BY <2>1, <2>2, Constants
    <3>1. Slot(F) = Slot(R) BY <2>1, SlotComesBack
    <3>2. Slot(R) \in used BY <2>1, <2>2, Constants
    <3> QED BY <1>6, <2>2, <3>1, <3>2
  <2>5. \A x \in Nat : R <= x /\ x < F => Slot(x) # Slot(F)
    BY <2>1, <2>4, SlotsDiffer, Constants
  <2>6. \A x \in Nat : R <= x /\ x < G => Slot(x) \in used' /\ content'[Slot(x)] = Label(x)
    <3> SUFFICES ASSUME NEW x \in Nat, R <= x, x < G
                 PROVE  Slot(x) \in used' /\ content'[Slot(x)] = Label(x)
      OBVIOUS
    <3>1. CASE x = F BY <2>3, <3>1
    <3>2. CASE x < F
      <4>1. Slot(x) \in Buffer BY SlotIs
      <4> QED BY <2>2, <2>3, <2>5, <3>2, <4>1
    <3> QED BY <3>1, <3>2
  <2>7. \A b \in used' : \E x \in Nat : R <= x /\ x < G /\ b = Slot(x)
    <3> SUFFICES ASSUME NEW b \in used' PROVE \E x \in Nat : R <= x /\ x < G /\ b = Slot(x)
      OBVIOUS
    <3>1. CASE b = Slot(F) BY <2>1, <2>2, <3>1
    <3>2. CASE b \in used
      <4>1. PICK x \in Nat : R <= x /\ x < F /\ b = Slot(x) BY <2>2, <3>2
      <4> QED BY <4>1
    <3> QED BY <2>3, <3>1, <3>2
  <2>8. R <= G /\ G <= R + NumBuffers /\ (Full => P < G) BY <2>1, <2>2, <2>4, Constants
  <2>9. Emptied(P)' = R BY <1>2 DEF R
  <2> HIDE DEF G
  <2>10. RingOK(P, G)' BY <1>1, <1>2, <2>2, <2>3, <2>6, <2>7, <2>8, <2>9 DEF RingOK
  <2> QED BY <1>3, <1>4, <2>1, <2>10 DEF PositionsOK
<1> QED BY <1>5, <1>6

(* The board moves only F.                                                 *)
LEMMA BoardKeepsPositions ==
  ASSUME Inv0, NEW P \in Nat, NEW F \in Nat, PositionsOK(P, F), Board
  PROVE  \E G \in Nat : PositionsOK(P, G)'
<1>1. CASE TakeAction
  <2>1. UNCHANGED <<program, thread, used, engine, filled, content, next_buffer, main, ahead,
                    local_buffer_count, local_buffer>>
    BY <1>1 DEF TakeAction, statusVars, mainVars
  <2>2. /\ GivenBack' <=> GivenBack
        /\ Full' <=> Full
        /\ Recopied' <=> Recopied
        /\ Overwriting' <=> Overwriting
        /\ Copied(P)' = Copied(P)
    BY <2>1, ThreadKept
  <2>3. RingOK(P, F)' BY <2>1, <2>2, RingKept DEF PositionsOK, RingOK
  <2>4. AheadOK(P)' BY <2>1, <2>2, AheadKept DEF PositionsOK
  <2>5. LocalOK(P)' BY <2>1, <2>2, LocalKept DEF PositionsOK
  <2> QED BY <2>3, <2>4, <2>5 DEF PositionsOK
<1>2. CASE Fill BY <1>2, FillKeepsPositions
<1> QED BY <1>1, <1>2 DEF Board

(* The invariant is inductive.                                             *)
LEMMA StreamInvKept == StreamInv /\ [Next]_vars => StreamInv'
<1> SUFFICES ASSUME StreamInv, [Next]_vars PROVE StreamInv' OBVIOUS
<1>0. Inv0 BY DEF StreamInv
<1>1. PICK P \in Nat, F \in Nat : PositionsOK(P, F) BY DEF StreamInv
<1>2. CASE Starting
  BY <1>0, <1>1, <1>2, StartingKeepsPlaces, StartingKeepsPositions DEF StreamInv
<1>3. CASE Looping \/ LoopEnds \/ Sigint_handler \/ Ending
  BY <1>0, <1>1, <1>3, MainKeepsPlaces, MainKeepsPositions DEF StreamInv
<1>4. CASE Fetch \/ InISR
  <2>1. Inv0' BY <1>0, <1>4, IsrKeepsPlaces
  <2>2. \E Q \in Nat : PositionsOK(Q, F)' BY <1>1, <1>4, IsrKeepsPositions
  <2>3. ItemOK'
    <3>1. /\ UNCHANGED <<item, local_buffer_count>>
          /\ main' = main \/ main' = "gave_up"
          /\ ahead' = ahead \/ Counted
      BY <1>4 DEF InISR, Fetch, Find, CheckForError, CheckBufferUsed, Dma_Read, Dma_Reset_Buffer,
                  Dma_Clear_Interrupt, CountAll, Ack_Interrupt, Isr
    <3>2. ahead \in 0 .. MaxAhead /\ MaxAhead \in Nat BY <1>0, Ranges DEF Inv0, TypeInv
    <3>3. ahead' < NumBuffers => ahead < NumBuffers BY <3>1, <3>2, Constants DEF Counted
    <3> QED BY <3>1, <3>3 DEF ItemOK, StreamInv
  <2> QED BY <2>1, <2>2, <2>3 DEF StreamInv
<1>5. CASE Board
  <2>1. Inv0' BY <1>0, <1>5, BoardKeepsPlaces
  <2>2. \E G \in Nat : PositionsOK(P, G)' BY <1>0, <1>1, <1>5, BoardKeepsPositions
  <2>3. ItemOK' BY <1>5 DEF Board, TakeAction, Fill, mainVars, ItemOK, StreamInv
  <2> QED BY <2>1, <2>2, <2>3 DEF StreamInv
<1>6. CASE UNCHANGED vars
  <2>1. Inv0'
    BY <1>0, <1>6 DEF Inv0, TypeInv, ActionOK, PlaceOK, vars, boardVars, statusVars, callVars,
                    mainVars
  <2>2. ItemOK' BY <1>6 DEF StreamInv, ItemOK, vars, mainVars
  <2>3. PositionsOK(P, F)'
    BY <1>1, <1>6 DEF PositionsOK, RingOK, AheadOK, LocalOK, Emptied, Copied, GivenBack, Full,
                      Recopied, Overwriting, vars, boardVars, statusVars, callVars, mainVars
  <2> QED BY <2>1, <2>2, <2>3 DEF StreamInv
<1> QED BY <1>2, <1>3, <1>4, <1>5, <1>6 DEF Next

LEMMA StreamInvHolds == Spec => []StreamInv
BY InitPositions, StreamInvKept, PTL DEF Spec

(* The positions of the engine, the ISR and main keep their types; the     *)
(* engine fills the buffer that the number of the stream gives, and a      *)
(* channel that was started runs the action it was given.                  *)
THEOREM StreamTypeCorrect == Spec => []StreamTypeOK
<1>1. StreamInv => StreamTypeOK
  <2> SUFFICES ASSUME StreamInv PROVE StreamTypeOK OBVIOUS
  <2>1. PICK P \in Nat, F \in Nat : RingOK(P, F) BY DEF StreamInv, PositionsOK
  <2>2. filled % NumBuffers = engine BY <2>1, LabelIs DEF RingOK, Slot
  <2>3. \A b \in Buffer : {content[b], local_buffer[b]} \subseteq Number \cup {Torn}
    BY DEF StreamInv, Inv0, TypeInv, Data
  <2> QED BY <2>2, <2>3 DEF StreamInv, Inv0, TypeInv, ActionOK, StreamTypeOK
<1> QED BY <1>1, StreamInvHolds, PTL

(* What main writes is the next buffer of the stream, whole, while the ISR *)
(* is less than a turn ahead.                                              *)
THEOREM WrittenInOrder == Spec => []DeliveredInOrder
<1>1. StreamInv => DeliveredInOrder BY DEF StreamInv, ItemOK, DeliveredInOrder
<1> QED BY <1>1, StreamInvHolds, PTL
===============================================================================
