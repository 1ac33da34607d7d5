# Formal models of the DM35425 driver and library

TLA+ models, TLC configurations and TLAPS proofs for the Linux software of the
RTD DM35425 data acquisition boards: the kernel driver
(`driver/rtd-dm35425.c`) and the user-space library (`lib/`).  Paths below are
relative to the repository's root (`src/` in `PROJECT.json`).

Every definition is translated from the code.  `PROJECT.json` maps each one to
the lines it stands for, lists the runs, the mutants that show that each
property can fail, the hazards of the code and the theorems.

    tlc -workers 2 -config MCDriverIrq.cfg MCDriverIrq     # a run
    tlapm DriverIrqProofs.tla                              # the proofs

## 1. The system

    user program ── ISR ◄──────────────┐
       │ InstallISR / RemoveISR        │ calls
       ▼                               │
    library  (board_access, os, dma, adc, dac, adio, gbc, multiboard)
       │ open, ioctl, select, close
       ▼
    driver   file operations ──device_lock── interrupt handler
       │ region reads and writes               ▲ shared interrupt line
       ▼                                       │
    board    function blocks (FB), status registers, DMA engines

| component | state it keeps | operations | properties that make it correct |
|---|---|---|---|
| interrupt queue of the driver | 256 slots, insertion and removal marker, count, count of missed | `int_queue_add`, `dequeue_interrupt`, reset in `init_device_desc` | bounded first-in first-out, counters agree |
| interrupt path of the driver | the queue, `reference_count`, `device_lock`; the board's two 64-bit status registers | `interrupt_handler`, `open`, `release`, INTERRUPT_GET, register access | one user at a time, no interrupt lost for good, nobody inherits the previous user's interrupts, overflow bounded |
| library interrupt thread | `handle->isr`, `handle->pid`; in the driver `remove_isr_flag` | `InstallISR`, `RemoveISR`, `WaitForInterrupt`; `poll`, WAKEUP | no call after removal returned, removal returns, interrupts reach the ISR |
| DMA buffers of the driver | list of descriptors with bus, kernel and user addresses | INITIALIZE, READ, WRITE; `release` frees all | the board never holds the address of freed memory; a buffer is allocated once |
| region access | none | `validate_pci_access`, read, write, read-modify-write | accesses stay inside the region, the modify changes masked bits only |
| load, probe, unload | descriptors, device table, class, major number, regions, IRQ | `load`, `probe_devices`, `unload` | whatever failed, everything acquired is released, and once (save the class, section 5) |
| board access library | descriptor, file, ISR | `Board_Open`, `Board_Close`, ioctl wrappers | descriptor outlives its users |
| multi-board acquisition | `done`, `isr`, per-board counts, buffers, thread | `InstallISR`, `RemoveISR`, `Destroy`, the collecting thread | one ISR call per complete set of buffers; removal returns |
| DMA library | none but the channel registers | setup, start, stop, pause, clear, buffer status | the channel reaches the asked state or an error is returned |
| ADC, DAC, ADIO libraries | none but FB registers | modes, clocks, triggers, channels, interrupts, conversions, thresholds | accepted arguments stay inside the region; getters answer what setters set; what is computed fits what the board does |
| external clocking, GBC, utility libraries | none | setters, acknowledgement, FB directory | bit edits leave the other bits |
| examples | local buffers, their counts, `exit_program` | main loop and ISR of the continuous acquisition programs | the file gets the stream in order; a filled buffer is collected |

What is hard:

* **Two contexts and one lock.**  The handler and the ioctls hold
  `device_lock`; `open` clears the descriptor after it has released it
  (`driver/rtd-dm35425.c:2436`) and `release` resets the board without it
  (`:2461`).  The line is shared, so the handler may run on another CPU at any
  of these points though the board is silent.
* **Level information in a queue.**  The handler turns status bits into queue
  entries and clears them with one mask for both registers.  A bit that was
  raised in between is wiped, and an entry that found the queue full is
  dropped; only the end-of-interrupt write of the user brings them back.
* **Two user threads and a pointer.**  `handle->isr` is set and cleared by the
  application and tested and called by the library's thread.
* **Partial failure.**  Copies to user space, thread creation, allocation in
  the middle of a DMA buffer's set-up, every step of the probe; the step that
  fails releases everything, and its caller releases again.
* **A list without a lock.**  DMA_INITIALIZE searches the list of buffers,
  allocates, tells the board and inserts, with nothing to keep another thread
  out; closing frees the memory that an engine may still be filling.
* **Addresses that are computed.**  The library adds up offsets from the
  board's own table, a channel and a buffer number, and edits bits of registers
  that several functions and threads share.
* **A stream through a few buffers.**  Engine, interrupt thread and main thread
  each have their own position in it, and agree only by interrupts.
* **Two indices that must agree.**  The collecting thread of the multi-board
  code and each board's DMA engine advance through a ring of buffers on their
  own, kept together only by interrupts that merge, repeat and are dropped.
* **Two joiners.**  A blocking `InstallISR`, `RemoveISR` and the error path of
  `InstallISR` all join the collecting thread.
* **Limits.**  A queue of 256, a count of missed interrupts that only `open`
  resets, wrap-around markers.

The list of hazards with their lines and the properties that answer them is in
`PROJECT.json`.

## 2. The modules

| module | stands for | extends / composes |
|---|---|---|
| `InterruptFifo` | abstract: a bounded queue that counts what it drops | |
| `IntQueue` | the driver's ring | refines `InterruptFifo` |
| `DriverIrq` | board, handler, file operations, user service code | extends `IntQueue`; refines `InterruptFifo` with handler, ioctl and open interleaved |
| `OsIsr` | the library's thread against application and driver | sees of the driver the length of the queue and the wakeup flag |
| `Multiboard` | the thread that collects from several boards, its installer and its remover, the boards' DMA engines | sees of each board's driver the length of the queue and the wakeup flag |
| `DriverLoad` | loading, probing, registering, releasing, unloading | |
| `DmaTable` | abstract: each buffer has at most one piece of memory, no piece two owners | |
| `DmaBuffers` | a board from opening to closing with its DMA memory | extends `DriverLoad` with the file's life; refines `DmaTable` |
| `DmaStream` | starting a channel, the ISR and the main loop of the continuous programs | channel, engine, queue and both threads in one |
| `Registers` | register layout and codes of the headers | |
| `RegionAccess` | the driver's validated reads, writes and modifications | |
| `GbcLibrary`, `AdcLibrary`, `DacLibrary`, `AdioLibrary`, `ExtClocking`, `DmaLibrary` | the library's functions: what each refuses and which accesses it makes | extend each other and `RegionAccess`, `Registers` |
| `RegisterCalls` | an application that calls them from two threads | the six libraries, `RegionAccess` and the board's registers |
| `MCIntQueue`, `MCDriverIrq`, `MCOsIsr`, `MCMultiboard`, `MCRegisterCalls`, `MCDmaBuffers`, `MCDmaStream` | instances for TLC | |
| `DriverIrqProofs`, `OsIsrProofs`, `MultiboardProofs`, `RegisterCallsProofs`, `FieldsProofs`, `DriverLoadProofs`, `DmaBuffersProofs`, `DmaStreamProofs` | theorems | `DriverIrqProofs` is about `IntQueue` as well, `FieldsProofs` extends `RegisterCallsProofs` and `DmaBuffersProofs` extends `DriverLoadProofs`, and each reuses its lemmas |

### IntQueue

One action per function, since the functions are called with the lock held.
An entry is the queued `int`: an FB number with the sign bit for DMA, in
`DriverIrq` the record `[fb, dma]`.  The ring starts zeroed (`kzalloc`), and a
removal leaves the slot's contents, as in the code.  `MissedBound` caps
`int_queue_missed` in this module's own specification only.

### DriverIrq

The handler holds the lock from its first test to its return (`isr_pc` other
than "idle"), but each register access and each queued entry is its own step,
because the board, the clearing of `open` and the reset of `release` do not
take the lock.  What the code does under the lock is one action with the guard
`LockFree`.

| code | actions |
|---|---|
| `dm35425_interrupt_handler` (`:1676`) | `IsrEnter`, `IsrCheck`, `IsrReset` |
| `dm35425_process_interrupt_status` (`:1482`) | `IsrReadIrq`, `IsrReadDma`, `IsrQueue`, `IsrScanned`, `IsrClearIrq`, `IsrClearDma`, once per 32-bit word |
| `dm35425_open` (`:2400`), `init_device_desc` (`:232`) | `Open`, then one step per field of the queue |
| `dm35425_get_interrupt_info` (`:989`) | `GetInterrupt`, `GetInterruptFault` |
| register writes by ioctl | `Configure`, `Service`, `Ack` |
| `dm35425_release` (`:2452`) | `ReleaseReset`, `ReleaseUnref` |

A fetch of an empty queue brings no entry and changes nothing here; `OsIsr`
models what its caller makes of it.  `release` may come at any point of the
user's code (a killed process), but not in the middle of a system call.

What the model assumes of the board, from how driver and library use it: a
status bit is set when an FB raises an interrupt and is cleared by writing a
one; the reset clears both registers and stops every FB; the acknowledgement
makes "any pending interrupts re-issue" (`include/dm35425_gbc_library.h`); an
FB that already asks does not raise the same interrupt again until user code
has cleared the cause in the FB's own register, as the examples and
`dm35425_adc_multiboard.c` do, before they acknowledge.

The process may interleave with the handler between any two calls.  User code
serves one interrupt at a time, as the library's single thread does.

### OsIsr

`WaitForInterrupt` is a loop of `select`, a test of `handle->isr`, the ioctl,
another test and the call; inside, a second loop while `interrupts_remaining`
is positive.  Each system call and each test is a step.  In the optimised
build of the makefiles (`-O2`) a test of `handle->isr` directly before its call
uses one load, so test and call are one step; where an ioctl lies between them
they are two.  An empty queue returns `interrupts_remaining` as it lay
on the kernel's stack: any value.  `pthread_join` of a thread that does not
exist is undefined; the model stops there.

### Multiboard

Three threads of the program (`installer`, `remover`, `waiter`), one trigger
thread per board while `InstallISR` runs, and the engines of the boards.  Every
system call and every test of `done` or `isr` is a step.

| code | actions |
|---|---|
| `InstallISR` (`lib/dm35425_adc_multiboard.c:523`) | `Install`, `InstallFails`, `InstallAllocated`, `InstallCreate`, `InstallStorePid`, `InstallStart`, `InstallStartFails`, `InstallJoinTriggers`, `InstallJoin`, `InstallForgetPid`; the error path is `InstallWakeup` and `InstallJoin` |
| `_start_adc_fcn` (`:499`) | `Trigger` |
| `RemoveISR` (`:469`) | `Remove`, `RemoveDone`, `RemoveWakeup`, `RemoveJoin`, `RemoveForgetPid`; from the ISR `IsrRemovesItself` |
| `WaitForIRQ` (`:655`), the loop | `Start`, `StartFails`, `Top`, `SelectReturns`, `SelectFails`, `Woken`, `Scan`, `ScanEnds`, `Deliver`, `DataCallReturns` |
| the same, one board | `Fetch`, `FetchFails`, `Again`; on errors `Failing`, `Report`, `ErrorCallReturns` |
| `Read_Out_ADC` (`:957`) | `CheckUsed`, `CheckForError`, `CopyOut`, `ResetBuffer`, `ClearInterrupt`, `Ack`, `ReadFails` |
| driver and board | `Fill`, `Interrupt`, `Readable` |

What is abstracted, and why:

* The channels of a board are one.  They sample together, are read in one loop
  and share `next_buf`; only channel 0 interrupts (`Configure_ADC`, `:344`).
* Only DMA interrupts are enabled.  `Read_Out_ADC` merely acknowledges others.
* A function block that still asks for an earlier interrupt may not ask again,
  and the end-of-interrupt write may issue what has filled since once more
  (`Interrupt`, `Ack`), as in `DriverIrq`.
* `select` has no timeout, and the driver's `poll` never reports an exception,
  so those two branches are not there.
* The wakeups of all boards are one step; the thread looks at the flags in one
  step too (`SelectReturns`).
* `RemoveISR` is called by a thread that has seen `InstallISR` return or knows
  that it blocks, and `InstallISR` again only when the last thread is over.
* Joining a thread that was joined before is undefined: the model stops there
  (`joined_twice`).
* `next_buf` lies in memory from `malloc` and is never set, so it starts with
  any index or none of the ring's.  The history variable `malloced` keeps what it
  started with, for the properties; nothing else reads it.

### DriverLoad

What the kernel has granted is the set `held`; what the driver believes to have
is in its descriptors (`desc`), and decides what it gives back.  Each step that
can fail is an action with an alternative, enabled by a member of `Faults`.
`twice` is what was given back though it was not held any more.

| code (`driver/rtd-dm35425.c`) | actions |
|---|---|
| `dm35425_init` (`:2356`), `dm35425_probe_devices` (`:2161`) | `Load`, `Enable`, `NextDevice`, `LoadFailed` |
| `dm35425_process_pci_regions` (`:1887`) | `SkipRegion`, `ClaimPorts`, `MapMemory`, `RefuseRegion`, `RegionsDone` |
| `dm35425_allocate_irq` (`:2048`) | `AllocateIrq` |
| `dm35425_register_char_device` (`:177`) | `TakeNumbers`, `AddCdev`, `CreateNode` |
| `dm35425_release_resources` (`:1835`) | `FreeIrq`, `ReleaseRegions`, `FreeDescriptors`, `ReleaseNothing` |
| `dm35425_unload` (`:2478`), `dm35425_unregister_char_device` (`:2333`) | `Unload`, `Unregister` |

`release_resources` is called by a step that fails and again by its caller:
`calls` counts the calls still to come, and the second finds no descriptors.
The hardware initialisation between the handler's registration and the next
board is one step.  `class_create` and `device_create` answer error pointers
where the code looks for NULL, so they have no failing branch.

### DmaBuffers

One process opens one board at a time; any of its threads may be in a call.
DMA_INITIALIZE (`:1136`) is `Search`, `Allocate`, `TellBoard` and `Describe`,
because nothing keeps another thread out in between; the library's
`Dma_Initialize` around it is `Dma_Initialize`, `NextBuffer`, `ClearBuffer`.  A
failing call ends the process, as the examples do.  `Close` may come at any
time, and what a thread has begun in the kernel ends first; `ResetBoard`, `FreeBuffer` and
`Released` are `dm35425_release`.  `Board_Open` that finds no memory leaves the
file open ("leaked").  `Initialisers` are the threads that call
`Dma_Initialize`: with two of them the list is not a table, which nothing in
the sources asks of it, so the runs and two of the theorems have one.

### DmaStream

`Dma_Clear` and `Dma_Start` poll, a limited number of times, and read the
wanted action again in every round; a board that halts meanwhile is taken for
one that has obeyed (`TakeAction`, `Poll`, `Reread`).  The rest follows the two
programs: `examples/dm35425_adc_continuous_dma.c`, whose ISR empties all full
buffers and whose main thread looks for overruns, and
`examples/dm35425_adc_all_dma.c`, whose ISR reads one buffer of each channel
and ends the program when it is not full.  The channels are one, so that what
the second program does not look at in its other channels is not in the model.
Data are numbers of buffers in the
stream, modulo `Numbers`; copying takes two steps, in between the buffer is
`Torn`, and so is what main writes of a buffer that changes meanwhile.

The engine fills buffers in turn and stops at one that is used.  Interrupts
may merge while an earlier one is queued or in service, and a full queue drops
them; the acknowledgement re-issues what is pending.

### The libraries and RegisterCalls

A register region is the set of its bits that are one.  A library function is
an operator that yields an error or the list of its accesses; a validated
access is one step of the driver, which performs it under `device_lock`
(`DriverIrq` has the lock itself).  `RegisterCalls` opens a function block
through the board's table, and lets two threads begin calls and make their
accesses in any order, with events of the board in between.  Of the board it
assumes that a register holds what is written, that the low half of a
"maskable" write says which bits of the high half count, and that ones written
to a status register clear it.

`Length` and `Images` are the board: the lengths of its regions, and what their
registers may hold when the application starts.  The code computes offsets from
the board's tables without checking them, so what makes them right is assumed
of the board, by name: the table of the function blocks fits in its region
(`LengthAssumption`), and what it says of a block that can be opened is true
(`WellPlaced` in `ImagesAssumption`): the block and its DMA are aligned, lie in
the region and apart from each other, and there are no more channels than the
layout of the block has room for.  How many buffers a channel has, where the
blocks lie and how many there are is arbitrary.

`shadow` records, for each setting that is set and asked for, what it held when the
block was opened, and then what each completed call sets of it (`Recorded`).  A
group of functions does not look at the channel: `Adc_Channel_Get_Last_Sample`
(`adc.c:1500`), `Dac_Get_Last_Conversion` and `Dac_Set_Last_Conversion`, the four
for the markers of a DAC channel (`dac.c:949` to `:1030`), and in `dma.c`
`Dma_Channel_Get_Last_Action`, `Dma_Get_Current_Buffer_Count`,
`Dma_Check_Buffer_Used` and `Dma_Buffer_Get_Size` (`:60`, `:875`, `:1044`,
`:1278`).  Of these `Dac_Set_Last_Conversion` is called with a channel that there
is not, 150, and the others with channels that exist.  On the large board that
access is behind the region and the driver refuses it; on a board where it is not,
the record is what the registers then hold, and what `ChannelsApart` allows the
call is the place where channel 150 would be, whoever has that place.

A request's offset has 16 bits, so `Length` goes up to 61440 bytes, which the
computed offsets stay below.  Opening a block makes the checks of the code in its
order, the two failing assertions (`gbc.c:308`, `:322`) among them (`HeaderErrors`;
`SIGABRT` ends the application).

Arguments are taken on both sides of each limit, channels are the first, the
last and the one behind it.  Voltages are counted in 1/16384 V, of which every
range's lowest bit is a multiple, and C's cast cuts towards zero (`Quotient`).

## 3. The runs

| run | module, cfg | what it asks |
|---|---|---|
| `int_queue` | `MCIntQueue` | three slots, three entries: counters agree (`RingConsistent`), the ring is the abstract queue (`RingIsFifo`) |
| `driver_irq` | `MCDriverIrq` | two processes, two FBs in different status words, two slots: `SingleUser`, `QuietUntilOpened`, `RingSound`, `NoStrandedInterrupt`, `MissedBounded`, `OverflowResetIsOwn`, `DriverIsFifo` |
| `driver_irq_live` | `MCDriverIrq`, `MCDriverIrqLive.cfg` | one process, both FBs in one word: `EveryInterruptServed` |
| `os_isr` | `MCOsIsr` | signals, failing fetches and thread creation: `TypeOK`, `NoCallAfterRemove`, `FetchFindsEntry`, `RemovalDropsAtMostOne`, `RemoveReturns`, `InterruptReachesIsr` |
| `multiboard` | `MCMultiboard` | two boards, two buffers each, failing allocations, threads and I/O, signals: `FreshFromAll`, `ReadsInOrder`, `NotFullMeansNoneFull` |
| `multiboard_live` | `MCMultiboard`, `MCMultiboardLive.cfg` | two boards, one buffer, with and without `block`, removal by the ISR or by a thread, boards that do not start: `GoneAfterRemove`, `RemoveReturns`, `IsrIsCalled`, `InstallUnblocks` |
| `registers` | `MCRegisterCalls` | a large board and a small one, two threads, one event: `DriverAccepts`, `GettersAgree`, `UnitsAgree`, `ChannelsApart`, `NoStaleEnable`, `RegistersTypeOK` |
| `driver_life` | `MCDmaBuffers` | up to two boards, a fault at every step, two buffers: `HandlerHasRegisters`, `NothingLeft`, `EngineSafe`, `DmaIsTable`, `DriverTypeOK` |
| `dma_stream` | `MCDmaStream` | both programs, two buffers: `DeliveredInOrder`, `BufferCollected`, `StreamTypeOK` |
| `os_isr_null` | `MCOsIsr`, `MCOsIsrNull.cfg` | a statement of the sources that the code does not keep (section 5): `NeverCallsNull` |
| `multiboard_again` | `MCMultiboard`, `MCMultiboardAgain.cfg` | the same for the multi-board code: `NewThreadCollects` |
| `registers_filter` | `MCRegisterCalls`, `MCRegisterFilter.cfg` | the same for the ADC library: `AskingChangesNothing` |

What the passing runs show:

* The unlocked clearing of `open` is harmless, for a reason that is nowhere
  written down: `release` resets the board *before* it takes the lock for the
  last time, so a handler run that saw interrupts of the old user ends before
  `reference_count` drops, and a later run finds a silent board
  (`QuietUntilOpened`).  Handler runs do overlap the clearing, but hold
  nothing.
* The wiping of unread bits and the dropping of entries lose nothing for good,
  because the lock is held from queueing to clearing: when a bit is wiped or
  an entry dropped there is an entry in the queue or in the hands of the user,
  so an acknowledgement is due (`NoStrandedInterrupt`).  The exception is a
  reader whose copy failed.
* A handler that resets the board for too many misses resets it for the
  current user's misses, although `open` clears the count without the lock
  (`OverflowResetIsOwn`).
* The first wakeup aside, a readable device always has an entry
  (`FetchFindsEntry`), and removal drops at most one (`RemovalDropsAtMostOne`).
* The collecting thread counts boards that were readable, not boards that were
  read.  The two agree because only `RemoveISR` wakes it, and sets `done`
  first (`FreshFromAll`); the error path of `InstallISR` does not, and there
  they do not agree (section 5).
* The thread's index and the engine's own stay together although interrupts
  merge, repeat and are dropped (`ReadsInOrder`), because the thread reads one
  buffer per entry.  An entry for a buffer that was read already ends the
  acquisition, and only when no buffer is used (`NotFullMeansNoneFull`).  Both
  are about a board whose `next_buf` starts at 0; for another one the error may be
  false, and the properties say that it is for no other reason (section 5).
* The loop that reads one board does not test `done`; `RemoveISR` returns all
  the same because each of its fetches finds an entry (`RemoveReturns`).
* Whatever step of the loading fails, for the first board or a later one, all
  that was granted goes back once, although two levels of the code release
  (`NothingLeft`); only unloading gives the class back twice (section 5); and a handler on the shared line, which may be called from
  its registration on, has its descriptor and its registers from then until it
  is removed (`HandlerHasRegisters`).
* A running engine has its memory: through failing allocations that leave the
  board with a stale address, repeated initialisation, and closing while it
  runs, because the reset comes first (`EngineSafe`).  The unlocked list is a
  table as long as one thread initialises (`DmaIsTable`).
* What the library accepts the driver accepts, up to the last channel and the
  last buffer (`DriverAccepts`); channels and buffers do not reach into each
  other (`ChannelsApart`); functions of two threads that share a register
  leave each other's bits alone, since a modification is one ioctl, so that at
  every moment, in the middle of calls too, a setting is asked for as it was set,
  or as it was when the block was opened (`GettersAgree`); rates, front-end codes and scales that are computed in
  different places fit each other (`UnitsAgree`), whatever lay in the place for the
  result of the conversion, as long as the conversion succeeds (section 5); and enabling a source does
  not bring up an event of the past (`NoStaleEnable`).
* The stream gets into the file in order as long as the ISR is less than a
  whole turn ahead of main (`DeliveredInOrder`), and a filled buffer is
  collected though the completion status may be wiped by the ISR that has just
  looked, because the engine's next interrupt, or its error at a used buffer,
  brings it back (`BufferCollected`).  Behind a whole turn the first program
  notices an overrun one buffer late, which is why the property stops there.

### Bounds

* `QueueSize` 2 or 3 for 256: full, empty and wrapped rings all occur, and a
  handler run can queue more entries (four) than fit.  The ring's behaviour at
  every size is proved.
* Two FBs for 60: one in each word in the safety run, both in the same word
  (so the clear mask has two bits) in the liveness run.  `Sources` has both
  kinds of one FB, which the wipe needs, and one kind of the other.
* `MissedLimit` 1 and 0 for `TOO_MANY_MISSED_IRQ`: the reset is reached.
  `int_queue_missed` needs no bound in `DriverIrq`: the code bounds it
  (`MissedBounded`).
* Two processes: the single-open check and the hand-over from one user to the
  next need no third.
* `MaxRemovals` 3: an ISR is installed, removed, installed and removed again
  with the stale flag, and once more.

* Two boards: one that is read and one that is waited for.  Two buffers: the
  ring wraps, and the engine can be ahead by one or by all.  A queue of two:
  the inner loop goes round and the queue fills.  The liveness run has one
  buffer, which leaves the thread's control as it is and keeps the run short;
  its liveness does not depend on the ring.  The constraint `OneNotZeroed` follows
  the heaps in which at most one board's index does not start at 0; with two there
  are several times the states, and the safety properties are proved for all.
  The safety run follows such a heap until `RemoveISR` sets `done`
  (`ZeroedWhenDone`).
* `driver_life`: two boards let the probe fail with a complete board behind
  it; their regions show all four kinds.  Two buffers and three pieces of
  memory, so that a piece is left over; two threads of which one initialises.
  The files of one process follow one another without a bound.
* `dma_stream`: two buffers, for the DMA ring and for the local one; a queue of
  two; numbers modulo four, twice the buffers, so that a buffer taken for the
  one a turn earlier shows.  `ahead` is exact up to one more than the overrun
  test needs, and known modulo `Numbers` above.  The programs end, so deadlock
  is not checked.
* `registers`: two calls overlap, or follow one another (`MaxCalls` 2).  On the
  large board there is a block of each kind (32 ADC, 4 DAC, 3 ADIO channels) in a
  region of 4096 bytes whose last DMA buffer ends where the region ends; it shows
  both ends of the channels, and channel 150 behind the region.  On the small one
  the blocks have a channel of one buffer, the clock is no standard one, and an
  event happens at any time (`MaxEvents` 1).  An event multiplies what follows, so
  the constraint `EventsOnSmall` follows it up on the small board only: with
  events on the large board too, there are three times the states and the same
  result, and all of the properties are proved for any board and any number of
  events.  The threads are symmetric.  The run stops after the calls,
  so deadlock is not checked.  `OldConversions`, what lies in the place for the
  result of the DAC's conversion, has both ends of the 16 bits, and both sides of
  both ends of the codes.

### Fairness and why the code justifies it

* The kernel runs the handler while the level-triggered line is asserted, and
  a run ends: weak fairness of `IsrEnter` with a status bit set, and of the
  handler's steps.
* The reader's calls compete with the handler for a ticket spinlock, which
  serves in order of arrival: strong fairness of `GetInterrupt`, `Service` and
  `Ack`.  The user's program is assumed to go on serving.
* Threads of a process run and an ISR that is called returns: weak fairness of
  the waiting thread, and of the inner steps of `InstallISR` and `RemoveISR`.
* The collecting thread does not read one board for ever without once finding
  its queue empty: a board that always fills faster than it is read is of no
  use to this code, and the documentation asks for matching rates
  (`include/dm35425_adc_multiboard.h`).
* `DmaStream`: the engine fills as long as it samples, the interrupt thread
  fetches and its ISR goes on, and main goes on with its loop and its ending:
  weak fairness of each.  Leaving the loop is fair once `exit_program` is set.
  Nobody has to send a signal or to have enough samples.
* Nothing else is fair: nobody has to open, configure, install, remove, close
  or raise.

## 4. The proofs

Assumed: only the named assumptions on constants (`QueueAssumption`,
`DriverAssumption`, `OsAssumption`, `MultiboardAssumption`, `LoadAssumption`,
`BuffersAssumption`, `BoundsAssumption`, and `LengthAssumption` and
`ImagesAssumption` of section 2), which say what the constants are (a positive number of
slots, boards numbered from 0, and so on).  The number of processes is
arbitrary, as are the numbers of FBs and of slots.

**DriverIrqProofs.**  First about the ring of `IntQueue`: `RingIsConsistent`: type and agreement of the counters
are inductive together; `QueueIsTyped` follows.  `RingImplementsFifo`: each operation maps to a step of
`InterruptFifo` under `fifo <- Contents`, `missed <- int_queue_missed`.  The
work is in `AddIsPutOrDrop` and `DequeueIsTake`: with the counters in
agreement, appending at the insertion marker appends to `Contents` even when
the slots wrap.  These lemmas are stated with the actions alone, so that they
can be cited for the driver, whose steps contain those actions.

Then about the driver.  None of `QuietUntilOpened`, `NoStrandedInterrupt` and
`OverflowResetIsOwn` is inductive.  The invariant `DriverInv` adds:

| conjunct | why it is needed |
|---|---|
| `SilentUnlessUsed` | a board is silent and not enabled unless a process is between the end of `open` and the reset of `release` |
| `HandlerHolds` | what the handler has read is held only between its reads and its clearing |
| `NothingReadUntilOpened` | a handler run that overlaps `open` holds no bits: this is where the lock taken by `release` after its reset is used |
| `ClearingIsQueued` | while the handler has bits to clear the queue is not empty: a wiped bit or a dropped entry leaves an acknowledgement due |
| `ClearedSoFar` | which fields of the queue `open` has reset at each of its steps: the ring is sound again when it is done |

`MissedCountBounded` needs a counting argument of its own (`MissedInv`): the
number of entries a run may still queue is the number of bits it holds plus the
bits of the words it has not read, at most two per FB, so the count at the
test plus these never exceeds the limit plus two per FB.
`DriverImplementsFifo` maps the driver to `InterruptFifo` with
`fifo <- Waiting`: the queue as its reader sees it, empty from the moment
`open` starts to clear it.

**OsIsrProofs.**  `ThreadLife` ties where the application is to whether a
thread exists, `FetchIsCovered` says that before a wakeup a thread about to
fetch has an entry to find, and `DropsCounted` that a removal in progress has
not yet cost its entry.  From these follow `RemovedIsrIsNotCalled`,
`FetchBringsEntry` and `RemovalCostsAtMostOne`.

**MultiboardProofs.**  For any number of boards, buffers and slots, with and
without `block` and with every fault.  The first invariant, `Inv`:

| conjunct | why it is needed |
|---|---|
| `IndexInRing` | `next_buf` may start as anything; past the check of the first buffer it is inside the ring (`TypeCorrect` needs it) |
| `IdKept` | when the thread's id is stored, joined and forgotten, and that there is one thread at a time |
| `RemovalLasts` | `done` stays set after `RemoveISR`, so a later thread ends before it looks at a board: with `IdKept` this is `NothingLeftAfterRemove` |
| `WakeupMeansEnd` | a wakeup comes after `done`, save on the error path of `InstallISR` |
| `EntriesFound` | hence a board found readable has an entry, and every fetch finds one |
| `CountedWereRead` | hence a board that is counted was read: `ReadoutsAreFresh` |

`ReadoutsAreFresh` exempts the error path of `InstallISR`, where it is false.
The second invariant, `RingInv`, is about the boards whose index malloc has left
at 0 (`Zeroed`), next to boards with any other: the index is in the ring
(`IndexOfZeroed`), what is used is the cyclic interval from the buffer due to the
engine (`RingInStep`), and the buffer in the thread's hand is used
(`BufferInHand`).  `FillInStep` and `ResetInStep` say that the interval grows
and shrinks at its ends; `BuffersReadInOrder` and `NotFullIsTrue` follow.

**RegisterCallsProofs.**  First about the operators, for every length of the region,
offset and data.  `AcceptedStaysInside`: an access that `validate_pci_access`
lets through stays inside its region, if the region is at least as long as the
access.  The hypothesis is needed: the difference of the lengths is unsigned
(section 5).
`ReadAnswersWrite` and `ModifyChangesMaskedBits` say what an access leaves
alone, and `DisjointMasksCommute` that modifications of different bits may come
in either order, which is what the library's functions rely on.

Then about the library on any board that is as its tables say, with any number of
threads, calls and events.  What the library asks for is described once, by
`GoodCall`: each access is aligned, lies in the part of the block that the call
is about (`GoodAccess`), and one that enables an interrupt source comes right
after the one that clears its status (`Prepared`).  `EveryCall` says that all
calls are good.  Under it are a lemma for the place of each part of a block
(`Places`: control registers, channels, FIFOs, DMA channels, buffers), one for the
functions of each library (`AdcBlockGood`, `AdcChannelGood`, `DmaBufferGood` and
so on), and `BlockInterruptCalls` and `ChannelInterruptCalls` for the functions
that enable.  `OpenedDescriptor` follows the search of the board's table to the
descriptor that the application gets.

The inductive invariant is `IInv`:

| conjunct | why it is needed |
|---|---|
| `InRegions` | the registers are those of the two regions: no access and no event makes others |
| before opening | the registers are still those of an image and nobody is in a call, so that the table that is searched is true |
| `Descriptor` | the open block is well placed, and its offsets are what the search has computed |
| `Underway`, of each thread in a call | the accesses it has left are good, and each is prepared by the one before it; and of the sources that its *next* access enables no status bit is set, save those the board has raised since the call began (`fresh`) |
| `~refused` | is `DriverAccepts` |

The last part of `Underway` is what two threads could break, one between the
clearing and the enabling of the other.  `Performed` says that they do not: a
good access changes registers of its part only, brings no status bit up, and
leaves the status of the sources clear that the next access of its call enables.
`Rest` and `StillUnderway` carry this to the thread that goes on and to the others.
From `RegistersInvariant` follow `RegistersTyped`, `DriverAcceptsAll`,
`ChannelsStayApart` and `NoStaleEnables`.  The call with a channel that does not
exist (section 2) is the driver's to refuse, and `DriverAccepts` exempts it
(`UncheckedCall`).

**FieldsProofs.**  That getters agree is about single bits of registers, and
parts of a block are not enough for it.  `Layout` is the table of the settings
of a block that can be set and asked for: for each its part, its bytes there, the
bits it has and whether they are the high half of a masked word.  Three things
are proved about the table, for every number of channels and buffers:

* no two settings have a byte in common (`RowsApart`, from `PartsApart`), and
  none lies where ones clear or where an event sets a bit (`RowsAndSpecial`);
* each function that asks reads the bytes of its row, all of them, and answers
  the bits that the row has (`EveryView`);
* each call, if its library accepts it, sets by its *last* access the bits that
  it should of the row of its setting, and touches no row before (`Fit`,
  `EveryCallFits`): plain writes, masked writes and modifications are the
  three ways in `Sets`, and what is written at no row's place is free (`FreeAt`).

`SetsField` and `ClearKeeps` say what an access does to a row.  The invariant,
beside `IInv`, is `FieldsInv`: every recorded setting has a row and the row holds
what is recorded of it (`Agreed`), and what is left of a call under way fits
(`Fitting`).  A call in the middle has thus changed nothing that is recorded, and
its last access changes the board and the record together; this is why two threads
need no lock between them.  `GettersAlwaysAgree` follows.  Of the call that does
not look at its channel nothing is proved: what it hits is recorded as it is then.

That the units agree needs more than that a row holds what was written: it needs
what the written number means.  `UnitsInv` adds, beside the two invariants:

| conjunct | why it is needed |
|---|---|
| `Timing` | a rate that was answered is the board's clock divided by one more than the divider in `ClockRow`; and the clock itself is told by bits that no access changes (`ClockStands`) |
| `Scaling` | the front end of a channel that is set up has the bits of its range (`Suits`) in its row |
| `Telling` | what a call under way will write is the divider of the rate it answers, or the bits of the range it sets up, and it has one access only, so that no state is in between |

`RateDividers` is the arithmetic of the functions that compute a divider from a
rate; `EveryCallTells` goes through the calls as `EveryCallFits` does; `LastHolds`
is the step that lands.  At the end `NumberOfBits` shows that `Number(Bits(n)) = n`
for every `n` of 31 bits, putting bits together to pairs, fours, bytes and halves
as `Number` does, and `InputScale` and `OutputScale` read gain, polarity and range
out of a front end, and convert the samples that are looked at there and back.  `UnitsAlwaysAgree`
follows.

**DriverLoadProofs.**  For any boards, regions and faults.  `LoadInv`, kept by
every step (`LoadInvKept`):

| conjunct | why it is needed |
|---|---|
| `PlaceOK` | where loading is, and that there are descriptors whenever it goes on |
| `DescOK` | a handler is registered only for a board whose regions are complete |
| `ProgressOK` | how much of the board at hand is done, and that all boards before it are complete |
| `HeldOK` | what the kernel has granted is what the descriptors say, less what the releasing has given back so far: `IrqFreed` and `RegionsFreed` say how far it is |

The last conjunct is why nothing but the class is given back twice: the descriptors
are not changed while their contents go back, and vanish at the end.  There is one
lemma for each step.

**DmaBuffersProofs.**  For any number of boards, buffers and threads.
`LifeInvariant` adds to `LoadInv`:

| conjunct | why it is needed |
|---|---|
| `FileOK` | who holds the reference, and that the driver stays loaded as long as somebody does |
| `CallOK` | a call goes on only while the file is open, and has a piece of memory in hand from its allocation to its insertion |
| `PiecesOK` | every allocated piece is in the list of the open board or in one hand, so that freeing the list frees all |
| `BoardOK` | what the board holds |

From it follow `DriverTypeCorrect`, `RegistersWhileHandled` and
`NothingStaysBehind`, with any number of initialising threads.
`EngineStaysInItsMemory` and `ListImplementsTable` assume `Alone`: at most one
thread initialises.  The first adds `EngineOK` (an initialised buffer has in the
list the piece whose address the board has, and the engine runs only with such
buffers; the piece in hand is no other buffer's); the second `ListOK` (no buffer
and no piece is listed twice).  Without `Alone` both are false: two threads may
find a buffer missing and both insert it.

**DmaStreamProofs.**  For any number of buffers, any depth of the queue and any
patience of the library's polling, whichever interrupts are merged, dropped or
cleared too early.  `StreamInv` asserts two positions in the unbounded stream,
`P` of the buffer that the ISR empties next and `F` of the one that the engine
fills next, of which the program knows only remainders:

| conjunct | why it is needed |
|---|---|
| `ActionOK` | what main polls for, so that an ADC that samples runs the action that was started |
| `PlaceOK` | nothing is used before the ADC samples; what the ISR's place says of the program |
| `RingOK` | the used buffers hold the positions from `P` to `F`, at most a turn, in order; the engine finds its buffer unused only when the window is not full |
| `AheadOK` | how far main is behind `P`, exactly up to `NumBuffers + 1` and modulo `Numbers` beyond |
| `LocalOK` | the local buffers hold the last turn before `P`, less the one that is overwritten; not after they were freed |
| `ItemOK` | what main has read of a local buffer is what it should write, unless the ISR is a turn ahead |

The lemmas before it derive, from division with remainder, that positions less
than a turn apart have different buffers and that a turn leads back.
`StreamTypeCorrect` and `WrittenInOrder` follow.  The second is a statement
about a main thread that keeps up: with `ahead = NumBuffers` the ISR may be
overwriting what main writes, as the code allows.

Every invariant and every action property of the passing runs is proved.  Only
model-checked are the properties that the prover does not reach: `EveryInterruptServed`, `RemoveReturns`, `InterruptReachesIsr`, `IsrIsCalled`,
`InstallUnblocks` and `BufferCollected` (liveness under fairness, which needs
ENABLED).  What a recursive definition computes for every input is out of reach
too (the induction theorems of the library take operators as parameters), so
recursion is avoided in modules with theorems.

## 5. Where the code and its comments differ

* `os_isr_null`: when the first INTERRUPT_GET of a round fails, the thread
  calls `(*(handle->isr))` without the "one more check" that a comment five
  lines below asks for after an ioctl.  A `RemoveISR` in between makes it a
  call through NULL.
* `multiboard_again`: `RemoveISR` sets `done` and nothing resets it.  The next
  `InstallISR` on the descriptor returns 0, the boards sample, and its thread
  ends at once.
* `registers_filter`: `DM35425_Adc_Channel_Get_Filter` calls `DM35425_Write`
  (`lib/librtd-dm35425_adc.c:2488`) where the header says "Get the filter value
  for the channel": it writes what lay on the stack into the filter of the
  channel, and answers that.

Reached by the models, without a run of their own:

* `InstallISR` of `lib/dm35425_os.c` leaves the ISR stored when
  `pthread_create` fails, so a later `RemoveISR` joins a thread that was never
  created (`joined_no_thread` of `OsIsr`).
* The error calls of the multi-board thread go through `mbd->isr` without a
  test (`called_null`), as in `os_isr_null`.
* `RemoveISR` that ends a blocking `InstallISR`, or comes from the ISR, is
  refused by `pthread_join` and returns -1, though it has its effect
  (`refused`, `data_call_refused`); after a failed `InstallISR` it joins a
  thread a second time (`joined_twice`).
* Of several buffers read from a fast board only the last reaches the ISR.
* `remove_isr_flag` is set by the first `RemoveISR` and cleared only by `open`,
  though the comment of `poll` says that it is cleared after reading.  An ISR
  installed again on the same descriptor is called over and over without an
  interrupt (`Readable` of `OsIsr`).
* When a board does not start, the error path of the multi-board `InstallISR`
  wakes the thread and joins it, but does not set `done`.  The thread takes the
  wakeup for data and calls the ISR again and again; `InstallISR` does not
  return (`InstallWakeup`, `InstallJoin`).
* `next_buf` is never initialised (`lib/dm35425_adc_multiboard.c:173`).  Unless
  `malloc` happens to return a zero there, the first interrupt is looked up under
  whatever index lay there, and is answered with "buffer not full" (`malloced` and
  `CheckUsed` of `Multiboard`).
* Unloading releases the class twice (`driver/rtd-dm35425.c:2344`, `:2346`):
  `class_destroy` unregisters the class that `class_unregister` has just given
  back (`twice` after `Unregister` of `DriverLoad`).
* `DM35425_Dac_Volts_To_Conv` says "Verify that the voltage being asked for isn't
  outside of the possible range of the DAC" (`lib/librtd-dm35425_dac.c:1128`) and
  looks at what lies in `*dac_conversion`, the place for its result, before it
  stores the result there (`:1132`): a voltage in range is refused if something
  else lay there, and one out of range is accepted (`Dac_Volts_To_Conv`;
  `DacScale` lets what lay there vary).
* `validate_pci_access` subtracts the access's bytes from the region's length in
  `unsigned long` (`driver/rtd-dm35425.c:588`), so that every offset is accepted
  for a region that is shorter than the access, as one that the board lacks
  (`validate_pci_access` of `RegionAccess`).
* A `Board_Open` that fails behind `open` leaves the board open, and every later
  open is refused (`Board_Open` of `DmaBuffers`).
* When the descriptor of a DMA buffer cannot be allocated, its memory is freed
  and the board keeps the address (`Describe`); the engine does not run then.
* Two threads that initialise the same buffer at once both succeed.
* Clearing a channel's interrupt status is a read-modify-write of a register
  that is cleared by ones, so that it clears other sources too
  (`Adc_Channel_Interrupt_Clear_Status`).
* Eleven functions do not look at their channel (section 2); the driver refuses
  what lies outside the region, and nothing what lies inside.
* A signal that interrupts `select` ends the library's thread, while the ISR stays
  installed (`Signalled` of `OsIsr`).

Read in the code, and outside of the models: when regions or the interrupt
fail the probe prints the name of a descriptor that the failing step has freed
(`driver/rtd-dm35425.c:2283`, `:2294`); `class_create` and `device_create`
answer error pointers, where NULL is looked for (`:205`, `:222`); an enabled PCI
device is never disabled.

## 6. Not modelled

* Messages and debug output; waiting and wakeups inside the kernel, with the
  wait queue that `open` initialises again (`driver/rtd-dm35425.c:241`: the
  handler wakes after it has released the lock).
* Two application threads that install and remove ISRs of one descriptor at
  once (the sources promise nothing), or use one file from several processes.
* `SetISRPriority` and the affinity calls, which change only scheduling.
* Of the multi-board code opening, configuring and closing the boards: calls of
  library functions that are modelled one by one, in a fixed order.
* The hardware initialisation in the probe, one step of `DriverLoad`: it writes
  registers of a board that nobody can open yet.
* `DM35425_Adc_Initialize` (`lib/librtd-dm35425_adc.c:814`): it polls the mode of
  the block until the board says it is initialised or the patience is over.
  What it polls is the board's alone; the same pattern, with the race that the
  code has, is `Poll` of `DmaStream`.
* `Dma_Stop` and `Dma_Pause`, which differ from `Dma_Start` in the action.
* The other examples: they call modelled functions one after another, or repeat
  the continuous pattern for the DAC and the ADIO.
* The signal generator and the time helpers of the utility library, which touch
  no state of the system; floating-point rounding (voltages are whole multiples
  of a unit here).
* What the DMA buffers hold is in `DmaStream`, not in `DmaBuffers`, and a READ
  or WRITE is one copy there that takes two steps.
* Declarations in the headers beyond the registers and codes that are used.
