------------------------------ MODULE RegisterCalls ------------------------------
(***************************************************************************)
(* An application that opens a function block and calls the functions of   *)
(* its library, from two threads (main and the interrupt thread), with the *)
(* driver's register accesses and the board's registers below.             *)
(*                                                                         *)
(* A call computes the accesses it makes from its arguments; the driver    *)
(* performs each as one step, so that the accesses of two calls and the    *)
(* events of the board come in any order.                                  *)
(***************************************************************************)
EXTENDS DmaLibrary, TLC

CONSTANTS
  Images,      \* what the registers of a board may hold when it is opened
  Callers,     \* the threads
  MaxCalls,    \* bound on the calls after the opening
  MaxEvents    \* bound on the events of the board

VARIABLES
  mem,         \* the registers, by region: the bits that are one
  fb,          \* the descriptor of the open function block, [type |-> "none"] before
  todo,        \* for each thread the accesses that its call still makes, and the call
  shadow,      \* for each field what it held at the opening, and the calls have set
  setup,       \* for each channel the range it was set up for
  rate,        \* the clock rate the last call answered, 0 when none holds
  refused,     \* the driver has refused an access
  fresh,       \* for each thread the bits the board has set since its call began
  calls, events

vars == <<mem, fb, todo, shadow, setup, rate, refused, fresh, calls, events>>

None == [type |-> "none"]
-----------------------------------------------------------------------------
(* The board, as its tables describe it.                                   *)

\* What the application can open.
Opened(m) ==
  {r \in {Adc_Open(m, 0), Dac_Open(m, 0), Adio_Open(m, 0), Ext_Clocking_Open(m, 0)} :
     r.errno = "none"}

\* The channels that the layout of a function block has room for, and the bytes
\* of its registers, up to the last FIFO, and of the registers of its DMA.
ChannelSlots(f) ==
  CASE f.type = FUNC_BLOCK.ADC -> 32
    [] f.type = FUNC_BLOCK.DAC -> NUM_DAC_DMA_CHANNELS
    [] f.type = FUNC_BLOCK.ADIO -> 3
    [] f.type = FUNC_BLOCK.EXT_CLOCKING -> 0
BlockSize(f) ==
  CASE f.type = FUNC_BLOCK.ADC -> ADC_CHAN.FIFO_START + 4 * ChannelSlots(f)
    [] f.type = FUNC_BLOCK.DAC -> DAC_CHAN.FIFO_START + 4 * ChannelSlots(f)
    [] f.type = FUNC_BLOCK.ADIO -> ADIO_CHAN.FIFO_START + 4 * ChannelSlots(f)
    [] f.type = FUNC_BLOCK.EXT_CLOCKING -> FB.CTRL_START + 16
DmaSize(f) ==
  (DMA_CTRL_BLOCK_SIZE + DMA_BUFFER_CTRL_BLOCK_SIZE * f.num_dma_buffers) * f.num_dma_channels

\* A block whose registers and whose DMA lie in the region, aligned and apart.
WellPlaced(f) ==
  /\ {f.fb_offset, f.dma_offset, f.num_dma_buffers} \subseteq Nat
  /\ f.num_dma_channels \in 0 .. ChannelSlots(f)
  /\ f.fb_offset % 4 = 0 /\ f.dma_offset % 4 = 0
  /\ f.fb_offset + BlockSize(f) <= Length["FB"]
  /\ f.dma_offset + DmaSize(f) <= Length["FB"]
  /\ \/ f.dma_offset >= f.fb_offset + BlockSize(f)
     \/ f.dma_offset + DmaSize(f) <= f.fb_offset

\* The registers are those of the two regions, and what the table says of a block
\* that can be opened is true.  The code does not check it: it trusts the board.
ASSUME BoundsAssumption == MaxCalls \in Nat /\ MaxEvents \in Nat
ASSUME ImagesAssumption ==
  \A m \in Images :
    /\ m \in [{"GBC", "FB"} -> SUBSET Nat]
    /\ \A r \in {"GBC", "FB"} : m[r] \subseteq 0 .. 8 * Length[r] - 1
    /\ \A r \in Opened(m) : WellPlaced(r.fb)
-----------------------------------------------------------------------------
(* Calls.  A call on `field' gives the bits `of' of it the value `set'; it *)
(* belongs to a part of the block, `owner'.                                *)

Call(owner, field, set, of, plan) ==
  [owner |-> owner, field |-> field, set |-> set, of |-> of, plan |-> plan,
   rate |-> 0, range |-> None, asks |-> ""]
OfBlock(field, data, plan) == Call(<<"block">>, <<field>>, data, Width(32), plan)
Query(owner, plan) == Call(owner, <<"none">>, {}, {}, plan)
AskBlock(plan) == Query(<<"block">>, plan)
AskChannel(c, plan) == Query(<<"channel", c>>, plan)
AskFifo(c, plan) == Query(<<"fifo", c>>, plan)
AskDma(c, plan) == Query(<<"dma", c>>, plan)
AskBuffer(c, b, plan) == Query(<<"buffer", c, b>>, plan)
OnBusField(field, bus, data, plan) == Call(<<"block">>, <<field, bus>>, data, Width(8), plan)

\* Values: the lowest bit, or all.  Arguments: on both sides of the limit.
Patterns(n) == {{0}, Width(n)}
Sources == {{0}, {1, 2}}
Codes == {5, 15, 16}
Numbers(limit) == {limit, limit + 1}
\* The first channel and the last one, and one that there is not.
Channels(f) == {c \in {0, f.num_dma_channels - 1} : c \in 0 .. f.num_dma_channels - 1}
ChannelArgs(f) == Channels(f) \cup {f.num_dma_channels}
Rates(max) == {0, 1, 70000, max, max + 1}
BusArgs == {2, 7, 8}

Rated(field, m, plan, actual) ==
  [OfBlock(field, plan.accesses[1].data, plan) EXCEPT !.rate = actual]
RateCalls(m, max, plan(_), actual(_, _)) ==
  LET clock == Gbc_Get_Sys_Clock_Freq(m).freq
  IN  {Rated("clk_div", m, plan(r), actual(clock, r)) :
         r \in {r \in Rates(max) : plan(r).errno = "none"}}
        \cup {AskBlock(plan(r)) : r \in {r \in Rates(max) : plan(r).errno # "none"}}

OnIntConfig(s, e, plan) == Call(<<"block">>, <<"int_config">>, IF e THEN s ELSE {}, s, plan)
IntConfig(set_config(_, _)) ==
  {OnIntConfig(s, e, set_config(s, e)) : s \in Sources, e \in BOOLEAN}

GbcCalls ==
  {Query(<<"board">>, p) :
     p \in {Gbc_Board_Reset, Gbc_Ack_Interrupt, Gbc_Get_Format, Gbc_Get_Revision,
            Gbc_Get_Pdp_Number, Gbc_Get_Fpga_Build}}

\* A call on a field of a channel.
OnField(field, c, data, of, plan) == Call(<<"channel", c>>, <<field, c>>, data, of, plan)
\* A call that sets the range of a channel; one that asks for something.
Ranged(range, call) == [call EXCEPT !.range = range]
Asking(what, call) == [call EXCEPT !.asks = what]

AdcRates(m, f) ==
  RateCalls(m, ADC_MAX_RATE, LAMBDA r : Adc_Set_Sample_Rate(m, f, r), AdcActualRate)
AdcInterrupts(f) ==
  IntConfig(LAMBDA s, e : Adc_Interrupt_Set_Config(f, s, e))
    \cup {AskBlock(Adc_Interrupt_Clear_Status(f, s)) : s \in Sources}

AdcBlockCalls(f) ==
  {OfBlock("start_trigger", Bits(k), Adc_Set_Start_Trigger(f, k)) : k \in Codes}
  \cup {OfBlock("stop_trigger", Bits(k), Adc_Set_Stop_Trigger(f, k)) : k \in Codes}
  \cup {OfBlock("clock_src", Bits(k), Adc_Set_Clock_Src(f, k)) : k \in Codes}
  \cup {OfBlock("pre", Bits(k), Adc_Set_Pre_Trigger_Samples(f, k)) :
          k \in Numbers(FIFO_SAMPLE_SIZE)}
  \cup {OfBlock("post", d, Adc_Set_Post_Stop_Samples(f, d)) : d \in Patterns(32)}
  \cup {OfBlock("clk_div", d, Adc_Set_Clk_Divider(f, d)) : d \in Patterns(32)}
  \cup {OnBusField("bus", b, Bits(k), Adc_Set_Clock_Source_Global(f, b, k)) :
          b \in BusArgs, k \in {135, 136}}
  \cup {AskBlock(p) : p \in {Adc_Start(f), Adc_Start_Rearm(f), Adc_Reset(f),
                             Adc_Pause(f), Adc_Uninitialize(f)}}

AdcChannelCalls(f, c) ==
  {Ranged(r, OnField("fe_config", c, Bits(64 * 3 + r.code + ADC_FE_CONFIG.ENABLE), Width(8),
                     Adc_Channel_Setup(f, c, 3, r, "single_ended"))) : r \in InputRanges}
  \cup {OnField("fe_config", c, {}, Width(16), Adc_Channel_Reset(f, c))}
  \cup {OnField("chan_int", c, IF e THEN s ELSE {}, s,
                Adc_Channel_Interrupt_Set_Config(f, c, s, e)) : s \in Sources, e \in BOOLEAN}
  \cup {AskChannel(c, Adc_Channel_Interrupt_Clear_Status(f, c, s)) : s \in Sources}
  \cup {OnField("filter", c, d, Width(8), Adc_Channel_Set_Filter(f, c, d)) : d \in Patterns(8)}
  \cup {Asking("filter", AskChannel(c, Adc_Channel_Get_Filter(f, c, d))) :
          d \in Patterns(8)}
  \cup {OnField("low", c, Bits(k), Width(32), Adc_Channel_Set_Low_Threshold(f, c, k)) :
          k \in Numbers(4095)}
  \cup {OnField("high", c, Bits(k), Width(32), Adc_Channel_Set_High_Threshold(f, c, k)) :
          k \in Numbers(4095)}
  \cup {AskFifo(c, Adc_Fifo_Channel_Read(f, c))}

AdcCalls(m, f) ==
  AdcBlockCalls(f) \cup AdcRates(m, f) \cup AdcInterrupts(f)
    \cup (UNION {AdcChannelCalls(f, c) : c \in ChannelArgs(f)})
    \cup {AskChannel(c, Adc_Channel_Get_Last_Sample(f, c)) : c \in Channels(f)}

DacRates(m, f) ==
  RateCalls(m, DAC_MAX_RATE, LAMBDA r : Dac_Set_Conversion_Rate(m, f, r), PacerActualRate)
DacInterrupts(f) ==
  IntConfig(LAMBDA s, e : Dac_Interrupt_Set_Config(f, s, e))
    \cup {AskBlock(Dac_Interrupt_Clear_Status(f, s)) : s \in Sources}

DacBlockCalls(f) ==
  {OfBlock("start_trigger", Bits(k), Dac_Set_Start_Trigger(f, k)) : k \in Codes}
  \cup {OfBlock("stop_trigger", Bits(k), Dac_Set_Stop_Trigger(f, k)) : k \in Codes}
  \cup {OfBlock("clock_src", Bits(k), Dac_Set_Clock_Src(f, k)) : k \in Codes}
  \cup {OfBlock("post", d, Dac_Set_Post_Stop_Conversion_Count(f, d)) : d \in Patterns(32)}
  \cup {OfBlock("clk_div", d, Dac_Set_Clock_Div(f, d)) : d \in Patterns(32)}
  \cup {OnBusField("bus", b, Bits(k), Dac_Set_Clock_Source_Global(f, b, k)) :
          b \in BusArgs, k \in {130, 133}}
  \cup {AskBlock(p) : p \in {Dac_Start(f), Dac_Reset(f), Dac_Pause(f)}}

\* A conversion with its markers, in the top byte.
Marked(markers, value) == {b + 24 : b \in markers} \cup value
\* The functions that look at the number of the channel, and those that do not.
DacChannelCalls(f, c) ==
  {Ranged(r, OnField("fe_config", c, Bits(DAC_FE_CONFIG.ENABLE + r.code), Width(3),
                     Dac_Channel_Setup(f, c, r))) : r \in OutputRanges}
  \cup {OnField("fe_config", c, {}, Width(16), Dac_Channel_Reset(f, c))}
  \cup {AskFifo(c, Dac_Fifo_Channel_Write(f, c, d)) : d \in Patterns(32)}
DacTrustingCalls(f, c) ==
  {OnField("marker_config", c, d, Width(8), Dac_Channel_Set_Marker_Config(f, c, d)) :
     d \in Patterns(8)}
  \cup {AskChannel(c, Dac_Channel_Clear_Marker_Status(f, c, s)) : s \in Sources}
  \cup {AskChannel(c, Dac_Channel_Get_Marker_Status(f, c))}
  \cup {OnField("last", c, Marked(k, d), Width(32),
                Dac_Set_Last_Conversion(f, c, k, d)) : k \in Patterns(8), d \in Patterns(12)}

DacCalls(m, f) ==
  DacBlockCalls(f) \cup DacRates(m, f) \cup DacInterrupts(f)
    \cup (UNION {DacChannelCalls(f, c) : c \in ChannelArgs(f)})
    \cup (UNION {DacTrustingCalls(f, c) : c \in Channels(f)})
    \cup {Asking("unchecked", AskChannel(150, Dac_Set_Last_Conversion(f, 150, {0}, {0})))}

AdioRates(m, f) ==
  RateCalls(m, ADIO_MAX_FREQ, LAMBDA r : Adio_Set_Pacer_Clk_Rate(m, f, r), PacerActualRate)
AdioInterrupts(f) ==
  IntConfig(LAMBDA s, e : Adio_Interrupt_Set_Config(f, s, e))
    \cup {AskBlock(Adio_Interrupt_Clear_Status(f, s)) : s \in Sources}

AdioBlockCalls(f) ==
  {OfBlock("clock_src", Bits(k), Adio_Set_Clock_Src(f, k)) : k \in Codes}
  \cup {AskBlock(Adio_Set_Start_Trigger(f, k)) : k \in Codes}
  \cup {AskBlock(Adio_Set_Stop_Trigger(f, k)) : k \in Codes}
  \cup {OfBlock("clk_div", d, Adio_Set_Clk_Divider(f, d)) : d \in Patterns(32)}
  \cup {AskBlock(Adio_Set_Pre_Trigger_Samples(f, k)) : k \in Numbers(FIFO_SAMPLE_SIZE)}
  \cup {AskBlock(Adio_Set_Post_Stop_Samples(f, d)) : d \in Patterns(32)}
  \cup {OnBusField("bus", b, Bits(k), Adio_Set_Clock_Source_Global(f, b, k)) :
          b \in BusArgs, k \in {134, 135}}
  \cup {AskBlock(p) : p \in {Adio_Start(f), Adio_Start_Rearm(f), Adio_Reset(f),
                             Adio_Pause(f), Adio_Uninitialize(f)}}

OnPinField(field, data, plan) == Call(<<"pins">>, <<field>>, data, Width(32), plan)
AdioPinCalls(f) ==
  {OnPinField("output", d, Adio_Set_Output_Value(f, d)) : d \in Patterns(32)}
  \cup {OnPinField("direction", d, Adio_Set_Direction(f, d)) : d \in Patterns(32)}
  \cup {OnPinField("adv_int_mode", Bits(k), Adio_Set_Adv_Int_Mode(f, k)) : k \in 0 .. 3}
  \cup {OnPinField("adv_int_mask", d, Adio_Set_Adv_Int_Mask(f, d)) : d \in Patterns(32)}
  \cup {OnPinField("adv_int_comp", d, Adio_Set_Adv_Int_Comp(f, d)) : d \in Patterns(32)}
  \cup {OnPinField("adv_int_capt", d, Adio_Set_Adv_Int_Capt(f, d)) : d \in Patterns(32)}
  \cup {OnPinField("p_bus", Flag(e), Adio_Set_P_Bus_Enable(f, e)) : e \in BOOLEAN}
  \cup {OnPinField("p_bus_ready", Flag(e), Adio_Set_P_Bus_Ready_Enable(f, e)) : e \in BOOLEAN}

AdioCalls(m, f) ==
  AdioBlockCalls(f) \cup AdioRates(m, f) \cup AdioInterrupts(f) \cup AdioPinCalls(f)
    \cup {AskFifo(c, Adio_Fifo_Channel_Read(f, c)) : c \in ChannelArgs(f)}
    \cup {AskFifo(c, Adio_Fifo_Channel_Write(f, c, d)) :
            c \in ChannelArgs(f), d \in Patterns(32)}

ExtCalls(f) ==
  {OfBlock("dir", d, Ext_Clocking_Set_Dir(f, d)) : d \in Patterns(8)}
  \cup {OfBlock("edge", d, Ext_Clocking_Set_Edge(f, d)) : d \in Patterns(8)}
  \cup {OnBusField("width", b, d, Ext_Clocking_Set_Pulse_Width(f, b, d)) :
          b \in BusArgs, d \in Patterns(8)}
  \cup {OnBusField("method", b, Bits(k), Ext_Clocking_Set_Method(f, b, k)) :
          b \in BusArgs, k \in {130, 131}}

\* The DMA of the block's channels.
OnDmaField(c, data, mask, plan) == Call(<<"dma", c>>, <<"dma_setup", c>>, data, mask, plan)
OnBufferField(c, b, field, data, plan) ==
  Call(<<"buffer", c, b>>, <<field, c, b>>, data, Width(32), plan)
DmaChannelCalls(f, c) ==
  {OnDmaField(c, Bits(4) \cup Bits(Choose(u, 8)), {2, 3}, Dma_Setup(f, c, 4, u)) :
     u \in BOOLEAN}
  \cup {OnDmaField(c, Bits(d), {2}, Dma_Setup_Set_Direction(f, c, d)) : d \in {0, 3, 4}}
  \cup {OnDmaField(c, Bits(Choose(u, 8)), {3}, Dma_Setup_Set_Used(f, c, u)) : u \in BOOLEAN}
  \cup {OnDmaField(c, Bits(Choose(e, 1) + 2), {0, 1},
                   Dma_Configure_Interrupts(f, c, e, TRUE)) : e \in BOOLEAN}
  \cup {AskDma(c, p) :
          p \in {Dma_Clear_Interrupt(f, c, {"overflow", "underflow", "used", "invalid",
                                            "complete"}),
                 Dma_Status(f, c, {"buffer", "count", "action", "overflow", "used",
                                   "complete"}),
                 Dma_Get_Fifo_Counts(f, c, {"write", "read"})}}
DmaBufferCalls(f, c, b) ==
  {OnBufferField(c, b, "buffer_ctrl", d, Dma_Buffer_Setup(f, c, b, d)) : d \in Patterns(5)}
  \cup {OnBufferField(c, b, "buffer_size", d, Dma_Buffer_Set_Size(f, c, b, d)) :
          d \in {{1}, 2 .. 23, 2 .. 24}}
  \cup {AskBuffer(c, b, Dma_Reset_Buffer(f, c, b))}

DmaCalls(f) ==
  (UNION {DmaChannelCalls(f, c) : c \in ChannelArgs(f)})
    \cup (UNION {DmaBufferCalls(f, c, b) :
                   c \in ChannelArgs(f), b \in {f.num_dma_buffers - 1, f.num_dma_buffers}})

KindCalls(m, f) ==
  CASE f.type = FUNC_BLOCK.ADC -> AdcCalls(m, f)
    [] f.type = FUNC_BLOCK.DAC -> DacCalls(m, f)
    [] f.type = FUNC_BLOCK.ADIO -> AdioCalls(m, f)
    [] f.type = FUNC_BLOCK.EXT_CLOCKING -> ExtCalls(f)

Calls(m, f) == GbcCalls \cup KindCalls(m, f) \cup DmaCalls(f)
-----------------------------------------------------------------------------
(* What the functions that ask answer: the n-th value read, from bit       *)
(* `shift' on, as far as it belongs to the field.                          *)

View(plan, n, shift, of) == [plan |-> plan, n |-> n, shift |-> shift, of |-> of]
Plain(plan) == View(plan, 1, plan.shift, Width(32))

AdcView(f, field) ==
  LET c == field[2]
  IN  CASE field[1] = "start_trigger" -> Plain(Adc_Get_Start_Trigger(f))
        [] field[1] = "stop_trigger" -> Plain(Adc_Get_Stop_Trigger(f))
        [] field[1] = "clock_src" -> Plain(Adc_Get_Clock_Src(f))
        [] field[1] = "pre" -> Plain(Adc_Get_Pre_Trigger_Samples(f))
        [] field[1] = "post" -> Plain(Adc_Get_Post_Stop_Samples(f))
        [] field[1] = "bus" -> Plain(Adc_Get_Clock_Source_Global(f, c))
        [] field[1] = "int_config" -> Plain(Adc_Interrupt_Get_Config(f))
        [] field[1] = "fe_config" -> Plain(Adc_Channel_Get_Front_End_Config(f, c))
        [] field[1] = "chan_int" -> Plain(Adc_Channel_Interrupt_Get_Config(f, c))
        [] field[1] = "low" -> Plain(Adc_Channel_Get_Thresholds(f, c))
        [] field[1] = "high" -> View(Adc_Channel_Get_Thresholds(f, c), 2, 0, Width(32))

DacView(f, field) ==
  LET c == field[2]
  IN  CASE field[1] = "start_trigger" -> Plain(Dac_Get_Start_Trigger(f))
        [] field[1] = "stop_trigger" -> Plain(Dac_Get_Stop_Trigger(f))
        [] field[1] = "clock_src" -> Plain(Dac_Get_Clock_Src(f))
        [] field[1] = "clk_div" -> Plain(Dac_Get_Clock_Div(f))
        [] field[1] = "post" -> Plain(Dac_Get_Post_Stop_Conversion_Count(f))
        [] field[1] = "int_config" -> Plain(Dac_Interrupt_Get_Config(f))
        [] field[1] = "marker_config" -> Plain(Dac_Channel_Get_Marker_Config(f, c))
        [] field[1] = "last" -> Plain(Dac_Get_Last_Conversion(f, c))

AdioView(f, field) ==
  CASE field[1] = "bus" -> Plain(Adio_Get_Clock_Source_Global(f, field[2]))
    [] field[1] = "int_config" -> Plain(Adio_Interrupt_Get_Config(f))
    [] field[1] = "output" -> Plain(Adio_Get_Output_Value(f))
    [] field[1] = "direction" -> Plain(Adio_Get_Direction(f))
    [] field[1] = "adv_int_mode" -> Plain(Adio_Get_Adv_Int_Mode(f))
    [] field[1] = "adv_int_mask" -> Plain(Adio_Get_Adv_Int_Mask(f))
    [] field[1] = "adv_int_comp" -> Plain(Adio_Get_Adv_Int_Comp(f))
    [] field[1] = "adv_int_capt" -> Plain(Adio_Get_Adv_Int_Capt(f))
    [] field[1] = "p_bus" -> Plain(Adio_Get_P_Bus_Enable(f))
    [] field[1] = "p_bus_ready" -> Plain(Adio_Get_P_Bus_Ready_Enable(f))

ExtView(f, field) ==
  CASE field[1] = "dir" -> Plain(Ext_Clocking_Get_Dir(f))
    [] field[1] = "edge" -> Plain(Ext_Clocking_Get_Edge(f))
    [] field[1] = "width" -> Plain(Ext_Clocking_Get_Pulse_Width(f, field[2]))
    [] field[1] = "method" -> Plain(Ext_Clocking_Get_Method(f, field[2]))

Answered ==
  [type \in {FUNC_BLOCK.ADC, FUNC_BLOCK.DAC, FUNC_BLOCK.ADIO, FUNC_BLOCK.EXT_CLOCKING} |->
     {"dma_setup", "buffer_ctrl", "buffer_size"} \cup
     CASE type = FUNC_BLOCK.ADC ->
            {"start_trigger", "stop_trigger", "clock_src", "pre", "post", "bus", "int_config",
             "fe_config", "chan_int", "low", "high"}
       [] type = FUNC_BLOCK.DAC ->
            {"start_trigger", "stop_trigger", "clock_src", "clk_div", "post", "int_config",
             "marker_config", "last"}
       [] type = FUNC_BLOCK.ADIO ->
            {"bus", "int_config", "output", "direction", "adv_int_mode", "adv_int_mask",
             "adv_int_comp", "adv_int_capt", "p_bus", "p_bus_ready"}
       [] type = FUNC_BLOCK.EXT_CLOCKING -> {"dir", "edge", "width", "method"}]

ViewOf(f, field) ==
  CASE field[1] = "dma_setup" ->
         View(Dma_Get_Interrupt_Configuration(f, field[2]), 1, 0, {0, 1})
    [] field[1] = "buffer_ctrl" -> View(Dma_Buffer_Status(f, field[2], field[3]), 2, 0, Width(8))
    [] field[1] = "buffer_size" -> View(Dma_Buffer_Get_Size(f, field[2], field[3]), 1, 0, Width(24))
    [] OTHER ->
       CASE f.type = FUNC_BLOCK.ADC -> AdcView(f, field)
         [] f.type = FUNC_BLOCK.DAC -> DacView(f, field)
         [] f.type = FUNC_BLOCK.ADIO -> AdioView(f, field)
         [] f.type = FUNC_BLOCK.EXT_CLOCKING -> ExtView(f, field)

Answer(m, view) ==
  LET a == view.plan.accesses[view.n]
  IN  {b - view.shift : b \in {b \in region_read(m[a.region], a.offset, a.size) :
                                 b >= view.shift}} \cap view.of

\* The fields that the calls set and a function of the library answers.
Fields(m, f) ==
  {c.field : c \in {c \in Calls(m, f) :
                      c.plan.errno = "none" /\ c.field[1] \in Answered[f.type]}}
-----------------------------------------------------------------------------
(* The board: most registers hold what is written.                         *)

IsAnalog(f) == f.type \in {FUNC_BLOCK.ADC, FUNC_BLOCK.DAC}
ChannelStart(f, c) ==
  IF f.type = FUNC_BLOCK.ADC THEN AdcChannel(f, c, 0) ELSE DacChannel(f, c, 0)
Offsets(f, offset) == {ChannelStart(f, c) + offset : c \in 0 .. f.num_dma_channels - 1}

\* The low half of a write says which bits of the high half count.
Maskable(f) ==
  IF f.type = FUNC_BLOCK.EXT_CLOCKING THEN {}
  ELSE {f.control_offset + ADC.INT_ENABLE}
         \cup (IF IsAnalog(f) THEN Offsets(f, ADC_CHAN.FRONT_END_CONFIG) ELSE {})

\* A one that is written clears the bit.
WriteOneToClear(f) ==
  IF f.type = FUNC_BLOCK.EXT_CLOCKING THEN {}
  ELSE {f.control_offset + ADC.INT_STAT}
         \cup (IF IsAnalog(f) THEN Offsets(f, ADC_CHAN.INTR_STAT) ELSE {})

BoardWrite(f, m, a, data) ==
  LET old == region_read(m[a.region], a.offset, a.size)
      masked == HighHalf(data \cap Width(16))
      new == CASE a.region = "FB" /\ a.offset \in Maskable(f) ->
                    (old \ masked) \cup (data \cap masked)
               [] a.region = "FB" /\ a.offset \in WriteOneToClear(f) -> old \ data
               [] OTHER -> data
  IN  [m EXCEPT ![a.region] = region_write(@, a.offset, a.size, new)]

\* The driver's ioctl: validate_pci_access, then one of the three accesses.
Allowed(a) == validate_pci_access(Length, a) = "none"
Perform(f, m, a) ==
  CASE ~Allowed(a) \/ a.op = "read" -> m
    [] Allowed(a) /\ a.op = "write" -> BoardWrite(f, m, a, a.data)
    [] Allowed(a) /\ a.op = "modify" ->
         BoardWrite(f, m, a, modified(region_read(m[a.region], a.offset, a.size),
                                      a.data, a.mask))
-----------------------------------------------------------------------------
Idle == [accesses |-> <<>>, call |-> None]

Init ==
  /\ mem \in Images
  /\ fb = None
  /\ todo = [t \in Callers |-> Idle]
  /\ shadow = <<>>
  /\ setup = <<>>
  /\ rate = 0
  /\ refused = FALSE
  /\ fresh = [t \in Callers |-> {}]
  /\ calls = 0
  /\ events = 0

Open ==
  /\ fb = None
  /\ \E r \in Opened(mem) : fb' = r.fb
  /\ shadow' = [field \in Fields(mem, fb') |-> Answer(mem, ViewOf(fb', field))]
  /\ UNCHANGED <<mem, todo, setup, rate, refused, fresh, calls, events>>

\* A call that has set a field gives the bits `of' of it the value `set'.  Where
\* the function does not look at its channel nothing is said of the registers
\* that it ends up at: each field is from then on what it then holds.
Recorded(c) ==
  IF c.asks = "unchecked" THEN [field \in DOMAIN shadow |-> Answer(mem', ViewOf(fb, field))]
  ELSE IF c.field \in DOMAIN shadow
    THEN [shadow EXCEPT ![c.field] = (@ \ c.of) \cup (c.set \cap c.of)]
    ELSE shadow

\* A channel is set up for a range, or for none.
SetUp(channel, range) ==
  [c \in DOMAIN setup \cup {channel} |-> IF c = channel THEN range ELSE setup[c]]

\* The effect of the access a of the call c; the last one completes the call.
Step(t, c, a, rest) ==
  /\ mem' = Perform(fb, mem, a)
  /\ refused' = (refused \/ (~Allowed(a) /\ c.asks # "unchecked"))
  /\ todo' = [todo EXCEPT ![t] = IF rest = <<>> THEN Idle
                                 ELSE [accesses |-> rest, call |-> c]]
  /\ shadow' = IF rest = <<>> THEN Recorded(c) ELSE shadow
  /\ setup' = IF c.field[1] = "fe_config" THEN SetUp(c.field[2], c.range) ELSE setup
  /\ rate' = IF c.field[1] = "clk_div" THEN c.rate ELSE rate

\* A call that is refused by the library makes no access.
Begin(t) ==
  /\ fb # None
  /\ calls < MaxCalls
  /\ todo[t] = Idle
  /\ \E c \in Calls(mem, fb) :
       todo' = [todo EXCEPT ![t] = IF c.plan.errno = "none"
                                     THEN [accesses |-> c.plan.accesses, call |-> c]
                                     ELSE Idle]
  /\ calls' = calls + 1
  /\ fresh' = [fresh EXCEPT ![t] = {}]
  /\ UNCHANGED <<mem, fb, shadow, setup, rate, refused, events>>

Continue(t) ==
  /\ todo[t] # Idle
  /\ LET next == todo[t].accesses
     IN  Step(t, todo[t].call, Head(next), Tail(next))
  /\ UNCHANGED <<fb, fresh, calls, events>>

\* An event sets a bit of a status register.
StatusBits(f) ==
  IF f.type = FUNC_BLOCK.EXT_CLOCKING THEN {}
  ELSE {8 * (f.control_offset + ADC.INT_STAT)}
         \cup (IF IsAnalog(f)
                 THEN {8 * (ChannelStart(f, c) + ADC_CHAN.INTR_STAT) + 1 : c \in Channels(f)}
                 ELSE {})

BoardEvent ==
  /\ fb # None
  /\ events < MaxEvents
  /\ \E b \in StatusBits(fb) :
       /\ mem' = [mem EXCEPT !["FB"] = @ \cup {b}]
       /\ fresh' = [t \in Callers |-> IF todo[t] = Idle THEN fresh[t] ELSE fresh[t] \cup {b}]
  /\ events' = events + 1
  /\ UNCHANGED <<fb, todo, shadow, setup, rate, refused, calls>>

Next ==
  \/ Open
  \/ BoardEvent
  \/ \E t \in Callers : Begin(t) \/ Continue(t)

Spec == Init /\ [][Next]_vars
-----------------------------------------------------------------------------
(* Properties.                                                             *)

\* The driver never touches a byte outside the regions, whatever offset a library
\* function makes of an argument that it does not look at.
RegistersTypeOK ==
  /\ DOMAIN mem = {"GBC", "FB"}
  /\ \A r \in DOMAIN mem : \A b \in mem[r] : b \in 0 .. 8 * Length[r] - 1
  /\ rate \in Nat
  /\ calls \in 0 .. MaxCalls /\ events \in 0 .. MaxEvents

\* Whatever a library function asks of the driver after it has accepted its
\* arguments, validate_pci_access lets pass: no offset that is computed from the
\* board's tables and a channel or buffer number leaves the region or is not
\* aligned, up to the last channel and the last buffer.  (A channel that does not
\* exist, given to a function that does not look at it, is the driver's to refuse.)
DriverAccepts == ~refused

\* At any time, in the middle of the calls of either thread too, a function that
\* asks for a setting answers what the last calls of the functions that set it
\* have set, and otherwise what was there at the opening, whichever other
\* functions have been called in between and whichever bits of the register, or
\* of the registers next to it, they write.
GettersAgree ==
  \A field \in DOMAIN shadow :
    LET view == ViewOf(fb, field)
    IN  Answer(mem, view) = shadow[field] \cap view.of

\* The bits of the registers that a part of a block has.
Extent(f, owner) ==
  LET bytes(first, size) == 8 * first .. 8 * (first + size) - 1
      kind(adc, dac, adio) ==
        CASE f.type = FUNC_BLOCK.ADC -> adc [] f.type = FUNC_BLOCK.DAC -> dac
          [] OTHER -> adio
      chan == kind(ADC_CHAN, DAC_CHAN, ADIO_CHAN)
  IN  CASE owner[1] = "block" ->
             bytes(f.control_offset, IF f.type = FUNC_BLOCK.EXT_CLOCKING THEN 16 ELSE chan.START)
        [] owner[1] = "pins" -> bytes(f.control_offset + ADIO_CHAN.START, 30)
        [] owner[1] = "channel" ->
             bytes(f.control_offset + chan.START + owner[2] * chan.SIZE, chan.SIZE)
        [] owner[1] = "fifo" -> bytes(f.fb_offset + chan.FIFO_START + 4 * owner[2], 4)
        [] owner[1] = "dma" -> bytes(DmaChannel(f, owner[2]), 16)
        [] owner[1] = "buffer" -> bytes(DmaBuffer(f, owner[2], owner[3]), 16)
        [] owner[1] = "board" -> {}

\* An access of a call changes only registers of the part of the function block
\* that the call is about: a channel's call leaves all other channels, the
\* buffers and the block alone, at both ends of the range of the channels; and no
\* call changes the board's table of its function blocks.
Flipped(region) == (mem'[region] \ mem[region]) \cup (mem[region] \ mem'[region])
ChannelsApart ==
  [][\A t \in Callers :
       todo[t] # Idle /\ todo'[t] # todo[t]
         => /\ Flipped("FB") \subseteq Extent(fb, todo[t].call.owner)
            /\ Flipped("GBC") \subseteq (IF todo[t].call.owner[1] = "board"
                                           THEN 16 .. 31 ELSE {})]_vars

\* Pairs of the bit that enables an interrupt source and its status bit.
EnablePairs(f) ==
  LET pairs(enable, status, n) == {<<8 * enable + b, 8 * status + b>> : b \in Width(n)}
  IN  IF f.type = FUNC_BLOCK.EXT_CLOCKING THEN {}
      ELSE pairs(f.control_offset + ADC.INT_ENABLE + 2, f.control_offset + ADC.INT_STAT, 16)
        \cup (IF f.type = FUNC_BLOCK.ADC
                THEN UNION {pairs(AdcChannel(f, c, ADC_CHAN.INTR_ENABLE),
                                  AdcChannel(f, c, ADC_CHAN.INTR_STAT), 8) : c \in Channels(f)}
                ELSE {})

\* "Clear the interrupt status first": when a source becomes enabled its status
\* is clear, unless the board has raised it since the call that enables it began;
\* no event of the past raises an interrupt.
NoStaleEnable ==
  [][fb # None =>
       \A p \in EnablePairs(fb) :
         p[1] \in mem'["FB"] \ mem["FB"] /\ p[2] \in mem'["FB"]
           => \A t \in Callers : todo'[t] # todo[t] => p[2] \in fresh[t]]_vars

\* The rate that a function answers is the one that the board makes of the
\* register: the clock divided by one more than the register holds.
RatesAgree ==
  rate # 0 =>
    rate = Gbc_Get_Sys_Clock_Freq(mem).freq
             \div (Number(region_read(mem["FB"], fb.control_offset + ADC.CLK_DIV, 32)) + 1)

\* Twice the gain of an ADC channel, by the bits 2 to 4 of its front end.
TwiceGain(code) ==
  CASE code = 4 -> 1 [] code = 0 -> 2 [] code = 1 -> 4 [] code = 2 -> 8 [] code = 3 -> 16

\* For a channel that was set up, the bits its front end holds fit the scale that
\* the conversion between samples and volts uses for the range: gain times weight
\* is the same for all ranges, values below zero exist exactly in the bipolar
\* ones, and a value turned into volts and back is the value again, whenever the
\* function that turns it back succeeds.
AdcScale(range, fe) ==
  /\ TwiceGain((fe \div 4) % 8) * range.lsb = 80
  /\ (fe \div 2) % 2 = 0 <=> -1 \in SampleValues(range)
  /\ \A sample \in {-2048, -1, 0, 1, 2047, 4095} \cap SampleValues(range) :
       Adc_Volts_To_Sample(range, Adc_Sample_To_Volts(range, sample).value).value = sample

\* The way back answers through a variable of 16 bits, and fails on what that held
\* before the call: it succeeds when that was a conversion.
OldConversions == {-32768, -1, 0, 4095, 4096, 32767}
DacScale(range, fe) ==
  /\ range.lsb = 20 * (1 + (fe % 2)) * (1 + ((fe \div 2) % 2))
  /\ range.offset = 2048 * ((fe \div 2) % 2)
  /\ \A conversion \in {0, 1, 2047, 2048, 4095} :
       LET volts == Dac_Conv_To_Volts(range, conversion).value
       IN  \A old \in OldConversions :
             LET back == Dac_Volts_To_Conv(range, volts, old)
             IN  /\ back.errno = "none" => back.value = conversion
                 /\ Dac_Validate_Conv(old) => back.errno = "none"
ScalesAgree ==
  \A c \in {c \in DOMAIN setup : setup[c] # None} :
    LET fe == Number(region_read(mem["FB"], ChannelStart(fb, c) + 2, 16))
    IN  IF fb.type = FUNC_BLOCK.ADC THEN AdcScale(setup[c], fe) ELSE DacScale(setup[c], fe)

\* What the functions compute in the application agrees with what the board makes
\* of the registers that they have written: rates, ranges and scales.
UnitsAgree == RatesAgree /\ ScalesAgree

\* "Get the filter value for the channel": asking for the filter of a channel
\* changes no register.
AskingChangesNothing ==
  [][\A t \in Callers :
       todo[t] # Idle /\ todo'[t] # todo[t] /\ todo[t].call.asks = "filter"
         => Flipped("FB") = {}]_vars
=============================================================================
