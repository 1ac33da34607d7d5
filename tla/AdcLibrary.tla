------------------------------- MODULE AdcLibrary -------------------------------
(***************************************************************************)
(* The functions of the ADC library (lib/librtd-dm35425_adc.c): which      *)
(* arguments each refuses and which registers it reads and writes.  `fb'   *)
(* is the descriptor of the opened function block.                         *)
(***************************************************************************)
EXTENDS GbcLibrary

AdcReg(fb, offset) == fb.control_offset + offset
\* A plausible error: the size of a channel of the DAC.
AdcChannel_DacSize(fb, channel, offset) ==
  fb.control_offset + ADC_CHAN.START + channel * DAC_CHAN.SIZE + offset
AdcChannel(fb, channel, offset) ==
  fb.control_offset + ADC_CHAN.START + channel * ADC_CHAN.SIZE + offset

\* A plausible error: the comparison that lets the number itself pass.
AdcChannelOk_OneMore(fb, channel) == channel \in 0 .. fb.num_dma_channels
AdcChannelOk(fb, channel) == channel \in 0 .. fb.num_dma_channels - 1
OnChannel(fb, channel, accesses) == Checked(AdcChannelOk(fb, channel), accesses)

Adc_Validate_Clock(clk_src) == clk_src \in ClockSources

AdcClockEvents == {0} \cup 128 .. 135
Adc_Validate_Clock_Global_Source(select, driver) ==
  driver \in AdcClockEvents /\ select \in Buses

Adc_Open(m, n) == Function_Block_Open_Module(m, FUNC_BLOCK.ADC, n)
-----------------------------------------------------------------------------
(* Clocks, triggers and counts.                                            *)

Adc_Get_Start_Trigger(fb) == Request(<<Read(AdcReg(fb, ADC.START_TRIG), 8)>>)

Adc_Set_Start_Trigger(fb, trigger) ==
  Checked(Adc_Validate_Clock(trigger),
          <<Write(AdcReg(fb, ADC.START_TRIG), 8, Bits(trigger))>>)

Adc_Get_Stop_Trigger(fb) == Request(<<Read(AdcReg(fb, ADC.STOP_TRIG), 8)>>)

Adc_Set_Stop_Trigger(fb, trigger) ==
  Checked(Adc_Validate_Clock(trigger),
          <<Write(AdcReg(fb, ADC.STOP_TRIG), 8, Bits(trigger))>>)

Adc_Get_Pre_Trigger_Samples(fb) ==
  Request(<<Read(AdcReg(fb, ADC.PRE_CAPT_COUNT), 32)>>)

Adc_Set_Pre_Trigger_Samples(fb, count) ==
  Checked(count <= FIFO_SAMPLE_SIZE,
          <<Write(AdcReg(fb, ADC.PRE_CAPT_COUNT), 32, Bits(count))>>)

Adc_Get_Post_Stop_Samples(fb) ==
  Request(<<Read(AdcReg(fb, ADC.POST_CAPT_COUNT), 32)>>)

Adc_Set_Post_Stop_Samples(fb, data) ==
  Request(<<Write(AdcReg(fb, ADC.POST_CAPT_COUNT), 32, data)>>)

Adc_Get_Clock_Src(fb) == Request(<<Read(AdcReg(fb, ADC.CLK_SRC), 8)>>)

Adc_Set_Clock_Src(fb, source) ==
  Checked(Adc_Validate_Clock(source),
          <<Write(AdcReg(fb, ADC.CLK_SRC), 8, Bits(source))>>)

Adc_Set_Clk_Divider(fb, data) == Request(<<Write(AdcReg(fb, ADC.CLK_DIV), 32, data)>>)

Adc_Get_Sample_Count(fb) == Request(<<Read(AdcReg(fb, ADC.SAMPLE_COUNT), 32)>>)

Adc_Set_Clock_Source_Global(fb, select, driver) ==
  Checked(Adc_Validate_Clock_Global_Source(select, driver),
          <<Write(AdcReg(fb, BusRegister(ADC.CLK_BUS2, select)), 8, Bits(driver))>>)

Adc_Get_Clock_Source_Global(fb, select) ==
  IF select \in Buses
    THEN Request(<<Read(AdcReg(fb, BusRegister(ADC.CLK_BUS2, select)), 8)>>)
    ELSE Rejected("none_set")

ADC_MAX_RATE == 1250000

\* The rate is the system clock divided by a whole number, and the register
\* holds that number less one.
AdcDivider(clock, rate) == Max({clock \div rate, 1})

Adc_Set_Sample_Rate(m, fb, rate) ==
  LET clock == Gbc_Get_Sys_Clock_Freq(m)
  IN  CASE rate \notin 1 .. ADC_MAX_RATE -> Rejected("EINVAL")
        [] rate \in 1 .. ADC_MAX_RATE /\ ~clock.is_std_clk -> Rejected("ENODEV")
        [] OTHER -> Adc_Set_Clk_Divider(fb, Bits(AdcDivider(clock.freq, rate) - 1))

AdcActualRate(clock, rate) == clock \div AdcDivider(clock, rate)
-----------------------------------------------------------------------------
(* The mode of the block and its interrupts.                               *)

ADC_MODE == [RESET |-> 0, PAUSE |-> 1, GO_SINGLE_SHOT |-> 2, GO_REARM |-> 3,
             UNINITIALIZED |-> 4]
AdcMode(fb, mode) == Request(<<Write(AdcReg(fb, ADC.MODE_STATUS), 8, Bits(mode))>>)

Adc_Start(fb) == AdcMode(fb, ADC_MODE.GO_SINGLE_SHOT)
Adc_Start_Rearm(fb) == AdcMode(fb, ADC_MODE.GO_REARM)
Adc_Reset(fb) == AdcMode(fb, ADC_MODE.RESET)
Adc_Pause(fb) == AdcMode(fb, ADC_MODE.PAUSE)
Adc_Uninitialize(fb) == AdcMode(fb, ADC_MODE.UNINITIALIZED)
Adc_Get_Mode_Status(fb) == Request(<<Read(AdcReg(fb, ADC.MODE_STATUS), 8)>>)

Adc_Interrupt_Get_Status(fb) == Request(<<Read(AdcReg(fb, ADC.INT_STAT), 16)>>)
Adc_Interrupt_Clear_Status(fb, sources) ==
  Request(<<Write(AdcReg(fb, ADC.INT_STAT), 16, sources)>>)

HighHalf(bits) == {b + 16 : b \in bits}
\* util_library: the data in the high half, and which of its bits count below.
Get_Maskable(data, mask) == HighHalf(data \cap Width(16)) \cup (mask \cap Width(16))

\* A plausible error: the status is left as it is.
Adc_Interrupt_Set_Config_NoClear(fb, sources, enable) ==
  Request(<<Write(AdcReg(fb, ADC.INT_ENABLE), 32,
                  Get_Maskable(IF enable THEN Width(16) ELSE {}, sources))>>)

\* Enabling first clears the status, so that old events raise no interrupt.
Adc_Interrupt_Set_Config(fb, sources, enable) ==
  Then(IF enable THEN Adc_Interrupt_Clear_Status(fb, sources) ELSE Request(<<>>),
       Request(<<Write(AdcReg(fb, ADC.INT_ENABLE), 32,
                       Get_Maskable(IF enable THEN Width(16) ELSE {}, sources))>>))

Adc_Interrupt_Get_Config(fb) ==
  Shifted(Request(<<Read(AdcReg(fb, ADC.INT_ENABLE), 32)>>), 16)
-----------------------------------------------------------------------------
(* Channels.                                                               *)

Adc_Validate_Channel_Delay(delay) == delay \in 0 .. 3
Adc_Validate_Input_Mode(mode) == mode \in {"single_ended", "differential"}

\* For each input range: the gain and the polarity its channel is given, twice
\* the gain in figures, and the weight of the lowest bit, in 1/16384 V.
InputRanges ==
  { [name |-> "BIPOLAR_10V",    code |-> 16, twice_gain |->  1, lsb |-> 80],
    [name |-> "BIPOLAR_5V",     code |->  0, twice_gain |->  2, lsb |-> 40],
    [name |-> "BIPOLAR_2_5V",   code |->  4, twice_gain |->  4, lsb |-> 20],
    [name |-> "BIPOLAR_1_25V",  code |->  8, twice_gain |->  8, lsb |-> 10],
    [name |-> "BIPOLAR_625mV",  code |-> 12, twice_gain |-> 16, lsb |->  5],
    [name |-> "UNIPOLAR_10V",   code |->  2, twice_gain |->  2, lsb |-> 40],
    [name |-> "UNIPOLAR_5V",    code |->  6, twice_gain |->  4, lsb |-> 20],
    [name |-> "UNIPOLAR_2_5V",  code |-> 10, twice_gain |->  8, lsb |-> 10],
    [name |-> "UNIPOLAR_1_25V", code |-> 14, twice_gain |-> 16, lsb |->  5] }

Adc_Validate_Input_Range(range) == range \in InputRanges
SampleValues(range) == IF 1 \in Bits(range.code) THEN 0 .. 4095 ELSE -2048 .. 2047
Adc_Validate_Sample(range, sample) == sample \in SampleValues(range)

Adc_Validate_Channel_Setup(fb, channel, delay, range, mode) ==
  /\ AdcChannelOk(fb, channel)
  /\ Adc_Validate_Channel_Delay(delay)
  /\ Adc_Validate_Input_Mode(mode)
  /\ Adc_Validate_Input_Range(range)

ADC_FE_CONFIG == [MODE |-> 1, POLARITY |-> 2, GAIN |-> 28, ENABLE |-> 32, DELAY |-> 192]
FrontEnd(fb, channel) == AdcChannel(fb, channel, ADC_CHAN.FRONT_END_CONFIG)

Adc_Channel_Setup(fb, channel, delay, range, mode) ==
  Checked(Adc_Validate_Channel_Setup(fb, channel, delay, range, mode),
          <<Write(FrontEnd(fb, channel), 32,
             Get_Maskable(Bits(64 * delay), Bits(ADC_FE_CONFIG.DELAY))
               \cup Get_Maskable(Bits(range.code),
                                 Bits(ADC_FE_CONFIG.GAIN + ADC_FE_CONFIG.POLARITY))
               \cup Get_Maskable(Bits((IF mode = "differential" THEN 1 ELSE 0)
                                        + ADC_FE_CONFIG.ENABLE),
                                 Bits(ADC_FE_CONFIG.MODE + ADC_FE_CONFIG.ENABLE)))>>)

Adc_Channel_Reset(fb, channel) ==
  OnChannel(fb, channel, <<Write(FrontEnd(fb, channel), 32, Get_Maskable({}, Width(16)))>>)

Adc_Channel_Get_Front_End_Config(fb, channel) ==
  Shifted(OnChannel(fb, channel, <<Read(FrontEnd(fb, channel), 32)>>), 16)

\* The number of the channel is not looked at.
Adc_Channel_Get_Last_Sample(fb, channel) ==
  Request(<<Read(AdcChannel(fb, channel, ADC_CHAN.LAST_SAMPLE), 32)>>)

Adc_Channel_Interrupt_Get_Config(fb, channel) ==
  OnChannel(fb, channel, <<Read(AdcChannel(fb, channel, ADC_CHAN.INTR_ENABLE), 8)>>)

Adc_Channel_Interrupt_Get_Status(fb, channel) ==
  OnChannel(fb, channel, <<Read(AdcChannel(fb, channel, ADC_CHAN.INTR_STAT), 8)>>)

Adc_Channel_Interrupt_Clear_Status(fb, channel, sources) ==
  OnChannel(fb, channel,
    <<Modify(AdcChannel(fb, channel, ADC_CHAN.INTR_STAT), 8, Width(8), sources)>>)

Adc_Channel_Interrupt_Set_Config(fb, channel, sources, enable) ==
  Then(IF enable THEN Adc_Channel_Interrupt_Clear_Status(fb, channel, sources)
                 ELSE OnChannel(fb, channel, <<>>),
       OnChannel(fb, channel,
         <<Modify(AdcChannel(fb, channel, ADC_CHAN.INTR_ENABLE), 8,
                  IF enable THEN Width(8) ELSE {}, sources)>>))

\* The search goes through the channels until one has an interrupt pending that
\* is enabled, and answers the number of channels when there is none.
Adc_Channel_Find_Interrupt(m, fb) ==
  LET reg(c, offset) == region_read(m["FB"], AdcChannel(fb, c, offset), 8)
      has == {c \in 0 .. fb.num_dma_channels - 1 :
                reg(c, ADC_CHAN.INTR_STAT) \cap reg(c, ADC_CHAN.INTR_ENABLE) # {}}
  IN  IF has = {} THEN fb.num_dma_channels ELSE Min(has)

Adc_Channel_Set_Filter(fb, channel, filter) ==
  OnChannel(fb, channel, <<Write(AdcChannel(fb, channel, ADC_CHAN.FILTER), 8, filter)>>)

\* The request that is to read the filter is a WRITE, of what is on the stack.
Adc_Channel_Get_Filter(fb, channel, stack) ==
  OnChannel(fb, channel, <<Write(AdcChannel(fb, channel, ADC_CHAN.FILTER), 8, stack)>>)

Thresholds == 0 .. 4095
Adc_Channel_Set_Low_Threshold(fb, channel, threshold) ==
  Checked(AdcChannelOk(fb, channel) /\ threshold \in Thresholds,
          <<Write(AdcChannel(fb, channel, ADC_CHAN.LOW_THRESHOLD), 32, Bits(threshold))>>)
Adc_Channel_Set_High_Threshold(fb, channel, threshold) ==
  Checked(AdcChannelOk(fb, channel) /\ threshold \in Thresholds,
          <<Write(AdcChannel(fb, channel, ADC_CHAN.HIGH_THRESHOLD), 32, Bits(threshold))>>)
Adc_Channel_Get_Thresholds(fb, channel) ==
  OnChannel(fb, channel,
    <<Read(AdcChannel(fb, channel, ADC_CHAN.LOW_THRESHOLD), 32),
      Read(AdcChannel(fb, channel, ADC_CHAN.HIGH_THRESHOLD), 32)>>)

HasFifo(fb) == fb.type_revision >= FIFO_ACCESS_FB_REVISION
Adc_Fifo_Channel_Read(fb, channel) ==
  IF AdcChannelOk(fb, channel) /\ ~HasFifo(fb) THEN Rejected("EPERM")
  ELSE OnChannel(fb, channel,
         <<Read(fb.fb_offset + ADC_CHAN.FIFO_START + channel * ADC_CHAN.FIFO_SIZE, 32)>>)
-----------------------------------------------------------------------------
(* Samples and voltages; a voltage is in units of 1/16384 V.               *)

Converted(valid, value) ==
  IF valid THEN [errno |-> "none", value |-> value] ELSE Rejected("EINVAL")

\* What the cast of C makes of a quotient: it is cut towards zero.
Quotient(n, d) == IF n >= 0 THEN n \div d ELSE -((-n) \div d)

Adc_Sample_To_Volts(range, sample) ==
  Converted(Adc_Validate_Sample(range, sample), range.lsb * sample)

Adc_Volts_To_Sample(range, volts) ==
  LET sample == Quotient(volts, range.lsb)
  IN  Converted(Adc_Validate_Sample(range, sample), sample)
=============================================================================
