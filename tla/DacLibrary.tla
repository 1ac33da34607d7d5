------------------------------- MODULE DacLibrary -------------------------------
(***************************************************************************)
(* The functions of the DAC library (lib/librtd-dm35425_dac.c).            *)
(***************************************************************************)
EXTENDS AdcLibrary

DacReg(fb, offset) == fb.control_offset + offset
DacChannel(fb, channel, offset) ==
  fb.control_offset + DAC_CHAN.START + channel * DAC_CHAN.SIZE + offset

Dac_Validate_Trigger(trigger) == trigger \in ClockSources

DacClockEvents == {0, 128, 129, 131, 132, 133}
Dac_Validate_Clock_Global_Src_Args(select, driver) ==
  driver \in DacClockEvents /\ select \in Buses

Dac_Open(m, n) == Function_Block_Open_Module(m, FUNC_BLOCK.DAC, n)
-----------------------------------------------------------------------------
\* The source of the clock is not looked at, as it is for the ADC.
Dac_Set_Clock_Src(fb, source) ==
  Request(<<Write(DacReg(fb, DAC.CLK_SRC), 8, Bits(source))>>)
Dac_Get_Clock_Src(fb) == Request(<<Read(DacReg(fb, DAC.CLK_SRC), 8)>>)

Dac_Get_Clock_Div(fb) == Request(<<Read(DacReg(fb, DAC.CLK_DIV), 32)>>)
Dac_Set_Clock_Div(fb, data) == Request(<<Write(DacReg(fb, DAC.CLK_DIV), 32, data)>>)

\* What the DAC and the ADIO make of the quotient of the clock and the rate.
PacerDivider(quotient) == IF quotient < 2 THEN 1 ELSE quotient - 1

PacerRate(m, rate, max, offset) ==
  LET clock == Gbc_Get_Sys_Clock_Freq(m)
  IN  CASE rate \notin 1 .. max -> Rejected("EINVAL")
        [] rate \in 1 .. max /\ ~clock.is_std_clk -> Rejected("ENODEV")
        [] OTHER -> Request(<<Write(offset, 32, Bits(PacerDivider(clock.freq \div rate)))>>)
PacerActualRate(clock, rate) == clock \div (clock \div rate)

DAC_MAX_RATE == 200000
Dac_Set_Conversion_Rate(m, fb, rate) ==
  PacerRate(m, rate, DAC_MAX_RATE, DacReg(fb, DAC.CLK_DIV))

Dac_Set_Start_Trigger(fb, trigger) ==
  Checked(Dac_Validate_Trigger(trigger),
          <<Write(DacReg(fb, DAC.START_TRIG), 8, Bits(trigger))>>)
Dac_Set_Stop_Trigger(fb, trigger) ==
  Checked(Dac_Validate_Trigger(trigger),
          <<Write(DacReg(fb, DAC.STOP_TRIG), 8, Bits(trigger))>>)
Dac_Get_Start_Trigger(fb) == Request(<<Read(DacReg(fb, DAC.START_TRIG), 8)>>)
Dac_Get_Stop_Trigger(fb) == Request(<<Read(DacReg(fb, DAC.STOP_TRIG), 8)>>)

Dac_Set_Post_Stop_Conversion_Count(fb, data) ==
  Request(<<Write(DacReg(fb, DAC.POST_STOP_CONV), 32, data)>>)
Dac_Get_Post_Stop_Conversion_Count(fb) ==
  Request(<<Read(DacReg(fb, DAC.POST_STOP_CONV), 32)>>)
Dac_Get_Conversion_Count(fb) == Request(<<Read(DacReg(fb, DAC.CONV_COUNT), 32)>>)

Dac_Set_Clock_Source_Global(fb, clock, driver) ==
  Checked(Dac_Validate_Clock_Global_Src_Args(clock, driver),
          <<Write(DacReg(fb, BusRegister(DAC.CLK_BUS2, clock)), 8, Bits(driver))>>)
-----------------------------------------------------------------------------
DAC_MODE == [RESET |-> 0, PAUSE |-> 1, GO_SINGLE_SHOT |-> 2]
DacMode(fb, mode) == Request(<<Write(DacReg(fb, DAC.MODE_STATUS), 8, Bits(mode))>>)

Dac_Start(fb) == DacMode(fb, DAC_MODE.GO_SINGLE_SHOT)
Dac_Reset(fb) == DacMode(fb, DAC_MODE.RESET)
Dac_Pause(fb) == DacMode(fb, DAC_MODE.PAUSE)
Dac_Get_Mode_Status(fb) == Request(<<Read(DacReg(fb, DAC.MODE_STATUS), 8)>>)

Dac_Interrupt_Get_Status(fb) == Request(<<Read(DacReg(fb, DAC.INT_STAT), 16)>>)
Dac_Interrupt_Clear_Status(fb, sources) ==
  Request(<<Write(DacReg(fb, DAC.INT_STAT), 16, sources)>>)

Dac_Interrupt_Set_Config(fb, sources, enable) ==
  Then(IF enable THEN Dac_Interrupt_Clear_Status(fb, sources) ELSE Request(<<>>),
       Request(<<Write(DacReg(fb, DAC.INT_ENABLE), 32,
                       Get_Maskable(IF enable THEN Width(16) ELSE {}, sources))>>))
Dac_Interrupt_Get_Config(fb) ==
  Shifted(Request(<<Read(DacReg(fb, DAC.INT_ENABLE), 32)>>), 16)
-----------------------------------------------------------------------------
(* Channels.                                                               *)

\* For each output range: the gain and the polarity its channel is given, the
\* gain in figures, the weight of the lowest bit and the offset of zero volts.
OutputRanges ==
  { [name |-> "BIPOLAR_5V",   code |-> 2, gain |-> 1, lsb |-> 40, offset |-> 2048],
    [name |-> "BIPOLAR_10V",  code |-> 3, gain |-> 2, lsb |-> 80, offset |-> 2048],
    [name |-> "UNIPOLAR_5V",  code |-> 0, gain |-> 1, lsb |-> 20, offset |-> 0],
    [name |-> "UNIPOLAR_10V", code |-> 1, gain |-> 2, lsb |-> 40, offset |-> 0] }

Dac_Validate_Output_Range(range) == range \in OutputRanges

NUM_DAC_DMA_CHANNELS == 4
DAC_FE_CONFIG == [GAIN |-> 1, POLARITY |-> 2, ENABLE |-> 4]
DacFrontEnd(fb, channel) == DacChannel(fb, channel, DAC_CHAN.FRONT_END_CONFIG)

\* A plausible error: the polarity is not in the mask.
Dac_Channel_Setup_NoPolarity(fb, channel, range) ==
  Checked(Dac_Validate_Output_Range(range) /\ channel < NUM_DAC_DMA_CHANNELS,
          <<Write(DacFrontEnd(fb, channel), 32,
                  Get_Maskable(Bits(DAC_FE_CONFIG.ENABLE + range.code),
                               Bits(DAC_FE_CONFIG.ENABLE + DAC_FE_CONFIG.GAIN)))>>)

Dac_Channel_Setup(fb, channel, range) ==
  Checked(Dac_Validate_Output_Range(range) /\ channel < NUM_DAC_DMA_CHANNELS,
          <<Write(DacFrontEnd(fb, channel), 32,
                  Get_Maskable(Bits(DAC_FE_CONFIG.ENABLE + range.code),
                               Bits(DAC_FE_CONFIG.ENABLE + DAC_FE_CONFIG.GAIN
                                      + DAC_FE_CONFIG.POLARITY)))>>)
Dac_Channel_Reset(fb, channel) ==
  Checked(channel < NUM_DAC_DMA_CHANNELS,
          <<Write(DacFrontEnd(fb, channel), 32, Get_Maskable({}, Width(16)))>>)

Dac_Channel_Set_Marker_Config(fb, channel, markers) ==
  Request(<<Write(DacChannel(fb, channel, DAC_CHAN.MARKER_ENABLE), 8, markers)>>)
Dac_Channel_Get_Marker_Config(fb, channel) ==
  Request(<<Read(DacChannel(fb, channel, DAC_CHAN.MARKER_ENABLE), 8)>>)
Dac_Channel_Get_Marker_Status(fb, channel) ==
  Request(<<Read(DacChannel(fb, channel, DAC_CHAN.MARKER_STATUS), 8)>>)
Dac_Channel_Clear_Marker_Status(fb, channel, markers) ==
  Request(<<Write(DacChannel(fb, channel, DAC_CHAN.MARKER_STATUS), 8, markers)>>)

\* The value is a signed one of 16 bits: extended to 32 bits, a negative one
\* covers the markers.
SignExtended(value) == IF 15 \in value THEN value \cup 16 .. 31 ELSE value
Dac_Set_Last_Conversion(fb, channel, markers, value) ==
  Request(<<Write(DacChannel(fb, channel, DAC_CHAN.LAST_CONVERSION), 32,
                  {b + 24 : b \in markers} \cup SignExtended(value))>>)

\* The value is in the low half of what is read, the markers in the top byte.
Dac_Get_Last_Conversion(fb, channel) ==
  Request(<<Read(DacChannel(fb, channel, DAC_CHAN.LAST_CONVERSION), 32)>>)

Dac_Fifo_Channel_Write(fb, channel, data) ==
  IF AdcChannelOk(fb, channel) /\ ~HasFifo(fb) THEN Rejected("EPERM")
  ELSE OnChannel(fb, channel,
         <<Write(fb.fb_offset + DAC_CHAN.FIFO_START + channel * DAC_CHAN.FIFO_SIZE,
                 32, data)>>)
-----------------------------------------------------------------------------
(* Conversions and voltages; a voltage is in units of 1/16384 V.           *)

Dac_Validate_Conv(conversion) == conversion \in 0 .. 4095

\* What is validated is the conversion that was in the caller's variable before.
Dac_Volts_To_Conv(range, volts, old) ==
  Converted(Dac_Validate_Conv(old), Quotient(volts, range.lsb) + range.offset)

Dac_Conv_To_Volts(range, conversion) ==
  Converted(Dac_Validate_Conv(conversion), range.lsb * (conversion - range.offset))
=============================================================================
