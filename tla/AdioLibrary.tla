------------------------------- MODULE AdioLibrary -------------------------------
(***************************************************************************)
(* The functions of the advanced digital I/O library                       *)
(* (lib/librtd-dm35425_adio.c).                                            *)
(***************************************************************************)
EXTENDS DacLibrary

AdioReg(fb, offset) == fb.control_offset + offset
AdioPins(fb, offset) == fb.control_offset + ADIO_CHAN.START + offset

Adio_Validate_Clock(clk_src) == clk_src \in ClockSources

AdioClockEvents == {0} \cup 128 .. 134
Adio_Validate_Clock_Global_Source(select, source) ==
  source \in AdioClockEvents /\ select \in Buses

\* Disabled, match and event.
Validate_Adv_Interrupt_Mode(mode) == mode \in 0 .. 2

Adio_Open(m, n) == Function_Block_Open_Module(m, FUNC_BLOCK.ADIO, n)
-----------------------------------------------------------------------------
ADIO_MODE == [RESET |-> 0, PAUSE |-> 1, GO_SINGLE_SHOT |-> 2, GO_REARM |-> 3,
              UNINITIALIZED |-> 4]
AdioMode(fb, mode) == Request(<<Write(AdioReg(fb, ADIO.MODE_STATUS), 8, Bits(mode))>>)

Adio_Start(fb) == AdioMode(fb, ADIO_MODE.GO_SINGLE_SHOT)
Adio_Start_Rearm(fb) == AdioMode(fb, ADIO_MODE.GO_REARM)
Adio_Reset(fb) == AdioMode(fb, ADIO_MODE.RESET)
Adio_Pause(fb) == AdioMode(fb, ADIO_MODE.PAUSE)
Adio_Uninitialize(fb) == AdioMode(fb, ADIO_MODE.UNINITIALIZED)
Adio_Get_Mode_Status(fb) == Request(<<Read(AdioReg(fb, ADIO.MODE_STATUS), 8)>>)
-----------------------------------------------------------------------------
Adio_Set_Clock_Src(fb, source) ==
  Checked(Adio_Validate_Clock(source),
          <<Write(AdioReg(fb, ADIO.CLK_SRC), 8, Bits(source))>>)
Adio_Set_Start_Trigger(fb, trigger) ==
  Checked(Adio_Validate_Clock(trigger),
          <<Write(AdioReg(fb, ADIO.START_TRIG), 8, Bits(trigger))>>)
Adio_Set_Stop_Trigger(fb, trigger) ==
  Checked(Adio_Validate_Clock(trigger),
          <<Write(AdioReg(fb, ADIO.STOP_TRIG), 8, Bits(trigger))>>)

Adio_Set_Clk_Divider(fb, data) == Request(<<Write(AdioReg(fb, ADIO.CLK_DIV), 32, data)>>)
Adio_Get_Clk_Div_Counter(fb) == Request(<<Read(AdioReg(fb, ADIO.CLK_DIV_COUNTER), 32)>>)

ADIO_MAX_FREQ == 4000000
Adio_Set_Pacer_Clk_Rate(m, fb, rate) ==
  PacerRate(m, rate, ADIO_MAX_FREQ, AdioReg(fb, ADIO.CLK_DIV))

Adio_Set_Pre_Trigger_Samples(fb, count) ==
  Checked(count <= FIFO_SAMPLE_SIZE,
          <<Write(AdioReg(fb, ADIO.PRE_CAPT_COUNT), 32, Bits(count))>>)
Adio_Set_Post_Stop_Samples(fb, data) ==
  Request(<<Write(AdioReg(fb, ADIO.POST_CAPT_COUNT), 32, data)>>)
Adio_Get_Sample_Count(fb) == Request(<<Read(AdioReg(fb, ADIO.SAMPLE_COUNT), 32)>>)

Adio_Set_Clock_Source_Global(fb, select, driver) ==
  Checked(Adio_Validate_Clock_Global_Source(select, driver),
          <<Write(AdioReg(fb, BusRegister(ADIO.CLK_BUS2, select)), 8, Bits(driver))>>)
Adio_Get_Clock_Source_Global(fb, select) ==
  IF select \in Buses
    THEN Request(<<Read(AdioReg(fb, BusRegister(ADIO.CLK_BUS2, select)), 8)>>)
    ELSE Rejected("none_set")
-----------------------------------------------------------------------------
Adio_Interrupt_Get_Status(fb) == Request(<<Read(AdioReg(fb, ADIO.INT_STAT), 16)>>)
Adio_Interrupt_Clear_Status(fb, sources) ==
  Request(<<Write(AdioReg(fb, ADIO.INT_STAT), 16, sources)>>)

Adio_Interrupt_Set_Config(fb, sources, enable) ==
  Then(IF enable THEN Adio_Interrupt_Clear_Status(fb, sources) ELSE Request(<<>>),
       Request(<<Write(AdioReg(fb, ADIO.INT_ENABLE), 32,
                       Get_Maskable(IF enable THEN Width(16) ELSE {}, sources))>>))
Adio_Interrupt_Get_Config(fb) ==
  Shifted(Request(<<Read(AdioReg(fb, ADIO.INT_ENABLE), 32)>>), 16)
-----------------------------------------------------------------------------
(* The pins, one bit each.                                                 *)

Adio_Get_Input_Value(fb) == Request(<<Read(AdioPins(fb, ADIO_CHAN.INPUT_VAL), 32)>>)
Adio_Get_Output_Value(fb) == Request(<<Read(AdioPins(fb, ADIO_CHAN.OUTPUT_VAL), 32)>>)
Adio_Set_Output_Value(fb, data) ==
  Request(<<Write(AdioPins(fb, ADIO_CHAN.OUTPUT_VAL), 32, data)>>)
Adio_Get_Direction(fb) == Request(<<Read(AdioPins(fb, ADIO_CHAN.DIRECTION), 32)>>)
Adio_Set_Direction(fb, data) ==
  Request(<<Write(AdioPins(fb, ADIO_CHAN.DIRECTION), 32, data)>>)

Adio_Get_Adv_Int_Mode(fb) == Request(<<Read(AdioPins(fb, ADIO_CHAN.ADV_INT_MODE), 8)>>)
Adio_Set_Adv_Int_Mode(fb, mode) ==
  Checked(Validate_Adv_Interrupt_Mode(mode),
          <<Write(AdioPins(fb, ADIO_CHAN.ADV_INT_MODE), 8, Bits(mode))>>)
Adio_Get_Adv_Int_Mask(fb) == Request(<<Read(AdioPins(fb, ADIO_CHAN.ADV_INT_MASK), 32)>>)
Adio_Set_Adv_Int_Mask(fb, data) ==
  Request(<<Write(AdioPins(fb, ADIO_CHAN.ADV_INT_MASK), 32, data)>>)
Adio_Get_Adv_Int_Comp(fb) == Request(<<Read(AdioPins(fb, ADIO_CHAN.ADV_INT_COMP), 32)>>)
Adio_Set_Adv_Int_Comp(fb, data) ==
  Request(<<Write(AdioPins(fb, ADIO_CHAN.ADV_INT_COMP), 32, data)>>)
Adio_Get_Adv_Int_Capt(fb) == Request(<<Read(AdioPins(fb, ADIO_CHAN.ADV_INT_CAPT), 32)>>)
Adio_Set_Adv_Int_Capt(fb, data) ==
  Request(<<Write(AdioPins(fb, ADIO_CHAN.ADV_INT_CAPT), 32, data)>>)

\* The byte of an enable is 1 or 0.
Flag(enabled) == IF enabled THEN {0} ELSE {}

Adio_Get_P_Bus_Enable(fb) == Request(<<Read(AdioPins(fb, ADIO_CHAN.P_BUS_ENABLE), 8)>>)
Adio_Set_P_Bus_Enable(fb, enabled) ==
  Request(<<Write(AdioPins(fb, ADIO_CHAN.P_BUS_ENABLE), 8, Flag(enabled))>>)
Adio_Get_P_Bus_Ready_Enable(fb) ==
  Request(<<Read(AdioPins(fb, ADIO_CHAN.P_BUS_READY_ENABLE), 8)>>)
Adio_Set_P_Bus_Ready_Enable(fb, enabled) ==
  Request(<<Write(AdioPins(fb, ADIO_CHAN.P_BUS_READY_ENABLE), 8, Flag(enabled))>>)
-----------------------------------------------------------------------------
AdioFifo(fb, channel) ==
  fb.fb_offset + ADIO_CHAN.FIFO_START + channel * ADIO_CHAN.FIFO_SIZE

Adio_Fifo_Channel_Read(fb, channel) ==
  IF AdcChannelOk(fb, channel) /\ ~HasFifo(fb) THEN Rejected("EPERM")
  ELSE OnChannel(fb, channel, <<Read(AdioFifo(fb, channel), 32)>>)
Adio_Fifo_Channel_Write(fb, channel, data) ==
  IF AdcChannelOk(fb, channel) /\ ~HasFifo(fb) THEN Rejected("EPERM")
  ELSE OnChannel(fb, channel, <<Write(AdioFifo(fb, channel), 32, data)>>)
=============================================================================
