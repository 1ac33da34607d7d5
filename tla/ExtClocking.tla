------------------------------- MODULE ExtClocking -------------------------------
(***************************************************************************)
(* The functions of the external clocking library                          *)
(* (lib/librtd-dm35425_ext_clocking.c).                                    *)
(***************************************************************************)
EXTENDS AdioLibrary

ExtReg(fb, offset) == fb.control_offset + offset
OnBus(fb, bus, access) ==
  Checked(bus \in Buses, <<[access EXCEPT !.offset = ExtReg(fb, BusRegister(@, bus))]>>)

Ext_Clocking_Open(m, n) == Function_Block_Open_Module(m, FUNC_BLOCK.EXT_CLOCKING, n)

Ext_Clocking_Get_In(fb) == Request(<<Read(ExtReg(fb, EXT_CLOCKING.IN), 8)>>)
Ext_Clocking_Get_Gate_In(fb) == Request(<<Read(ExtReg(fb, EXT_CLOCKING.GATE_IN), 8)>>)
Ext_Clocking_Get_Dir(fb) == Request(<<Read(ExtReg(fb, EXT_CLOCKING.DIR), 8)>>)
Ext_Clocking_Set_Dir(fb, data) ==
  Request(<<Write(ExtReg(fb, EXT_CLOCKING.DIR), 8, data)>>)
Ext_Clocking_Get_Edge(fb) == Request(<<Read(ExtReg(fb, EXT_CLOCKING.EDGE), 8)>>)
Ext_Clocking_Set_Edge(fb, data) ==
  Request(<<Write(ExtReg(fb, EXT_CLOCKING.EDGE), 8, data)>>)

Ext_Clocking_Get_Pulse_Width(fb, clock_src) ==
  OnBus(fb, clock_src, Read(EXT_CLOCKING.PW2, 8))
Ext_Clocking_Set_Pulse_Width(fb, clock_src, data) ==
  OnBus(fb, clock_src, Write(EXT_CLOCKING.PW2, 8, data))

\* Disabled, not gated, gated high and gated low.
ClockingMethods == {0, 128, 129, 130}
Ext_Clocking_Get_Method(fb, clock_src) ==
  OnBus(fb, clock_src, Read(EXT_CLOCKING.SETUP_GBL2, 8))
Ext_Clocking_Set_Method(fb, clock_src, method) ==
  IF method \notin ClockingMethods THEN Rejected("EINVAL")
  ELSE OnBus(fb, clock_src, Write(EXT_CLOCKING.SETUP_GBL2, 8, Bits(method)))
=============================================================================
