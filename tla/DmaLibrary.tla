------------------------------- MODULE DmaLibrary -------------------------------
(***************************************************************************)
(* The functions of the DMA library (lib/librtd-dm35425_dma.c) that make   *)
(* one access after another.  Starting, stopping, pausing and clearing a   *)
(* channel wait for the board, and are in module DmaStream.                *)
(***************************************************************************)
EXTENDS ExtClocking

DmaReg(fb, channel, offset) == DmaChannel(fb, channel) + offset
DmaBufferReg(fb, channel, buffer, offset) == DmaBuffer(fb, channel, buffer) + offset

BufferOk(fb, channel, buffer) ==
  AdcChannelOk(fb, channel) /\ buffer \in 0 .. fb.num_dma_buffers - 1

\* The bits of the setup register.
DMA_SETUP == [INT |-> 1, ERR_INT |-> 2, DIRECTION |-> 4, IGNORE_USED |-> 8]
Setup(fb, channel, data, mask) ==
  <<Modify(DmaReg(fb, channel, DMA.SETUP), 8, Bits(data), Bits(mask))>>
Choose(flag, bit) == IF flag THEN bit ELSE 0

DMA_ACTION == [CLEAR |-> 0, GO |-> 1, PAUSE |-> 2, HALT |-> 3]

\* From the card (read) or to the card.
Validate_Dma_Channel_Setup_Args(direction) == direction \in {4, 0}

Dma_Setup(fb, channel, direction, ignore_used) ==
  IF AdcChannelOk(fb, channel) /\ ~Validate_Dma_Channel_Setup_Args(direction)
    THEN Rejected("none_set")
    ELSE OnChannel(fb, channel,
           Setup(fb, channel, direction + Choose(ignore_used, DMA_SETUP.IGNORE_USED),
                 DMA_SETUP.IGNORE_USED + DMA_SETUP.DIRECTION))

Dma_Setup_Set_Direction(fb, channel, direction) ==
  IF AdcChannelOk(fb, channel) /\ ~Validate_Dma_Channel_Setup_Args(direction)
    THEN Rejected("none_set")
    ELSE OnChannel(fb, channel, Setup(fb, channel, direction, DMA_SETUP.DIRECTION))

Dma_Setup_Set_Used(fb, channel, ignore_used) ==
  OnChannel(fb, channel,
    Setup(fb, channel, Choose(ignore_used, DMA_SETUP.IGNORE_USED), DMA_SETUP.IGNORE_USED))

Dma_Configure_Interrupts(fb, channel, enable, error_enable) ==
  OnChannel(fb, channel,
    Setup(fb, channel,
          Choose(enable, DMA_SETUP.INT) + Choose(error_enable, DMA_SETUP.ERR_INT),
          DMA_SETUP.INT + DMA_SETUP.ERR_INT))

\* The two lowest bits of what is read.
Dma_Get_Interrupt_Configuration(fb, channel) ==
  OnChannel(fb, channel, <<Read(DmaReg(fb, channel, DMA.SETUP), 8)>>)
-----------------------------------------------------------------------------
(* Counters and states.  `wanted' are the results that the caller asks for,*)
(* by passing a pointer that is not NULL.                                  *)

When(condition, accesses) == IF condition THEN accesses ELSE <<>>

\* A call that asks for nothing answers 1.
Asked(wanted, request) ==
  IF wanted = {} /\ request.errno = "none" THEN Rejected("none_set") ELSE request

Dma_Get_Fifo_Counts(fb, channel, wanted) ==
  Asked(wanted,
    OnChannel(fb, channel,
      When("write" \in wanted, <<Read(DmaReg(fb, channel, DMA.WR_FIFO_CNT), 16)>>)
        \o When("read" \in wanted, <<Read(DmaReg(fb, channel, DMA.RD_FIFO_CNT), 16)>>)))

\* The state that the two counts, once read, stand for.
Dma_Get_Fifo_State(write_count, read_count) ==
  CASE 15 \in read_count -> "empty"
    [] 15 \notin read_count /\ 15 \in write_count -> "full"
    [] OTHER -> "has_data"

Dma_Get_Errors(fb, channel, wanted) ==
  Asked(wanted,
    OnChannel(fb, channel,
      When(wanted \cap {"overflow", "underflow"} # {},
           <<Read(DmaReg(fb, channel, DMA.STAT_OVERFLOW), 16)>>)
        \o When(wanted \cap {"used", "invalid"} # {},
                <<Read(DmaReg(fb, channel, DMA.STAT_USED), 16)>>)))

Dma_Status(fb, channel, wanted) ==
  LET errors == wanted \cap {"overflow", "underflow", "used", "invalid"}
  IN  Asked(wanted,
        OnChannel(fb, channel,
          When(wanted \cap {"buffer", "count"} # {},
               <<Read(DmaReg(fb, channel, DMA.CURRENT_COUNT), 32)>>)
            \o When("action" \in wanted, <<Read(DmaReg(fb, channel, DMA.ACTION), 8)>>)
            \o When(errors # {}, Dma_Get_Errors(fb, channel, errors).accesses)
            \o When("complete" \in wanted,
                    <<Read(DmaReg(fb, channel, DMA.STAT_COMPLETE), 8)>>)))

\* The number of the channel is not looked at; the buffer is in the top byte.
Dma_Get_Current_Buffer_Count(fb, channel) ==
  Request(<<Read(DmaReg(fb, channel, DMA.CURRENT_COUNT), 32)>>)

Dma_Check_For_Error(m, fb, channel) ==
  \/ region_read(m["FB"], DmaReg(fb, channel, DMA.STAT_OVERFLOW), 16) # {}
  \/ region_read(m["FB"], DmaReg(fb, channel, DMA.STAT_USED), 16) # {}

\* The bytes of the two status words, and the use of a buffer that is not ready,
\* which is no error where the setup says to ignore it.
DmaError(m, fb, channel) ==
  LET byte(offset) == region_read(m["FB"], DmaReg(fb, channel, offset), 8)
  IN  \/ region_read(m["FB"], DmaReg(fb, channel, DMA.STAT_OVERFLOW), 16) # {}
      \/ byte(DMA.STAT_INVALID) # {}
      \/ byte(DMA.STAT_USED) # {} /\ 3 \notin byte(DMA.SETUP)
DmaComplete(m, fb, channel) ==
  region_read(m["FB"], DmaReg(fb, channel, DMA.STAT_COMPLETE), 8) # {}

\* The search stops at the first channel that is complete or in error.
Dma_Find_Interrupt(m, fb) ==
  LET found == {c \in 0 .. fb.num_dma_channels - 1 :
                  DmaComplete(m, fb, c) \/ DmaError(m, fb, c)}
  IN  IF found = {} THEN fb.num_dma_channels ELSE Min(found)

\* A call that clears nothing answers what is on the stack.
Dma_Clear_Interrupt(fb, channel, cleared) ==
  LET zero(name, offset) ==
        When(name \in cleared, <<Write(DmaReg(fb, channel, offset), 8, {})>>)
  IN  OnChannel(fb, channel,
        zero("overflow", DMA.STAT_OVERFLOW) \o zero("underflow", DMA.STAT_UNDERFLOW)
          \o zero("used", DMA.STAT_USED) \o zero("invalid", DMA.STAT_INVALID)
          \o zero("complete", DMA.STAT_COMPLETE))
-----------------------------------------------------------------------------
(* Buffers.                                                                *)

Dma_Buffer_Setup(fb, channel, buffer, ctrl) ==
  Checked(BufferOk(fb, channel, buffer),
          <<Write(DmaBufferReg(fb, channel, buffer, DMA_BUFFER.CTRL), 8, ctrl)>>)

Dma_Buffer_Status(fb, channel, buffer) ==
  Checked(BufferOk(fb, channel, buffer),
          <<Read(DmaBufferReg(fb, channel, buffer, DMA_BUFFER.STAT), 8),
            Read(DmaBufferReg(fb, channel, buffer, DMA_BUFFER.CTRL), 8),
            Read(DmaBufferReg(fb, channel, buffer, DMA_BUFFER.SIZE), 32)>>)

\* Used is the lowest bit.  Neither number is looked at.
Dma_Check_Buffer_Used(fb, channel, buffer) ==
  Request(<<Read(DmaBufferReg(fb, channel, buffer, DMA_BUFFER.STAT), 8)>>)

Dma_Reset_Buffer(fb, channel, buffer) ==
  Checked(BufferOk(fb, channel, buffer),
          <<Write(DmaBufferReg(fb, channel, buffer, DMA_BUFFER.STAT), 8, {})>>)

\* Neither number is looked at.
Dma_Buffer_Get_Size(fb, channel, buffer) ==
  Request(<<Read(DmaBufferReg(fb, channel, buffer, DMA_BUFFER.SIZE), 32)>>)

\* A size is in words of four bytes, and has 24 bits.
Dma_Buffer_Set_Size(fb, channel, buffer, size) ==
  Checked(BufferOk(fb, channel, buffer) /\ size \cap {0, 1} = {} /\ size \subseteq Width(24),
          <<Modify(DmaBufferReg(fb, channel, buffer, DMA_BUFFER.SIZE), 32, size, Width(24))>>)
=============================================================================
