------------------------------- MODULE GbcLibrary -------------------------------
(***************************************************************************)
(* The board control and function block library (lib/librtd-dm35425_gbc.c):*)
(* identification, clock frequency, and the search of the board's table    *)
(* for a function block.  `m' holds the registers of both regions.         *)
(***************************************************************************)
EXTENDS RegionAccess, Registers, FiniteSetsExt

CONSTANT Length    \* the length of each PCI region, in bytes

\* The table of the function blocks is in its region.  An offset of 16 bits does
\* not reach the registers of a longer region than 64 KiB; 4 KiB less keep even the
\* registers of a channel that there is not, of a call that does not look at its
\* channel, from wrapping to the start of the region.
ASSUME LengthAssumption ==
  /\ Length \in [{"GBC", "FB"} -> Nat]
  /\ \A r \in {"GBC", "FB"} : Length[r] >= 4 /\ Length[r] <= 61440
  /\ Length["GBC"] >= GBC.FB_START + MAX_FB * GBC.FB_BLK_SIZE

\* The number that bits make up, put together from pairs, fours, bytes and halves.
Number(bits) ==
  LET bit(b) == IF b \in bits THEN 1 ELSE 0
      two(b) == bit(b) + 2 * bit(b + 1)
      four(b) == two(b) + 4 * two(b + 2)
      eight(b) == four(b) + 16 * four(b + 4)
      sixteen(b) == eight(b) + 256 * eight(b + 8)
  IN  sixteen(0) + 65536 * sixteen(16)

Fetch(m, region, offset, size) == Number(region_read(m[region], offset, size))

GbcRead(offset, size) == Request(<<Access("read", "GBC", offset, size, {}, {})>>)
GbcWrite(offset, value) ==
  Request(<<Access("write", "GBC", offset, 8, Bits(value), {})>>)

Gbc_Board_Reset == GbcWrite(GBC.BOARD_RESET, 170)
Gbc_Ack_Interrupt == GbcWrite(GBC.END_INTERRUPT, 1)
Gbc_Get_Format == GbcRead(GBC.FORMAT, 8)
Gbc_Get_Revision == GbcRead(GBC.REV, 8)
Gbc_Get_Pdp_Number == GbcRead(GBC.PDP_NUMBER, 32)
Gbc_Get_Fpga_Build == GbcRead(GBC.FPGA_BUILD, 32)

\* The frequency that the board reports, in units of 10 kHz, is rounded to the
\* first clock rate it is close to; another one is handed on as not standard.
Near == << [clock |->  40000000, low |-> 38000000, high |->  42000000],
           [clock |->  54000000, low |-> 51300000, high |->  56700000],
           [clock |-> 100000000, low |-> 95000000, high |-> 105000000],
           [clock |->  57600000, low |-> 51840000, high |->  63360000],
           [clock |->  50000000, low |-> 47500000, high |->  52500000] >>

Gbc_Get_Sys_Clock_Freq(m) ==
  LET clk == Fetch(m, "GBC", GBC.SYS_CLK_FREQ, 16) * 10000
      close == {i \in DOMAIN Near : clk \in Near[i].low .. Near[i].high}
  IN  IF close = {} THEN [freq |-> clk, is_std_clk |-> FALSE]
      ELSE [freq |-> Near[Min(close)].clock, is_std_clk |-> TRUE]
-----------------------------------------------------------------------------
(* Function blocks.                                                        *)

FbEntry(number) == GBC.FB_START + number * GBC.FB_BLK_SIZE + GBC.FB_ID
FbType(m, number) == Fetch(m, "GBC", FbEntry(number), 32) % 65536

DMA_CTRL_BLOCK_SIZE == 16
DMA_BUFFER_CTRL_BLOCK_SIZE == 16

DmaChannel(fb, channel) ==
  fb.dma_offset
    + (DMA_CTRL_BLOCK_SIZE + DMA_BUFFER_CTRL_BLOCK_SIZE * fb.num_dma_buffers) * channel
DmaBuffer(fb, channel, buffer) ==
  DmaChannel(fb, channel) + DMA_CTRL_BLOCK_SIZE + DMA_BUFFER_CTRL_BLOCK_SIZE * buffer

\* The offset of a request has 16 bits, those of the table have 32.
InHeader(offset) == offset % 65536

\* The descriptor that the entry of the table and the header of the block give.
\* An entry of an invalid type leaves the rest of the descriptor alone.
FbDescriptor(m, number) ==
  LET entry == FbEntry(number)
      fb_offset == Fetch(m, "GBC", entry + GBC.FB_OFFSET, 32)
  IN  [type |-> FbType(m, number),
       type_revision |-> Fetch(m, "GBC", entry, 32) \div 2^24,
       fb_offset |-> fb_offset,
       control_offset |-> fb_offset + FB.CTRL_START,
       dma_offset |-> Fetch(m, "GBC", entry + GBC.FB_DMA_OFFSET, 32),
       num_dma_channels |-> Fetch(m, "FB", InHeader(fb_offset + FB.DMA_CHANNELS), 8),
       num_dma_buffers |-> Fetch(m, "FB", InHeader(fb_offset + FB.DMA_BUFFERS), 8)]

IsInvalid(type) == type \in {FUNC_BLOCK.INVALID, FUNC_BLOCK.INVALID2}

\* What opening finds wrong with the block itself, in the order of its checks: the
\* reads of the header may be refused, the block may not say the type that the
\* table says, and a failing assertion ends the application.
HeaderErrors(m, fb) ==
  LET refusal(offset, size) ==
        validate_pci_access(Length, Read(InHeader(fb.fb_offset + offset), size))
      unless(holds, error) == IF holds THEN "none" ELSE error
  IN  << refusal(0, 32),
         unless(Fetch(m, "FB", InHeader(fb.fb_offset), 32) % 65536 = fb.type, "EFAULT"),
         refusal(FB.DMA_CHANNELS, 8),
         unless(fb.num_dma_channels <= MAX_DMA_CHANNELS, "SIGABRT"),
         refusal(FB.DMA_BUFFERS, 8),
         unless(fb.num_dma_buffers <= MAX_DMA_BUFFERS, "SIGABRT") >>

Function_Block_Open(m, number) ==
  IF number >= MAX_FB THEN Rejected("none_set")
  ELSE IF IsInvalid(FbType(m, number)) THEN [errno |-> "none", fb |-> [type |-> FbType(m, number)]]
  ELSE LET fb == FbDescriptor(m, number)
           errors == HeaderErrors(m, fb)
           found == {i \in 1 .. 6 : errors[i] # "none"}
       IN  IF found # {} THEN Rejected(errors[Min(found)])
           ELSE [errno |-> "none", fb |-> fb]

\* The search opens the entries one after another, stops at the first that
\* cannot be opened, and returns the (number_of_type + 1)-th block of the type.
Function_Block_Open_Module(m, fb_type, number_of_type) ==
  LET last == MAX_FB - 1
      failing == {n \in 0 .. last : Function_Block_Open(m, n).errno # "none"}
      wanted == {n \in 0 .. last :
                   /\ FbType(m, n) = fb_type
                   /\ Cardinality({k \in 0 .. n - 1 : FbType(m, k) = fb_type})
                        = number_of_type}
  IN  IF failing # {} /\ \A n \in wanted : Min(failing) <= n
        THEN Function_Block_Open(m, Min(failing))
      ELSE IF wanted = {} THEN Rejected("ENODEV")
      ELSE Function_Block_Open(m, CHOOSE n \in wanted : TRUE)
=============================================================================
