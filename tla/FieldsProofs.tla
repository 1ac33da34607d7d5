------------------------------ MODULE FieldsProofs ------------------------------
(***************************************************************************)
(* Proof that the functions that ask for a setting answer what the calls   *)
(* have set (GettersAgree), for a board of any layout, any number of       *)
(* threads, calls and events.                                              *)
(*                                                                         *)
(* First a table of the fields: the part of the block that each belongs    *)
(* to, and its bytes and bits there.  Then that no two fields have a byte  *)
(* in common, up to the last channel and the last buffer; that each        *)
(* function that asks reads the row of its field; that each call sets the  *)
(* bits of its field by its last access and touches no other field; and    *)
(* the invariant: each field holds what is recorded of it.                 *)
(*                                                                         *)
(* Then that what is computed in different places fits (UnitsAgree): the   *)
(* divider that the registers hold makes the rate that was answered, and a *)
(* front end suits the range that its channel was set up for.  This is     *)
(* kept like the fields; that a number is what its bits add up to, proved  *)
(* by putting together ever more of them, makes it the units.              *)
(***************************************************************************)
EXTENDS RegisterCallsProofs

(* A field: where it lies in its part, in bytes; the first of its bits in  *)
(* the register; which of its bits there are, and which are answered.      *)
Row(field, owner, low, wide, shift, slots, of) ==
  [field |-> field, owner |-> owner, low |-> low, wide |-> wide, shift |-> shift,
   slots |-> slots, of |-> of]
ByteRow(field, owner, low) == Row(field, owner, low, 1, 0, Width(8), Width(32))
WordRow(field, owner, low) == Row(field, owner, low, 4, 0, Width(32), Width(32))
HalfRow(field, owner, low) == Row(field, owner, low, 4, 16, Width(16), Width(32))

BusRows(field, first) == {ByteRow(<<field, bus>>, <<"block">>, first + (bus - 2)) : bus \in Buses}

AdcBlockRows ==
  {ByteRow(<<"clock_src">>, <<"block">>, 1), ByteRow(<<"start_trigger">>, <<"block">>, 2),
   ByteRow(<<"stop_trigger">>, <<"block">>, 3), WordRow(<<"clk_div">>, <<"block">>, 4),
   WordRow(<<"pre">>, <<"block">>, 12), WordRow(<<"post">>, <<"block">>, 16),
   HalfRow(<<"int_config">>, <<"block">>, 24)}
    \cup BusRows("bus", 34)
AdcChannelRows(c) ==
  {HalfRow(<<"fe_config", c>>, <<"channel", c>>, 0), ByteRow(<<"chan_int", c>>, <<"channel", c>>, 11),
   WordRow(<<"low", c>>, <<"channel", c>>, 12), WordRow(<<"high", c>>, <<"channel", c>>, 16)}
DacBlockRows ==
  {ByteRow(<<"clock_src">>, <<"block">>, 1), ByteRow(<<"start_trigger">>, <<"block">>, 2),
   ByteRow(<<"stop_trigger">>, <<"block">>, 3), WordRow(<<"clk_div">>, <<"block">>, 4),
   WordRow(<<"post">>, <<"block">>, 16), HalfRow(<<"int_config">>, <<"block">>, 24)}
DacChannelRows(c) ==
  {HalfRow(<<"fe_config", c>>, <<"channel", c>>, 0),
   ByteRow(<<"marker_config", c>>, <<"channel", c>>, 11), WordRow(<<"last", c>>, <<"channel", c>>, 16)}
AdioBlockRows ==
  {WordRow(<<"clk_div">>, <<"block">>, 4), HalfRow(<<"int_config">>, <<"block">>, 24)}
    \cup BusRows("bus", 34)
AdioPinRows ==
  {WordRow(<<"output">>, <<"pins">>, 4), WordRow(<<"direction">>, <<"pins">>, 8),
   ByteRow(<<"adv_int_mode">>, <<"pins">>, 12), WordRow(<<"adv_int_mask">>, <<"pins">>, 16),
   WordRow(<<"adv_int_comp">>, <<"pins">>, 20), WordRow(<<"adv_int_capt">>, <<"pins">>, 24),
   ByteRow(<<"p_bus">>, <<"pins">>, 28), ByteRow(<<"p_bus_ready">>, <<"pins">>, 29)}
ExtRows ==
  {ByteRow(<<"dir">>, <<"block">>, 2), ByteRow(<<"edge">>, <<"block">>, 3)}
    \cup BusRows("width", 4) \cup BusRows("method", 10)
DmaRows(c) == {Row(<<"dma_setup", c>>, <<"dma", c>>, 1, 1, 0, {0, 1}, {0, 1})}
BufferRows(c, b) ==
  {Row(<<"buffer_ctrl", c, b>>, <<"buffer", c, b>>, 3, 1, 0, Width(8), Width(8)),
   Row(<<"buffer_size", c, b>>, <<"buffer", c, b>>, 4, 4, 0, Width(24), Width(24))}

(* The fields of a function block, those of the channels and buffers that  *)
(* it has.                                                                 *)
BlockRows(f) ==
  CASE f.type = FUNC_BLOCK.ADC -> AdcBlockRows
    [] f.type = FUNC_BLOCK.DAC -> DacBlockRows
    [] f.type = FUNC_BLOCK.ADIO -> AdioBlockRows
    [] f.type = FUNC_BLOCK.EXT_CLOCKING -> ExtRows
ChannelRows(f, c) ==
  CASE f.type = FUNC_BLOCK.ADC -> AdcChannelRows(c)
    [] f.type = FUNC_BLOCK.DAC -> DacChannelRows(c)
    [] OTHER -> {}
DmaChannels(f) == 0 .. f.num_dma_channels - 1
DmaBuffersOf(f) == 0 .. f.num_dma_buffers - 1
\* Those of which the registers are written: the functions of the DAC let four
\* channels pass, however many of them there are.
RowChannels(f) ==
  IF f.type = FUNC_BLOCK.DAC THEN 0 .. NUM_DAC_DMA_CHANNELS - 1 ELSE DmaChannels(f)
Layout(f) ==
  BlockRows(f)
    \cup (IF f.type = FUNC_BLOCK.ADIO THEN AdioPinRows ELSE {})
    \cup (UNION {ChannelRows(f, c) : c \in RowChannels(f)})
    \cup (UNION {DmaRows(c) : c \in DmaChannels(f)})
    \cup (UNION {BufferRows(c, b) : c \in DmaChannels(f), b \in DmaBuffersOf(f)})
-----------------------------------------------------------------------------
(* The parts of a block are apart.                                         *)

Apart(f, o, p) ==
  \/ Base(f, o) + Room(f, o) <= Base(f, p)
  \/ Base(f, p) + Room(f, p) <= Base(f, o)

(* The parts other than the DMA, as numbers, by the type of the block.     *)
LEMMA PartsOfBlock ==
  ASSUME NEW f, Descriptor(f), NEW o \in Owners(f), o[1] \notin {"dma", "buffer"}
  PROVE  \/ o = <<"block">> /\ Base(f, o) = f.fb_offset + 8
                            /\ \/ f.type = 4096 /\ Room(f, o) = 44
                               \/ f.type = 8192 /\ Room(f, o) = 44
                               \/ f.type = 12289 /\ Room(f, o) = 40
                               \/ f.type = 2 /\ Room(f, o) = 16
         \/ f.type = 12289 /\ o = <<"pins">> /\ Base(f, o) = f.fb_offset + 48 /\ Room(f, o) = 30
         \/ \E c \in 0 .. 31 :
              /\ f.type = 4096 /\ o = <<"channel", c>>
              /\ Base(f, o) = f.fb_offset + 52 + 24 * c /\ Room(f, o) = 24
         \/ \E c \in 0 .. 3 :
              /\ f.type = 8192 /\ o = <<"channel", c>>
              /\ Base(f, o) = f.fb_offset + 52 + 20 * c /\ Room(f, o) = 20
         \/ \E c \in 0 .. 31 :
              /\ f.type = 4096 /\ o = <<"fifo", c>>
              /\ Base(f, o) = f.fb_offset + 820 + 4 * c /\ Room(f, o) = 4
         \/ \E c \in 0 .. 3 :
              /\ f.type = 8192 /\ o = <<"fifo", c>>
              /\ Base(f, o) = f.fb_offset + 132 + 4 * c /\ Room(f, o) = 4
         \/ \E c \in 0 .. 2 :
              /\ f.type = 12289 /\ o = <<"fifo", c>>
              /\ Base(f, o) = f.fb_offset + 80 + 4 * c /\ Room(f, o) = 4
<1>1. /\ f.control_offset = f.fb_offset + 8 /\ f.fb_offset \in Nat
      /\ f.type \in {4096, 8192, 12289, 2}
  BY Sizes
<1>2. CASE o = <<"block">>
  <2>1. Base(f, o) = f.fb_offset + 8
    BY <1>1, <1>2 DEF Base
  <2>2. \/ f.type = 4096 /\ Room(f, o) = 44
        \/ f.type = 8192 /\ Room(f, o) = 44
        \/ f.type = 12289 /\ Room(f, o) = 40
        \/ f.type = 2 /\ Room(f, o) = 16
    BY <1>1, <1>2 DEF Room, FUNC_BLOCK
  <2> QED BY <1>2, <2>1, <2>2
<1>3. CASE f.type = 12289 /\ o = <<"pins">>
  <2>1. Base(f, o) = f.fb_offset + 48 /\ Room(f, o) = 30
    BY <1>1, <1>3 DEF Base, Room
  <2> QED BY <1>3, <2>1
<1>4. ASSUME f.type \in Analog, NEW c \in 0 .. ChannelSlots(f) - 1, o = <<"channel", c>>
      PROVE  \/ /\ c \in 0 .. 31 /\ f.type = 4096
                /\ Base(f, o) = f.fb_offset + 52 + 24 * c /\ Room(f, o) = 24
             \/ /\ c \in 0 .. 3 /\ f.type = 8192
                /\ Base(f, o) = f.fb_offset + 52 + 20 * c /\ Room(f, o) = 20
  <2>1. CASE f.type = 4096
    <3>1. c \in 0 .. 31
      BY <2>1, Sizes
    <3>2. Base(f, o) = f.control_offset + 44 + 24 * c /\ Room(f, o) = 24
      BY <1>4, <2>1 DEF Base, Room, FUNC_BLOCK
    <3> QED BY <1>1, <2>1, <3>1, <3>2
  <2>2. CASE f.type = 8192
    <3>1. c \in 0 .. 3
      BY <2>2, Sizes
    <3>2. Base(f, o) = f.control_offset + 44 + 20 * c /\ Room(f, o) = 20
      BY <1>4, <2>2 DEF Base, Room, FUNC_BLOCK
    <3> QED BY <1>1, <2>2, <3>1, <3>2
  <2> QED BY <1>4, <2>1, <2>2 DEF Analog, FUNC_BLOCK
<1>5. ASSUME f.type # FUNC_BLOCK.EXT_CLOCKING, NEW c \in 0 .. ChannelSlots(f) - 1,
             o = <<"fifo", c>>
      PROVE  \/ /\ c \in 0 .. 31 /\ f.type = 4096
                /\ Base(f, o) = f.fb_offset + 820 + 4 * c /\ Room(f, o) = 4
             \/ /\ c \in 0 .. 3 /\ f.type = 8192
                /\ Base(f, o) = f.fb_offset + 132 + 4 * c /\ Room(f, o) = 4
             \/ /\ c \in 0 .. 2 /\ f.type = 12289
                /\ Base(f, o) = f.fb_offset + 80 + 4 * c /\ Room(f, o) = 4
  <2>1. CASE f.type = 4096
    <3>1. c \in 0 .. 31
      BY <2>1, Sizes
    <3> QED BY <1>5, <2>1, <3>1 DEF Base, Room, FUNC_BLOCK
  <2>2. CASE f.type = 8192
    <3>1. c \in 0 .. 3
      BY <2>2, Sizes
    <3> QED BY <1>5, <2>2, <3>1 DEF Base, Room, FUNC_BLOCK
  <2>3. CASE f.type = 12289
    <3>1. c \in 0 .. 2
      BY <2>3, Sizes
    <3> QED BY <1>5, <2>3, <3>1 DEF Base, Room, FUNC_BLOCK
  <2> QED BY <1>1, <1>5, <2>1, <2>2, <2>3 DEF FUNC_BLOCK
<1>6. \/ o = <<"block">>
      \/ f.type = 12289 /\ o = <<"pins">>
      \/ f.type \in Analog /\ \E c \in 0 .. ChannelSlots(f) - 1 : o = <<"channel", c>>
      \/ /\ f.type # FUNC_BLOCK.EXT_CLOCKING
         /\ \E c \in 0 .. ChannelSlots(f) - 1 : o = <<"fifo", c>>
  <2>1. FUNC_BLOCK.ADIO = 12289
    BY DEF FUNC_BLOCK
  <2> QED BY <2>1 DEF Owners
<1>7. CASE f.type \in Analog /\ \E c \in 0 .. ChannelSlots(f) - 1 : o = <<"channel", c>>
  BY <1>4, <1>7
<1>8. CASE /\ f.type # FUNC_BLOCK.EXT_CLOCKING
           /\ \E c \in 0 .. ChannelSlots(f) - 1 : o = <<"fifo", c>>
  BY <1>5, <1>8
<1> QED BY <1>2, <1>3, <1>6, <1>7, <1>8

(* They lie one behind the other in the bytes of the block.                *)
LEMMA BlockPartsApart ==
  ASSUME NEW f, Descriptor(f), NEW o \in Owners(f), NEW p \in Owners(f),
         o[1] \notin {"dma", "buffer"}, p[1] \notin {"dma", "buffer"}, o # p
  PROVE  Apart(f, o, p)
<1>1. f.fb_offset \in Nat /\ f.type \in {4096, 8192, 12289, 2}
  BY Sizes
<1>2. CASE f.type = 4096
  <2>1. \/ o = <<"block">> /\ Base(f, o) = f.fb_offset + 8 /\ Room(f, o) = 44
        \/ \E c \in 0 .. 31 : /\ o = <<"channel", c>>
                              /\ Base(f, o) = f.fb_offset + 52 + 24 * c /\ Room(f, o) = 24
        \/ \E c \in 0 .. 31 : /\ o = <<"fifo", c>>
                              /\ Base(f, o) = f.fb_offset + 820 + 4 * c /\ Room(f, o) = 4
    BY <1>2, PartsOfBlock
  <2>2. \/ p = <<"block">> /\ Base(f, p) = f.fb_offset + 8 /\ Room(f, p) = 44
        \/ \E c \in 0 .. 31 : /\ p = <<"channel", c>>
                              /\ Base(f, p) = f.fb_offset + 52 + 24 * c /\ Room(f, p) = 24
        \/ \E c \in 0 .. 31 : /\ p = <<"fifo", c>>
                              /\ Base(f, p) = f.fb_offset + 820 + 4 * c /\ Room(f, p) = 4
    BY <1>2, PartsOfBlock
  <2>3. CASE o = <<"block">>
    BY <1>1, <2>1, <2>2, <2>3 DEF Apart
  <2>4. CASE o[1] = "channel"
    <3>1. PICK c \in 0 .. 31 : /\ o = <<"channel", c>>
                               /\ Base(f, o) = f.fb_offset + 52 + 24 * c /\ Room(f, o) = 24
      BY <2>1, <2>4
    <3>2. CASE p[1] = "channel"
      BY <1>1, <2>2, <3>1, <3>2 DEF Apart
    <3>3. CASE p[1] # "channel"
      BY <1>1, <2>2, <3>1, <3>3 DEF Apart
    <3> QED BY <3>2, <3>3
  <2>5. CASE o[1] = "fifo"
    <3>1. PICK c \in 0 .. 31 : /\ o = <<"fifo", c>>
                               /\ Base(f, o) = f.fb_offset + 820 + 4 * c /\ Room(f, o) = 4
      BY <2>1, <2>5
    <3>2. CASE p[1] = "fifo"
      BY <1>1, <2>2, <3>1, <3>2 DEF Apart
    <3>3. CASE p[1] # "fifo"
      BY <1>1, <2>2, <3>1, <3>3 DEF Apart
    <3> QED BY <3>2, <3>3
  <2> QED BY <2>1, <2>3, <2>4, <2>5
<1>3. CASE f.type = 8192
  <2>1. \/ o = <<"block">> /\ Base(f, o) = f.fb_offset + 8 /\ Room(f, o) = 44
        \/ \E c \in 0 .. 3 : /\ o = <<"channel", c>>
                             /\ Base(f, o) = f.fb_offset + 52 + 20 * c /\ Room(f, o) = 20
        \/ \E c \in 0 .. 3 : /\ o = <<"fifo", c>>
                             /\ Base(f, o) = f.fb_offset + 132 + 4 * c /\ Room(f, o) = 4
    BY <1>3, PartsOfBlock
  <2>2. \/ p = <<"block">> /\ Base(f, p) = f.fb_offset + 8 /\ Room(f, p) = 44
        \/ \E c \in 0 .. 3 : /\ p = <<"channel", c>>
                             /\ Base(f, p) = f.fb_offset + 52 + 20 * c /\ Room(f, p) = 20
        \/ \E c \in 0 .. 3 : /\ p = <<"fifo", c>>
                             /\ Base(f, p) = f.fb_offset + 132 + 4 * c /\ Room(f, p) = 4
    BY <1>3, PartsOfBlock
  <2>3. CASE o = <<"block">>
    BY <1>1, <2>1, <2>2, <2>3 DEF Apart
  <2>4. CASE o[1] = "channel"
    BY <1>1, <2>1, <2>2, <2>4 DEF Apart
  <2>5. CASE o[1] = "fifo"
    BY <1>1, <2>1, <2>2, <2>5 DEF Apart
  <2> QED BY <2>1, <2>3, <2>4, <2>5
<1>4. CASE f.type = 12289
  <2>1. \/ o = <<"block">> /\ Base(f, o) = f.fb_offset + 8 /\ Room(f, o) = 40
        \/ o = <<"pins">> /\ Base(f, o) = f.fb_offset + 48 /\ Room(f, o) = 30
        \/ \E c \in 0 .. 2 : /\ o = <<"fifo", c>>
                             /\ Base(f, o) = f.fb_offset + 80 + 4 * c /\ Room(f, o) = 4
    BY <1>4, PartsOfBlock
  <2>2. \/ p = <<"block">> /\ Base(f, p) = f.fb_offset + 8 /\ Room(f, p) = 40
        \/ p = <<"pins">> /\ Base(f, p) = f.fb_offset + 48 /\ Room(f, p) = 30
        \/ \E c \in 0 .. 2 : /\ p = <<"fifo", c>>
                             /\ Base(f, p) = f.fb_offset + 80 + 4 * c /\ Room(f, p) = 4
    BY <1>4, PartsOfBlock
  <2> QED BY <1>1, <2>1, <2>2 DEF Apart
<1>5. CASE f.type = 2
  BY <1>5, PartsOfBlock
<1> QED BY <1>1, <1>2, <1>3, <1>4, <1>5

(* The blocks of the DMA channels and of their buffers, as slots of 16     *)
(* bytes one behind the other.                                             *)
LEMMA DmaSlots ==
  ASSUME NEW f, Descriptor(f), NEW o \in Owners(f), o[1] \in {"dma", "buffer"}
  PROVE  \E c \in 0 .. f.num_dma_channels - 1, k \in 0 .. f.num_dma_buffers :
           /\ o = IF k = 0 THEN <<"dma", c>> ELSE <<"buffer", c, k - 1>>
           /\ Base(f, o) = f.dma_offset + 16 * ((1 + f.num_dma_buffers) * c + k)
           /\ Room(f, o) = 16
<1> DEFINE n == f.num_dma_buffers
<1>1. n \in Nat /\ f.num_dma_channels \in Nat /\ f.dma_offset \in Nat
  BY Sizes
<1>2. \/ \E c \in 0 .. f.num_dma_channels - 1 : o = <<"dma", c>>
      \/ \E c \in 0 .. f.num_dma_channels - 1, b \in 0 .. n - 1 : o = <<"buffer", c, b>>
  BY DEF Owners
<1>3. ASSUME NEW c \in 0 .. f.num_dma_channels - 1
      PROVE  DmaChannel(f, c) = f.dma_offset + 16 * ((1 + n) * c)
  <2>1. DmaChannel(f, c) = f.dma_offset + (16 + 16 * n) * c
    BY DEF DmaChannel, DMA_CTRL_BLOCK_SIZE, DMA_BUFFER_CTRL_BLOCK_SIZE
  <2> HIDE DEF n
  <2>2. (16 + 16 * n) * c = 16 * ((1 + n) * c)
    BY <1>1
  <2> QED BY <2>1, <2>2
<1>4. CASE \E c \in 0 .. f.num_dma_channels - 1 : o = <<"dma", c>>
  <2>1. PICK c \in 0 .. f.num_dma_channels - 1 : o = <<"dma", c>>
    BY <1>4
  <2>2. Base(f, o) = DmaChannel(f, c) /\ Room(f, o) = 16
    BY <2>1 DEF Base, Room
  <2>3. Base(f, o) = f.dma_offset + 16 * ((1 + n) * c + 0)
    BY <1>1, <1>3, <2>2
  <2>4. 0 \in 0 .. n
    BY <1>1
  <2> QED BY <2>1, <2>2, <2>3, <2>4
<1>5. CASE \E c \in 0 .. f.num_dma_channels - 1, b \in 0 .. n - 1 : o = <<"buffer", c, b>>
  <2>1. PICK c \in 0 .. f.num_dma_channels - 1, b \in 0 .. n - 1 : o = <<"buffer", c, b>>
    BY <1>5
  <2>2. Base(f, o) = DmaBuffer(f, c, b) /\ Room(f, o) = 16
    BY <2>1 DEF Base, Room
  <2>3. DmaBuffer(f, c, b) = DmaChannel(f, c) + 16 + 16 * b
    BY BufferPlaces
  <2>4. b + 1 \in 0 .. n /\ b + 1 # 0 /\ (b + 1) - 1 = b
    BY <1>1
  <2> DEFINE p == (1 + n) * c
  <2>5. p \in Int /\ DmaChannel(f, c) = f.dma_offset + 16 * p
    BY <1>1, <1>3
  <2> HIDE DEF p
  <2>6. Base(f, o) = f.dma_offset + 16 * (p + (b + 1))
    BY <1>1, <2>2, <2>3, <2>5
  <2> QED BY <2>1, <2>2, <2>4, <2>6 DEF p
<1> QED BY <1>2, <1>4, <1>5

(* No two of the parts of a block have a byte in common.                   *)
LEMMA PartsApart ==
  ASSUME NEW f, Descriptor(f), NEW o \in Owners(f), NEW p \in Owners(f), o # p
  PROVE  Apart(f, o, p)
<1>1. ASSUME NEW x \in Owners(f), x[1] \in {"dma", "buffer"}
      PROVE  Base(f, x) >= f.dma_offset /\ Base(f, x) + Room(f, x) <= f.dma_offset + DmaSize(f)
  <2>1. f.num_dma_buffers \in Nat /\ f.dma_offset \in Nat
    BY Sizes
  <2>2. CASE \E c \in 0 .. f.num_dma_channels - 1 : x = <<"dma", c>>
    <3>1. PICK c \in 0 .. f.num_dma_channels - 1 : x = <<"dma", c>>
      BY <2>2
    <3>2. Base(f, x) = DmaChannel(f, c) /\ Room(f, x) = 16
      BY <3>1 DEF Base, Room
    <3>3. /\ DmaChannel(f, c) \in Nat /\ DmaChannel(f, c) >= f.dma_offset
          /\ DmaChannel(f, c) + 16 + 16 * f.num_dma_buffers <= f.dma_offset + DmaSize(f)
          /\ f.dma_offset + DmaSize(f) \in Nat
      BY DmaPlaces
    <3> QED BY <2>1, <3>2, <3>3
  <2>3. CASE \E c \in 0 .. f.num_dma_channels - 1, b \in 0 .. f.num_dma_buffers - 1 :
               x = <<"buffer", c, b>>
    <3>1. PICK c \in 0 .. f.num_dma_channels - 1, b \in 0 .. f.num_dma_buffers - 1 :
            x = <<"buffer", c, b>>
      BY <2>3
    <3>2. Base(f, x) = DmaBuffer(f, c, b) /\ Room(f, x) = 16
      BY <3>1 DEF Base, Room
    <3> QED BY <3>2, BufferPlaces
  <2> QED BY <1>1, <2>2, <2>3 DEF Owners
<1>2. ASSUME NEW x \in Owners(f), x[1] \notin {"dma", "buffer"}
      PROVE  Base(f, x) >= f.fb_offset /\ Base(f, x) + Room(f, x) <= f.fb_offset + BlockSize(f)
  <2>1. /\ f.fb_offset \in Nat
        /\ f.type = 4096 => BlockSize(f) = 948
        /\ f.type = 8192 => BlockSize(f) = 148
        /\ f.type = 12289 => BlockSize(f) = 92
        /\ f.type = 2 => BlockSize(f) = 24
    BY Sizes
  <2> DEFINE base == Base(f, x)
             room == Room(f, x)
             start == f.fb_offset
             size == BlockSize(f)
  <2>2. \/ f.type = 4096 /\ base \in start + 8 .. start + 944 /\ base + room <= start + 948
        \/ f.type = 8192 /\ base >= start /\ base + room <= start + 148
        \/ f.type = 12289 /\ base >= start /\ base + room <= start + 92
        \/ f.type = 2 /\ base >= start /\ base + room <= start + 24
    BY <1>2, <2>1, PartsOfBlock
  <2> QED BY <2>1, <2>2
<1>3. /\ \/ f.dma_offset >= f.fb_offset + BlockSize(f)
         \/ f.dma_offset + DmaSize(f) <= f.fb_offset
      /\ f.dma_offset \in Nat /\ f.fb_offset \in Nat /\ BlockSize(f) \in Nat /\ DmaSize(f) \in Int
  <2>1. BlockSize(f) \in Nat /\ f.num_dma_buffers \in Nat /\ f.num_dma_channels \in Nat
    BY Sizes
  <2>2. DmaSize(f) \in Int
    BY <2>1 DEF DmaSize, DMA_CTRL_BLOCK_SIZE, DMA_BUFFER_CTRL_BLOCK_SIZE
  <2> QED BY <2>1, <2>2, Sizes DEF Descriptor, WellPlaced
<1>4. \A x \in Owners(f) : Base(f, x) \in Nat /\ Room(f, x) \in Nat
  BY PartPlaced
<1>5. CASE o[1] \in {"dma", "buffer"} /\ p[1] \in {"dma", "buffer"}
  <2> DEFINE n == f.num_dma_buffers
             k == 1 + n
             start == f.dma_offset
  <2>1. PICK c \in 0 .. f.num_dma_channels - 1, i \in 0 .. n :
          /\ o = IF i = 0 THEN <<"dma", c>> ELSE <<"buffer", c, i - 1>>
          /\ Base(f, o) = start + 16 * (k * c + i)
          /\ Room(f, o) = 16
    BY <1>5, DmaSlots
  <2>2. PICK d \in 0 .. f.num_dma_channels - 1, j \in 0 .. n :
          /\ p = IF j = 0 THEN <<"dma", d>> ELSE <<"buffer", d, j - 1>>
          /\ Base(f, p) = start + 16 * (k * d + j)
          /\ Room(f, p) = 16
    BY <1>5, DmaSlots
  <2>3. n \in Nat /\ k \in Nat /\ k = 1 + n /\ c \in Nat /\ d \in Nat /\ start \in Nat
    BY Sizes
  <2>4. c # d \/ i # j
    BY <2>1, <2>2
  <2> HIDE DEF n, k, start
  <2> DEFINE x == k * c
             y == k * d
  <2>5. x \in Int /\ y \in Int
    BY <2>3
  <2>6. (c < d => x + k <= y) /\ (d < c => y + k <= x) /\ (c = d => x = y)
    BY <2>3, Product
  <2> HIDE DEF x, y
  <2>7. Base(f, o) = start + 16 * (x + i) /\ Base(f, p) = start + 16 * (y + j)
    BY <2>1, <2>2 DEF x, y
  <2>8. x + i + 1 <= y + j \/ y + j + 1 <= x + i
    BY <2>3, <2>4, <2>5, <2>6
  <2> QED BY <2>1, <2>2, <2>3, <2>5, <2>7, <2>8 DEF Apart
<1>6. CASE o[1] \notin {"dma", "buffer"} /\ p[1] \notin {"dma", "buffer"}
  BY <1>6, BlockPartsApart
<1>7. CASE o[1] \in {"dma", "buffer"} /\ p[1] \notin {"dma", "buffer"}
  BY <1>1, <1>2, <1>3, <1>4, <1>7 DEF Apart
<1>8. CASE o[1] \notin {"dma", "buffer"} /\ p[1] \in {"dma", "buffer"}
  BY <1>1, <1>2, <1>3, <1>4, <1>8 DEF Apart
<1> QED BY <1>5, <1>6, <1>7, <1>8
-----------------------------------------------------------------------------
(* The table of the fields.                                                *)

(* What a row says, by the kind that it is.                                *)
LEMMA RowParts ==
  ASSUME NEW F, NEW o, NEW n
  PROVE  /\ LET r == ByteRow(F, o, n)
            IN  /\ r.field = F /\ r.owner = o /\ r.low = n /\ r.wide = 1 /\ r.shift = 0
                /\ r.slots = Width(8) /\ r.of = Width(32)
         /\ LET r == WordRow(F, o, n)
            IN  /\ r.field = F /\ r.owner = o /\ r.low = n /\ r.wide = 4 /\ r.shift = 0
                /\ r.slots = Width(32) /\ r.of = Width(32)
         /\ LET r == HalfRow(F, o, n)
            IN  /\ r.field = F /\ r.owner = o /\ r.low = n /\ r.wide = 4 /\ r.shift = 16
                /\ r.slots = Width(16) /\ r.of = Width(32)
  BY DEF ByteRow, WordRow, HalfRow, Row

(* The bits of a row are in its bytes, and are answered.                   *)
Shaped(r) ==
  /\ r.wide \in {1, 4} /\ r.shift \in {0, 16} /\ r.slots \subseteq r.of
  /\ \A b \in r.slots : b \in Nat /\ r.shift + b < 8 * r.wide
  /\ \A b \in r.of : b \in Nat /\ r.shift + b < 8 * r.wide => b \in r.slots
  /\ r.shift = 16 => r.wide = 4 /\ r.slots = Width(16)

(* The rows of a whole byte, a word, or the high half of one are like that.*)
LEMMA ShapedRows ==
  ASSUME NEW F, NEW o, NEW n
  PROVE  Shaped(ByteRow(F, o, n)) /\ Shaped(WordRow(F, o, n)) /\ Shaped(HalfRow(F, o, n))
<1>1. Shaped(ByteRow(F, o, n))
  BY DEF ByteRow, Row, Shaped, Width
<1>2. Shaped(WordRow(F, o, n))
  BY DEF WordRow, Row, Shaped, Width
<1>3. Shaped(HalfRow(F, o, n))
  BY DEF HalfRow, Row, Shaped, Width
<1> QED BY <1>1, <1>2, <1>3

(* Two rows of a part: neither a byte nor a field in common.               *)
RowsDiffer(r, s) ==
  /\ r.field # s.field
  /\ r.low + r.wide <= s.low \/ s.low + s.wide <= r.low

(* The rows of the six clock buses.                                        *)
LEMMA BusRowParts ==
  ASSUME NEW name, NEW first \in Nat, NEW r \in BusRows(name, first)
  PROVE  /\ Shaped(r) /\ r.owner = <<"block">> /\ r.wide = 1 /\ r.shift = 0
         /\ r.low \in first .. first + 5
         /\ \E bus \in Buses : r = ByteRow(<<name, bus>>, <<"block">>, first + (bus - 2))
         /\ r.field = <<name, r.low - first + 2>>
<1>1. PICK bus \in Buses : r = ByteRow(<<name, bus>>, <<"block">>, first + (bus - 2))
  BY DEF BusRows
<1>2. /\ r.owner = <<"block">> /\ r.wide = 1 /\ r.shift = 0 /\ r.low = first + (bus - 2)
      /\ r.field = <<name, bus>>
  BY <1>1, RowParts
<1>3. bus \in 2 .. 7
  BY DEF Buses
<1>4. r.low \in first .. first + 5 /\ bus = r.low - first + 2
  BY <1>2, <1>3
<1> QED BY <1>1, <1>2, <1>4, ShapedRows

(* Each bus has a byte of its own.                                         *)
LEMMA BusRowsDiffer ==
  ASSUME NEW name, NEW first \in Nat, NEW r \in BusRows(name, first),
         NEW s \in BusRows(name, first), r # s
  PROVE  RowsDiffer(r, s)
<1>1. PICK i \in Buses : r = ByteRow(<<name, i>>, <<"block">>, first + (i - 2))
  BY DEF BusRows
<1>2. PICK j \in Buses : s = ByteRow(<<name, j>>, <<"block">>, first + (j - 2))
  BY DEF BusRows
<1>3. i # j /\ i \in 2 .. 7 /\ j \in 2 .. 7
  BY <1>1, <1>2 DEF Buses
<1>4. /\ r.field = <<name, i>> /\ r.low = first + (i - 2) /\ r.wide = 1
      /\ s.field = <<name, j>> /\ s.low = first + (j - 2) /\ s.wide = 1
  BY <1>1, <1>2, RowParts
<1> QED BY <1>3, <1>4 DEF RowsDiffer

(* The part that a field belongs to.                                       *)
OwnerOf(F) ==
  CASE F[1] \in {"fe_config", "chan_int", "low", "high", "marker_config", "last"} ->
         <<"channel", F[2]>>
    [] F[1] \in {"output", "direction", "adv_int_mode", "adv_int_mask", "adv_int_comp",
                 "adv_int_capt", "p_bus", "p_bus_ready"} -> <<"pins">>
    [] F[1] = "dma_setup" -> <<"dma", F[2]>>
    [] F[1] \in {"buffer_ctrl", "buffer_size"} -> <<"buffer", F[2], F[3]>>
    [] OTHER -> <<"block">>

(* A row of the block: inside it, away from its status, and in the high    *)
(* half of a register where the low half is the mask, and only there.      *)
BlockRow(f, r) ==
  /\ Shaped(r) /\ r.owner = <<"block">> /\ OwnerOf(r.field) = r.owner
  /\ r.low \in Nat /\ r.low + r.wide <= Room(f, r.owner)
  /\ f.type # FUNC_BLOCK.EXT_CLOCKING =>
       /\ r.low + r.wide <= 30 \/ r.low >= 32
       /\ r.shift = 16 <=> r.low = 24
  /\ f.type = FUNC_BLOCK.EXT_CLOCKING => r.shift = 0

(* The tables of the four kinds of block.                                  *)
LEMMA AdcBlockTable ==
  ASSUME NEW f, f.type = FUNC_BLOCK.ADC
  PROVE  /\ \A r \in AdcBlockRows : BlockRow(f, r)
         /\ \A r, s \in AdcBlockRows : r # s => RowsDiffer(r, s)
<1> DEFINE singles ==
      {ByteRow(<<"clock_src">>, <<"block">>, 1), ByteRow(<<"start_trigger">>, <<"block">>, 2),
       ByteRow(<<"stop_trigger">>, <<"block">>, 3), WordRow(<<"clk_div">>, <<"block">>, 4),
       WordRow(<<"pre">>, <<"block">>, 12), WordRow(<<"post">>, <<"block">>, 16),
       HalfRow(<<"int_config">>, <<"block">>, 24)}
<1>1. Room(f, <<"block">>) = 44 /\ f.type # FUNC_BLOCK.EXT_CLOCKING
  BY DEF Room, FUNC_BLOCK
<1>2. \A r \in singles : /\ Shaped(r) /\ r.owner = <<"block">>
                         /\ r.low \in {1, 2, 3, 4, 12, 16, 24}
                         /\ r.wide = (IF r.low \in {4, 12, 16, 24} THEN 4 ELSE 1)
                         /\ r.shift = 16 <=> r.low = 24
                         /\ OwnerOf(r.field) = r.owner
  BY ShapedRows, RowParts DEF OwnerOf
<1>3. \A r, s \in singles : r # s => RowsDiffer(r, s)
  BY RowParts DEF RowsDiffer
<1>4. \A r \in singles : r.field[1] # "bus"
  BY RowParts
<1>5. \A r \in BusRows("bus", 34) : /\ Shaped(r) /\ r.owner = <<"block">> /\ r.wide = 1
                                    /\ r.shift = 0 /\ r.low \in 34 .. 39
                                    /\ r.field[1] = "bus" /\ OwnerOf(r.field) = r.owner
  BY BusRowParts DEF OwnerOf
<1>6. AdcBlockRows = singles \cup BusRows("bus", 34)
  BY DEF AdcBlockRows
<1> HIDE DEF singles
<1>7. \A r \in singles : BlockRow(f, r)
  BY <1>1, <1>2 DEF BlockRow
<1>8. \A r \in BusRows("bus", 34) : BlockRow(f, r)
  BY <1>1, <1>5 DEF BlockRow
<1>9. \A r \in singles, s \in BusRows("bus", 34) : RowsDiffer(r, s) /\ RowsDiffer(s, r)
  BY <1>2, <1>4, <1>5 DEF RowsDiffer
<1>10. \A r, s \in BusRows("bus", 34) : r # s => RowsDiffer(r, s)
  BY BusRowsDiffer
<1> QED BY <1>3, <1>6, <1>7, <1>8, <1>9, <1>10

(* Likewise for the DAC.                                                   *)
LEMMA DacBlockTable ==
  ASSUME NEW f, f.type = FUNC_BLOCK.DAC
  PROVE  /\ \A r \in DacBlockRows : BlockRow(f, r)
         /\ \A r, s \in DacBlockRows : r # s => RowsDiffer(r, s)
<1>1. Room(f, <<"block">>) = 44 /\ f.type # FUNC_BLOCK.EXT_CLOCKING
  BY DEF Room, FUNC_BLOCK
<1>2. \A r \in DacBlockRows : /\ Shaped(r) /\ r.owner = <<"block">>
                              /\ r.low \in {1, 2, 3, 4, 16, 24}
                              /\ r.wide = (IF r.low \in {4, 16, 24} THEN 4 ELSE 1)
                              /\ r.shift = 16 <=> r.low = 24
                              /\ OwnerOf(r.field) = r.owner
  BY ShapedRows, RowParts DEF OwnerOf, DacBlockRows
<1>3. \A r, s \in DacBlockRows : r # s => RowsDiffer(r, s)
  BY RowParts DEF RowsDiffer, DacBlockRows
<1>4. \A r \in DacBlockRows : BlockRow(f, r)
  BY <1>1, <1>2 DEF BlockRow
<1> QED BY <1>3, <1>4

(* Likewise for the ADIO.                                                  *)
LEMMA AdioBlockTable ==
  ASSUME NEW f, f.type = FUNC_BLOCK.ADIO
  PROVE  /\ \A r \in AdioBlockRows : BlockRow(f, r)
         /\ \A r, s \in AdioBlockRows : r # s => RowsDiffer(r, s)
<1> DEFINE singles == {WordRow(<<"clk_div">>, <<"block">>, 4), HalfRow(<<"int_config">>, <<"block">>, 24)}
<1>1. Room(f, <<"block">>) = 40 /\ f.type # FUNC_BLOCK.EXT_CLOCKING
  BY DEF Room, FUNC_BLOCK
<1>2. \A r \in singles : /\ Shaped(r) /\ r.owner = <<"block">> /\ r.low \in {4, 24} /\ r.wide = 4
                         /\ r.shift = 16 <=> r.low = 24
                         /\ OwnerOf(r.field) = r.owner
  BY ShapedRows, RowParts DEF OwnerOf
<1>3. \A r \in BusRows("bus", 34) : /\ Shaped(r) /\ r.owner = <<"block">> /\ r.wide = 1
                                    /\ r.shift = 0 /\ r.low \in 34 .. 39
                                    /\ r.field[1] = "bus" /\ OwnerOf(r.field) = r.owner
  BY BusRowParts DEF OwnerOf
<1>4. AdioBlockRows = singles \cup BusRows("bus", 34)
  BY DEF AdioBlockRows
<1>5. \A r, s \in singles : r # s => RowsDiffer(r, s)
  BY RowParts DEF RowsDiffer
<1>6. \A r \in singles : r.field[1] # "bus"
  BY RowParts
<1> HIDE DEF singles
<1>7. \A r \in singles : BlockRow(f, r)
  BY <1>1, <1>2 DEF BlockRow
<1>8. \A r \in BusRows("bus", 34) : BlockRow(f, r)
  BY <1>1, <1>3 DEF BlockRow
<1>9. \A r \in singles, s \in BusRows("bus", 34) : RowsDiffer(r, s) /\ RowsDiffer(s, r)
  BY <1>2, <1>3, <1>6 DEF RowsDiffer
<1>10. \A r, s \in BusRows("bus", 34) : r # s => RowsDiffer(r, s)
  BY BusRowsDiffer
<1> QED BY <1>4, <1>5, <1>7, <1>8, <1>9, <1>10

(* Likewise for the external clocking.                                     *)
LEMMA ExtTable ==
  ASSUME NEW f, f.type = FUNC_BLOCK.EXT_CLOCKING
  PROVE  /\ \A r \in ExtRows : BlockRow(f, r)
         /\ \A r, s \in ExtRows : r # s => RowsDiffer(r, s)
<1> DEFINE singles == {ByteRow(<<"dir">>, <<"block">>, 2), ByteRow(<<"edge">>, <<"block">>, 3)}
           widths == BusRows("width", 4)
           methods == BusRows("method", 10)
<1>1. Room(f, <<"block">>) = 16
  BY DEF Room, FUNC_BLOCK
<1>2. \A r \in singles : /\ Shaped(r) /\ r.owner = <<"block">> /\ r.low \in {2, 3} /\ r.wide = 1
                         /\ r.shift = 0 /\ OwnerOf(r.field) = r.owner
                         /\ r.field[1] \in {"dir", "edge"}
  BY ShapedRows, RowParts DEF OwnerOf
<1>3. \A r, s \in singles : r # s => RowsDiffer(r, s)
  BY RowParts DEF RowsDiffer
<1>4. \A r \in widths : /\ Shaped(r) /\ r.owner = <<"block">> /\ r.wide = 1 /\ r.shift = 0
                        /\ r.low \in 4 .. 9
                        /\ r.field[1] = "width" /\ OwnerOf(r.field) = r.owner
  BY BusRowParts DEF OwnerOf
<1>5. \A r \in methods : /\ Shaped(r) /\ r.owner = <<"block">> /\ r.wide = 1 /\ r.shift = 0
                         /\ r.low \in 10 .. 15
                         /\ r.field[1] = "method" /\ OwnerOf(r.field) = r.owner
  BY BusRowParts DEF OwnerOf
<1>6. ExtRows = singles \cup widths \cup methods
  BY DEF ExtRows
<1>7. /\ \A r, s \in widths : r # s => RowsDiffer(r, s)
      /\ \A r, s \in methods : r # s => RowsDiffer(r, s)
  BY BusRowsDiffer
<1> HIDE DEF singles, widths, methods
<1>8. \A r \in singles \cup widths \cup methods : BlockRow(f, r)
  BY <1>1, <1>2, <1>4, <1>5 DEF BlockRow
<1>9. \A r \in singles, s \in widths : RowsDiffer(r, s) /\ RowsDiffer(s, r)
  BY <1>2, <1>4 DEF RowsDiffer
<1>10. \A r \in singles, s \in methods : RowsDiffer(r, s) /\ RowsDiffer(s, r)
  BY <1>2, <1>5 DEF RowsDiffer
<1>11. \A r \in widths, s \in methods : RowsDiffer(r, s) /\ RowsDiffer(s, r)
  BY <1>4, <1>5 DEF RowsDiffer
<1> QED BY <1>3, <1>6, <1>7, <1>8, <1>9, <1>10, <1>11

(* The rows of a channel: away from its status, the front end of an ADC's  *)
(* the only one with a mask.                                               *)
ChannelRow(f, c, r) ==
  /\ Shaped(r) /\ r.owner = <<"channel", c>> /\ OwnerOf(r.field) = r.owner
  /\ r.low \in Nat /\ r.low + r.wide <= Room(f, r.owner)
  /\ r.low + r.wide <= 10 \/ r.low >= 11
  /\ r.shift = 16 <=> r.low = 0

(* The table of a channel.                                                 *)
LEMMA ChannelTable ==
  ASSUME NEW f, NEW c
  PROVE  /\ \A r \in ChannelRows(f, c) : ChannelRow(f, c, r) /\ f.type \in Analog
         /\ \A r, s \in ChannelRows(f, c) : r # s => RowsDiffer(r, s)
<1>1. CASE f.type = FUNC_BLOCK.ADC
  <2>1. ChannelRows(f, c) = AdcChannelRows(c) /\ f.type \in Analog
    BY <1>1 DEF ChannelRows, Analog, FUNC_BLOCK
  <2>2. Room(f, <<"channel", c>>) = 24
    BY <1>1 DEF Room
  <2>3. \A r \in AdcChannelRows(c) : /\ Shaped(r) /\ r.owner = <<"channel", c>>
                                     /\ r.low \in {0, 11, 12, 16}
                                     /\ r.wide = (IF r.low = 11 THEN 1 ELSE 4)
                                     /\ r.shift = 16 <=> r.low = 0
                                     /\ OwnerOf(r.field) = r.owner
    BY ShapedRows, RowParts DEF OwnerOf, AdcChannelRows
  <2>4. \A r, s \in AdcChannelRows(c) : r # s => RowsDiffer(r, s)
    BY RowParts DEF RowsDiffer, AdcChannelRows
  <2> QED BY <2>1, <2>2, <2>3, <2>4 DEF ChannelRow
<1>2. CASE f.type = FUNC_BLOCK.DAC
  <2>1. ChannelRows(f, c) = DacChannelRows(c) /\ f.type \in Analog
    BY <1>2 DEF ChannelRows, Analog, FUNC_BLOCK
  <2>2. Room(f, <<"channel", c>>) = 20
    BY <1>2 DEF Room, FUNC_BLOCK
  <2>3. \A r \in DacChannelRows(c) : /\ Shaped(r) /\ r.owner = <<"channel", c>>
                                     /\ r.low \in {0, 11, 16}
                                     /\ r.wide = (IF r.low = 11 THEN 1 ELSE 4)
                                     /\ r.shift = 16 <=> r.low = 0
                                     /\ OwnerOf(r.field) = r.owner
    BY ShapedRows, RowParts DEF OwnerOf, DacChannelRows
  <2>4. \A r, s \in DacChannelRows(c) : r # s => RowsDiffer(r, s)
    BY RowParts DEF RowsDiffer, DacChannelRows
  <2> QED BY <2>1, <2>2, <2>3, <2>4 DEF ChannelRow
<1>3. CASE f.type \notin Analog
  <2>1. ChannelRows(f, c) = {}
    BY <1>3 DEF ChannelRows, Analog
  <2> QED BY <2>1
<1> QED BY <1>1, <1>2, <1>3 DEF Analog

(* The rows of the other parts, in which no register is special.           *)
OtherRow(f, o, r) ==
  /\ Shaped(r) /\ r.owner = o /\ OwnerOf(r.field) = r.owner
  /\ r.low \in Nat /\ r.low + r.wide <= Room(f, r.owner) /\ r.shift = 0

(* The tables of the pins, of a DMA channel and of a buffer.               *)
LEMMA OtherTables ==
  ASSUME NEW f, NEW c, NEW b
  PROVE  /\ \A r \in AdioPinRows : OtherRow(f, <<"pins">>, r)
         /\ \A r, s \in AdioPinRows : r # s => RowsDiffer(r, s)
         /\ \A r \in DmaRows(c) : OtherRow(f, <<"dma", c>>, r)
         /\ \A r, s \in DmaRows(c) : r = s
         /\ \A r \in BufferRows(c, b) : OtherRow(f, <<"buffer", c, b>>, r)
         /\ \A r, s \in BufferRows(c, b) : r # s => RowsDiffer(r, s)
<1>1. Room(f, <<"pins">>) = 30 /\ Room(f, <<"dma", c>>) = 16 /\ Room(f, <<"buffer", c, b>>) = 16
  BY DEF Room
<1>2. \A r \in AdioPinRows : OtherRow(f, <<"pins">>, r)
  <2>1. \A r \in AdioPinRows : /\ Shaped(r) /\ r.owner = <<"pins">>
                               /\ r.low \in {4, 8, 12, 16, 20, 24, 28, 29}
                               /\ r.wide = (IF r.low \in {12, 28, 29} THEN 1 ELSE 4)
                               /\ r.shift = 0
    BY ShapedRows, RowParts DEF AdioPinRows
  <2>2. \A r \in AdioPinRows : OwnerOf(r.field) = <<"pins">>
    BY RowParts DEF AdioPinRows, OwnerOf
  <2> QED BY <1>1, <2>1, <2>2 DEF OtherRow
<1>3. \A r, s \in AdioPinRows : r # s => RowsDiffer(r, s)
  BY RowParts DEF RowsDiffer, AdioPinRows
<1>4. ASSUME NEW r \in DmaRows(c)
      PROVE  OtherRow(f, <<"dma", c>>, r)
  <2>1. /\ r.field = <<"dma_setup", c>> /\ r.owner = <<"dma", c>> /\ r.low = 1 /\ r.wide = 1
        /\ r.shift = 0 /\ r.slots = {0, 1} /\ r.of = {0, 1}
    BY DEF DmaRows, Row
  <2>2. OwnerOf(r.field) = <<"dma", c>>
    BY <2>1 DEF OwnerOf
  <2> QED BY <1>1, <2>1, <2>2 DEF OtherRow, Shaped
<1>5. ASSUME NEW r \in BufferRows(c, b)
      PROVE  OtherRow(f, <<"buffer", c, b>>, r)
  <2>1. /\ r.field \in {<<"buffer_ctrl", c, b>>, <<"buffer_size", c, b>>}
        /\ r.owner = <<"buffer", c, b>> /\ r.shift = 0 /\ r.of = r.slots
        /\ \/ r.low = 3 /\ r.wide = 1 /\ r.slots = Width(8)
           \/ r.low = 4 /\ r.wide = 4 /\ r.slots = Width(24)
    BY DEF BufferRows, Row
  <2>2. OwnerOf(r.field) = <<"buffer", c, b>>
    BY <2>1 DEF OwnerOf
  <2> QED BY <1>1, <2>1, <2>2 DEF OtherRow, Shaped, Width
<1>6. \A r, s \in DmaRows(c) : r = s
  BY DEF DmaRows
<1>7. \A r, s \in BufferRows(c, b) : r # s => RowsDiffer(r, s)
  BY DEF BufferRows, Row, RowsDiffer
<1> QED BY <1>2, <1>3, <1>4, <1>5, <1>6, <1>7

(* The first byte of a row.                                                *)
At(f, r) == Base(f, r.owner) + r.low

(* Which of the tables a row is from.                                      *)
LEMMA RowHome ==
  ASSUME NEW f, Descriptor(f), NEW r \in Layout(f)
  PROVE  \/ r \in BlockRows(f) /\ BlockRow(f, r)
         \/ f.type = FUNC_BLOCK.ADIO /\ r \in AdioPinRows /\ OtherRow(f, <<"pins">>, r)
         \/ \E c \in RowChannels(f) :
              f.type \in Analog /\ r \in ChannelRows(f, c) /\ ChannelRow(f, c, r)
         \/ \E c \in DmaChannels(f) : r \in DmaRows(c) /\ OtherRow(f, <<"dma", c>>, r)
         \/ \E c \in DmaChannels(f), b \in DmaBuffersOf(f) :
              r \in BufferRows(c, b) /\ OtherRow(f, <<"buffer", c, b>>, r)
<1>1. \/ r \in BlockRows(f)
      \/ f.type = FUNC_BLOCK.ADIO /\ r \in AdioPinRows
      \/ \E c \in RowChannels(f) : r \in ChannelRows(f, c)
      \/ \E c \in DmaChannels(f) : r \in DmaRows(c)
      \/ \E c \in DmaChannels(f), b \in DmaBuffersOf(f) : r \in BufferRows(c, b)
  BY DEF Layout
<1>2. ASSUME r \in BlockRows(f) PROVE BlockRow(f, r)
  <2>1. CASE f.type = FUNC_BLOCK.ADC
    BY <1>2, <2>1, AdcBlockTable DEF BlockRows, FUNC_BLOCK
  <2>2. CASE f.type = FUNC_BLOCK.DAC
    BY <1>2, <2>2, DacBlockTable DEF BlockRows, FUNC_BLOCK
  <2>3. CASE f.type = FUNC_BLOCK.ADIO
    BY <1>2, <2>3, AdioBlockTable DEF BlockRows, FUNC_BLOCK
  <2>4. CASE f.type = FUNC_BLOCK.EXT_CLOCKING
    BY <1>2, <2>4, ExtTable DEF BlockRows, FUNC_BLOCK
  <2> QED BY <2>1, <2>2, <2>3, <2>4 DEF Descriptor, Blocks4
<1>3. ASSUME NEW c \in RowChannels(f), r \in ChannelRows(f, c)
      PROVE  f.type \in Analog /\ ChannelRow(f, c, r)
  BY <1>3, ChannelTable
<1>4. r \in AdioPinRows => OtherRow(f, <<"pins">>, r)
  BY OtherTables
<1>5. \A c : r \in DmaRows(c) => OtherRow(f, <<"dma", c>>, r)
  BY OtherTables
<1>6. \A c, b : r \in BufferRows(c, b) => OtherRow(f, <<"buffer", c, b>>, r)
  BY OtherTables
<1> QED BY <1>1, <1>2, <1>3, <1>4, <1>5, <1>6

(* The part that a row belongs to says which table it is from.             *)
LEMMA RowTable ==
  ASSUME NEW f, Descriptor(f), NEW r \in Layout(f)
  PROVE  /\ r.owner = <<"block">> => r \in BlockRows(f)
         /\ r.owner = <<"pins">> => r \in AdioPinRows
         /\ \A c : r.owner = <<"channel", c>> => r \in ChannelRows(f, c)
         /\ \A c : r.owner = <<"dma", c>> => r \in DmaRows(c)
         /\ \A c, b : r.owner = <<"buffer", c, b>> => r \in BufferRows(c, b)
<1>1. CASE r \in BlockRows(f) /\ r.owner = <<"block">>
  BY <1>1
<1>2. CASE r \in AdioPinRows /\ r.owner = <<"pins">>
  BY <1>2
<1>3. ASSUME NEW d, r \in ChannelRows(f, d), r.owner = <<"channel", d>>
      PROVE  /\ r.owner[1] = "channel"
             /\ \A c : r.owner = <<"channel", c>> => r \in ChannelRows(f, c)
             /\ \A c : r.owner # <<"dma", c>>
             /\ \A c, b : r.owner # <<"buffer", c, b>>
  BY <1>3
<1>4. ASSUME NEW d, r \in DmaRows(d), r.owner = <<"dma", d>>
      PROVE  /\ r.owner[1] = "dma"
             /\ \A c : r.owner = <<"dma", c>> => r \in DmaRows(c)
             /\ \A c : r.owner # <<"channel", c>>
             /\ \A c, b : r.owner # <<"buffer", c, b>>
  BY <1>4
<1>5. ASSUME NEW d, NEW e, r \in BufferRows(d, e), r.owner = <<"buffer", d, e>>
      PROVE  /\ r.owner[1] = "buffer"
             /\ \A c, b : r.owner = <<"buffer", c, b>> => r \in BufferRows(c, b)
             /\ \A c : r.owner # <<"channel", c>>
             /\ \A c : r.owner # <<"dma", c>>
  <2>1. r.owner[1] = "buffer" /\ r.owner[2] = d /\ r.owner[3] = e
    BY <1>5
  <2>2. \A c, b : r.owner = <<"buffer", c, b>> => c = d /\ b = e
    BY <2>1
  <2> QED BY <1>5, <2>1, <2>2
<1>6. \/ r \in BlockRows(f) /\ r.owner = <<"block">>
      \/ r \in AdioPinRows /\ r.owner = <<"pins">>
      \/ \E c : r \in ChannelRows(f, c) /\ r.owner = <<"channel", c>>
      \/ \E c : r \in DmaRows(c) /\ r.owner = <<"dma", c>>
      \/ \E c, b : r \in BufferRows(c, b) /\ r.owner = <<"buffer", c, b>>
  BY RowHome DEF BlockRow, ChannelRow, OtherRow
<1> QED BY <1>1, <1>2, <1>3, <1>4, <1>5, <1>6

(* A block has room for the channels that have rows.                       *)
LEMMA RowSlots ==
  ASSUME NEW f, Descriptor(f)
  PROVE  /\ RowChannels(f) \subseteq 0 .. ChannelSlots(f) - 1
         /\ DmaChannels(f) \subseteq RowChannels(f)
<1>1. /\ f.num_dma_channels <= ChannelSlots(f) /\ ChannelSlots(f) \in Nat
      /\ f.num_dma_channels \in Nat
  BY Sizes DEF Descriptor, WellPlaced
<1>2. f.type = FUNC_BLOCK.DAC => ChannelSlots(f) = NUM_DAC_DMA_CHANNELS
  BY DEF ChannelSlots, FUNC_BLOCK
<1>3. NUM_DAC_DMA_CHANNELS = 4
  BY DEF NUM_DAC_DMA_CHANNELS
<1> QED BY <1>1, <1>2, <1>3 DEF RowChannels, DmaChannels

(* What holds of every row: it lies in its part, which the block has.      *)
LEMMA RowFacts ==
  ASSUME NEW f, Descriptor(f), NEW r \in Layout(f)
  PROVE  /\ Shaped(r) /\ OwnerOf(r.field) = r.owner
         /\ r.owner \in Owners(f)
         /\ r.low \in Nat /\ r.low + r.wide <= Room(f, r.owner)
         /\ At(f, r) \in Nat
<1>1. /\ Shaped(r) /\ OwnerOf(r.field) = r.owner /\ r.low \in Nat
      /\ r.low + r.wide <= Room(f, r.owner)
  BY RowHome DEF BlockRow, ChannelRow, OtherRow
<1>2. r.owner \in Owners(f)
  <2>3. CASE r.owner = <<"block">>
    BY <2>3 DEF Owners
  <2>4. CASE f.type = FUNC_BLOCK.ADIO /\ r.owner = <<"pins">>
    BY <2>4 DEF Owners
  <2>5. ASSUME NEW c \in RowChannels(f), f.type \in Analog, r.owner = <<"channel", c>>
        PROVE  r.owner \in Owners(f)
    <3>1. c \in 0 .. ChannelSlots(f) - 1
      BY RowSlots
    <3> QED BY <2>5, <3>1 DEF Owners
  <2>6. ASSUME NEW c \in DmaChannels(f), r.owner = <<"dma", c>>
        PROVE  r.owner \in Owners(f)
    BY <2>6 DEF Owners, DmaChannels
  <2>7. ASSUME NEW c \in DmaChannels(f), NEW b \in DmaBuffersOf(f), r.owner = <<"buffer", c, b>>
        PROVE  r.owner \in Owners(f)
    BY <2>7 DEF Owners, DmaChannels, DmaBuffersOf
  <2>8. \/ r.owner = <<"block">>
        \/ f.type = FUNC_BLOCK.ADIO /\ r.owner = <<"pins">>
        \/ \E c \in RowChannels(f) : f.type \in Analog /\ r.owner = <<"channel", c>>
        \/ \E c \in DmaChannels(f) : r.owner = <<"dma", c>>
        \/ \E c \in DmaChannels(f), b \in DmaBuffersOf(f) : r.owner = <<"buffer", c, b>>
    BY RowHome DEF BlockRow, ChannelRow, OtherRow
  <2> QED BY <2>3, <2>4, <2>5, <2>6, <2>7, <2>8
<1>3. At(f, r) \in Nat
  BY <1>1, <1>2, PartPlaced DEF At
<1> QED BY <1>1, <1>2, <1>3

(* No two fields of a block have a byte in common.                         *)
LEMMA RowsApart ==
  ASSUME NEW f, Descriptor(f), NEW r \in Layout(f), NEW s \in Layout(f), r # s
  PROVE  /\ r.field # s.field
         /\ At(f, r) + r.wide <= At(f, s) \/ At(f, s) + s.wide <= At(f, r)
<1>1. /\ Shaped(r) /\ OwnerOf(r.field) = r.owner /\ r.owner \in Owners(f)
      /\ r.low \in Nat /\ r.low + r.wide <= Room(f, r.owner)
      /\ Shaped(s) /\ OwnerOf(s.field) = s.owner /\ s.owner \in Owners(f)
      /\ s.low \in Nat /\ s.low + s.wide <= Room(f, s.owner)
  BY RowFacts
<1>2. r.wide \in {1, 4} /\ s.wide \in {1, 4}
  BY <1>1 DEF Shaped
<1>3. /\ Base(f, r.owner) \in Nat /\ Room(f, r.owner) \in Nat
      /\ Base(f, s.owner) \in Nat /\ Room(f, s.owner) \in Nat
  BY <1>1, PartPlaced
<1>4. CASE r.owner # s.owner
  <2>1. Apart(f, r.owner, s.owner)
    BY <1>1, <1>4, PartsApart
  <2>2. r.field # s.field
    BY <1>1, <1>4
  <2> QED BY <1>1, <1>2, <1>3, <2>1, <2>2 DEF Apart, At
<1>5. CASE r.owner = s.owner
  <2>1. RowsDiffer(r, s)
    <3> DEFINE o == r.owner
    <3>1. CASE o = <<"block">>
      <4>1. r \in BlockRows(f) /\ s \in BlockRows(f)
        BY <1>5, <3>1, RowTable
      <4>2. CASE f.type = FUNC_BLOCK.ADC
        BY <4>1, <4>2, AdcBlockTable DEF BlockRows, FUNC_BLOCK
      <4>3. CASE f.type = FUNC_BLOCK.DAC
        BY <4>1, <4>3, DacBlockTable DEF BlockRows, FUNC_BLOCK
      <4>4. CASE f.type = FUNC_BLOCK.ADIO
        BY <4>1, <4>4, AdioBlockTable DEF BlockRows, FUNC_BLOCK
      <4>5. CASE f.type = FUNC_BLOCK.EXT_CLOCKING
        BY <4>1, <4>5, ExtTable DEF BlockRows, FUNC_BLOCK
      <4> QED BY <4>2, <4>3, <4>4, <4>5 DEF Descriptor, Blocks4
    <3>2. CASE o = <<"pins">>
      <4>1. r \in AdioPinRows /\ s \in AdioPinRows
        BY <1>5, <3>2, RowTable
      <4> QED BY <4>1, OtherTables
    <3>3. ASSUME NEW c \in RowChannels(f), o = <<"channel", c>>
          PROVE  RowsDiffer(r, s)
      <4>1. r \in ChannelRows(f, c) /\ s \in ChannelRows(f, c)
        BY <1>5, <3>3, RowTable
      <4> QED BY <4>1, ChannelTable
    <3>4. ASSUME NEW c \in DmaChannels(f), o = <<"dma", c>>
          PROVE  RowsDiffer(r, s)
      <4>1. r \in DmaRows(c) /\ s \in DmaRows(c)
        BY <1>5, <3>4, RowTable
      <4> QED BY <4>1, OtherTables
    <3>5. ASSUME NEW c \in DmaChannels(f), NEW b \in DmaBuffersOf(f), o = <<"buffer", c, b>>
          PROVE  RowsDiffer(r, s)
      <4>1. r \in BufferRows(c, b) /\ s \in BufferRows(c, b)
        BY <1>5, <3>5, RowTable
      <4> QED BY <4>1, OtherTables
    <3>6. \/ o = <<"block">>
          \/ o = <<"pins">>
          \/ \E c \in RowChannels(f) : o = <<"channel", c>>
          \/ \E c \in DmaChannels(f) : o = <<"dma", c>>
          \/ \E c \in DmaChannels(f), b \in DmaBuffersOf(f) : o = <<"buffer", c, b>>
      BY RowHome DEF BlockRow, ChannelRow, OtherRow
    <3> QED BY <3>1, <3>2, <3>3, <3>4, <3>5, <3>6
  <2> QED BY <1>1, <1>2, <1>3, <1>5, <2>1 DEF RowsDiffer, At
<1> QED BY <1>4, <1>5
-----------------------------------------------------------------------------
(* The registers of a block that are special: those with a mask in the low *)
(* half, and the status registers.                                         *)

(* Where a channel of an analog block begins.                              *)
LEMMA ChannelBase ==
  ASSUME NEW f, Descriptor(f), f.type \in Analog, NEW c \in DmaChannels(f)
  PROVE  /\ <<"channel", c>> \in Owners(f)
         /\ ChannelStart(f, c) = Base(f, <<"channel", c>>)
         /\ Room(f, <<"channel", c>>) \in {20, 24}
         /\ Base(f, <<"channel", c>>) \in Nat
<1> DEFINE o == <<"channel", c>>
<1>1. c \in 0 .. f.num_dma_channels - 1
  BY DEF DmaChannels
<1>2. o \in Owners(f) /\ ChannelStart(f, c) = Base(f, o) + 0
  <2>1. CASE f.type = FUNC_BLOCK.ADC
    BY <1>1, <2>1, OnAdcChannel DEF ChannelStart
  <2>2. CASE f.type = FUNC_BLOCK.DAC
    <3>1. f.num_dma_channels \in 0 .. 4
      BY <2>2, Sizes DEF Descriptor, WellPlaced, FUNC_BLOCK
    <3>2. c \in 0 .. 3 /\ f.type # FUNC_BLOCK.ADC
      BY <1>1, <2>2, <3>1 DEF FUNC_BLOCK
    <3> QED BY <2>2, <3>2, OnDacChannel DEF ChannelStart
  <2> QED BY <2>1, <2>2 DEF Analog
<1>3. Room(f, o) \in {20, 24}
  BY DEF Room
<1>4. Base(f, o) \in Nat
  BY <1>2, PartPlaced
<1> QED BY <1>2, <1>3, <1>4

(* The registers with a mask, those whose bits are cleared by writing      *)
(* ones, and the bits that the board sets.                                 *)
LEMMA SpecialRegisters ==
  ASSUME NEW f, Descriptor(f)
  PROVE  /\ \A x : x \in Maskable(f) <=>
              /\ f.type # FUNC_BLOCK.EXT_CLOCKING
              /\ \/ x = Base(f, <<"block">>) + 24
                 \/ f.type \in Analog /\ \E c \in DmaChannels(f) : x = Base(f, <<"channel", c>>)
         /\ \A x \in WriteOneToClear(f) :
              /\ f.type # FUNC_BLOCK.EXT_CLOCKING
              /\ \/ x = Base(f, <<"block">>) + 30
                 \/ /\ f.type \in Analog
                    /\ \E c \in DmaChannels(f) : x = Base(f, <<"channel", c>>) + 10
         /\ \A b \in StatusBits(f) :
              /\ f.type # FUNC_BLOCK.EXT_CLOCKING
              /\ \/ b = 8 * (Base(f, <<"block">>) + 30)
                 \/ /\ f.type \in Analog
                    /\ \E c \in DmaChannels(f) : b = 8 * (Base(f, <<"channel", c>>) + 10) + 1
<1>1. /\ ADC.INT_ENABLE = 24 /\ ADC.INT_STAT = 30
      /\ ADC_CHAN.FRONT_END_CONFIG = 0 /\ ADC_CHAN.INTR_STAT = 10
  BY DEF ADC, ADC_CHAN
<1>2. Base(f, <<"block">>) = f.control_offset
  BY DEF Base
<1>3. IsAnalog(f) <=> f.type \in Analog
  BY DEF IsAnalog, Analog
<1>4. \A n : Offsets(f, n) = {ChannelStart(f, c) + n : c \in DmaChannels(f)}
  BY DEF Offsets, DmaChannels
<1>5. ASSUME f.type \in Analog
      PROVE  \A c \in DmaChannels(f) : /\ ChannelStart(f, c) = Base(f, <<"channel", c>>)
                                       /\ Base(f, <<"channel", c>>) + 0 = Base(f, <<"channel", c>>)
  <2>1. \A c \in DmaChannels(f) : /\ ChannelStart(f, c) = Base(f, <<"channel", c>>)
                                  /\ Base(f, <<"channel", c>>) \in Nat
    BY <1>5, ChannelBase
  <2>2. \A x \in Nat : x + 0 = x
    OBVIOUS
  <2> QED BY <2>1, <2>2
<1>6. \A c \in Channels(f) : c \in DmaChannels(f)
  BY DEF Channels, DmaChannels
<1>7. ASSUME NEW x
      PROVE  x \in Maskable(f) <=>
              /\ f.type # FUNC_BLOCK.EXT_CLOCKING
              /\ \/ x = Base(f, <<"block">>) + 24
                 \/ f.type \in Analog /\ \E c \in DmaChannels(f) : x = Base(f, <<"channel", c>>)
  <2>1. x \in Maskable(f) <=>
          /\ f.type # FUNC_BLOCK.EXT_CLOCKING
          /\ \/ x = f.control_offset + 24
             \/ f.type \in Analog /\ \E c \in DmaChannels(f) : x = ChannelStart(f, c) + 0
    BY <1>1, <1>3, <1>4 DEF Maskable
  <2> QED BY <1>2, <1>5, <2>1
<1>8. ASSUME NEW x \in WriteOneToClear(f)
      PROVE   /\ f.type # FUNC_BLOCK.EXT_CLOCKING
              /\ \/ x = Base(f, <<"block">>) + 30
                 \/ /\ f.type \in Analog
                    /\ \E c \in DmaChannels(f) : x = Base(f, <<"channel", c>>) + 10
  <2>1. /\ f.type # FUNC_BLOCK.EXT_CLOCKING
        /\ \/ x = f.control_offset + 30
           \/ f.type \in Analog /\ \E c \in DmaChannels(f) : x = ChannelStart(f, c) + 10
    BY <1>1, <1>3, <1>4 DEF WriteOneToClear
  <2> QED BY <1>2, <1>5, <2>1
<1>9. ASSUME NEW b \in StatusBits(f)
      PROVE   /\ f.type # FUNC_BLOCK.EXT_CLOCKING
              /\ \/ b = 8 * (Base(f, <<"block">>) + 30)
                 \/ /\ f.type \in Analog
                    /\ \E c \in DmaChannels(f) : b = 8 * (Base(f, <<"channel", c>>) + 10) + 1
  <2>1. /\ f.type # FUNC_BLOCK.EXT_CLOCKING
        /\ \/ b = 8 * (f.control_offset + 30)
           \/ f.type \in Analog /\ \E c \in DmaChannels(f) : b = 8 * (ChannelStart(f, c) + 10) + 1
    BY <1>1, <1>3, <1>6 DEF StatusBits
  <2> QED BY <1>2, <1>5, <2>1
<1> QED BY <1>7, <1>8, <1>9

(* A byte of a part that a row covers is one of the row's part.            *)
LEMMA ByteOfRow ==
  ASSUME NEW f, Descriptor(f), NEW r \in Layout(f), NEW o \in Owners(f), NEW k \in Nat,
         k < Room(f, o), At(f, r) <= Base(f, o) + k, Base(f, o) + k < At(f, r) + r.wide
  PROVE  r.owner = o /\ r.low <= k /\ k < r.low + r.wide
<1>1. /\ r.owner \in Owners(f) /\ r.low \in Nat /\ r.wide \in {1, 4}
      /\ r.low + r.wide <= Room(f, r.owner)
  BY RowFacts DEF Shaped
<1>2. /\ Base(f, r.owner) \in Nat /\ Room(f, r.owner) \in Nat
      /\ Base(f, o) \in Nat /\ Room(f, o) \in Nat
  BY <1>1, PartPlaced
<1>3. r.owner = o
  <2> SUFFICES ASSUME r.owner # o PROVE FALSE
    OBVIOUS
  <2>1. Apart(f, r.owner, o)
    BY <1>1, PartsApart
  <2> QED BY <1>1, <1>2, <2>1 DEF Apart, At
<1> QED BY <1>1, <1>2, <1>3 DEF At

(* A field lies in the high half of a register with a mask, or in a        *)
(* register that simply holds what is written; the board changes none.     *)
LEMMA RowsAndSpecial ==
  ASSUME NEW f, Descriptor(f), NEW r \in Layout(f)
  PROVE  /\ At(f, r) \in Maskable(f) => r.shift = 16
         /\ (r.owner = <<"block">> \/ \E c \in DmaChannels(f) : r.owner = <<"channel", c>>)
              => (r.shift = 16 => At(f, r) \in Maskable(f))
         /\ At(f, r) \notin WriteOneToClear(f)
         /\ \A b \in StatusBits(f) : b < 8 * At(f, r) \/ b >= 8 * (At(f, r) + r.wide)
<1> DEFINE blk == <<"block">>
           ext == f.type = FUNC_BLOCK.EXT_CLOCKING
<1>1. /\ r.owner \in Owners(f) /\ r.low \in Nat /\ r.wide \in {1, 4} /\ r.shift \in {0, 16}
      /\ At(f, r) = Base(f, r.owner) + r.low /\ Base(f, r.owner) \in Nat
  BY RowFacts, PartPlaced DEF Shaped, At
<1>2. blk \in Owners(f) /\ Base(f, blk) \in Nat /\ (~ext => Room(f, blk) \in {40, 44})
  BY PartPlaced DEF Owners, Room
<1>3. r.owner = blk =>
        /\ ext => r.shift = 0
        /\ ~ext => (r.low + r.wide <= 30 \/ r.low >= 32) /\ (r.shift = 16 <=> r.low = 24)
  <2>1. r.owner = blk => BlockRow(f, r)
    BY RowHome DEF OtherRow, ChannelRow
  <2> QED BY <2>1 DEF BlockRow
<1>4. \A c : r.owner = <<"channel", c>> =>
        (r.low + r.wide <= 10 \/ r.low >= 11) /\ (r.shift = 16 <=> r.low = 0)
  <2>1. \A c : r.owner = <<"channel", c>> => ChannelRow(f, c, r)
    BY RowTable, ChannelTable
  <2> QED BY <2>1 DEF ChannelRow
<1>5. \A c : r.owner = <<"channel", c>> => f.type \in Analog
  <2>1. r.owner[1] = "channel" => f.type \in Analog
    BY RowHome DEF OtherRow, ChannelRow, BlockRow
  <2> QED BY <2>1
<1>6. ASSUME f.type \in Analog, NEW c \in DmaChannels(f)
      PROVE  /\ <<"channel", c>> \in Owners(f) /\ Base(f, <<"channel", c>>) \in Nat
             /\ Room(f, <<"channel", c>>) \in {20, 24} /\ ~ext
  BY <1>6, ChannelBase DEF Analog, FUNC_BLOCK
<1> HIDE DEF blk, ext
<1>7. ASSUME At(f, r) \in Maskable(f) PROVE r.shift = 16
  <2>1. /\ ~ext
        /\ \/ At(f, r) = Base(f, blk) + 24
           \/ f.type \in Analog /\ \E c \in DmaChannels(f) : At(f, r) = Base(f, <<"channel", c>>)
    BY <1>7, SpecialRegisters DEF ext, blk
  <2>2. CASE At(f, r) = Base(f, blk) + 24
    <3>1. r.owner = blk /\ r.low <= 24 /\ 24 < r.low + r.wide
      BY <1>1, <1>2, <2>1, <2>2, ByteOfRow
    <3>2. r.low = 24
      BY <1>1, <1>2, <2>2, <3>1
    <3> QED BY <1>3, <2>1, <3>1, <3>2
  <2>3. ASSUME f.type \in Analog, NEW c \in DmaChannels(f), At(f, r) = Base(f, <<"channel", c>>)
        PROVE  r.shift = 16
    <3> DEFINE o == <<"channel", c>>
    <3>1. o \in Owners(f) /\ Base(f, o) \in Nat /\ Room(f, o) \in {20, 24}
      BY <1>6, <2>3
    <3>2. At(f, r) = Base(f, o)
      BY <2>3
    <3>3. (r.owner = o => (r.shift = 16 <=> r.low = 0))
      BY <1>4
    <3> HIDE DEF o
    <3>4. r.owner = o /\ r.low <= 0
      <4>1. At(f, r) <= Base(f, o) + 0 /\ Base(f, o) + 0 < At(f, r) + r.wide /\ 0 < Room(f, o)
        BY <1>1, <3>1, <3>2
      <4> QED BY <3>1, <4>1, ByteOfRow
    <3> QED BY <1>1, <3>3, <3>4
  <2> QED BY <2>1, <2>2, <2>3
<1>8. ASSUME r.shift = 16,
             r.owner = blk \/ \E c \in DmaChannels(f) : r.owner = <<"channel", c>>
      PROVE  At(f, r) \in Maskable(f)
  <2>1. CASE r.owner = blk
    <3>1. r.low = 24 /\ ~ext
      BY <1>3, <1>8, <2>1
    <3> QED BY <1>1, <2>1, <3>1, SpecialRegisters DEF ext, blk
  <2>2. ASSUME f.type \in Analog, NEW c \in DmaChannels(f), r.owner = <<"channel", c>>
        PROVE  At(f, r) \in Maskable(f)
    <3>1. r.low = 0 /\ ~ext
      BY <1>4, <1>6, <1>8, <2>2
    <3>2. At(f, r) = Base(f, <<"channel", c>>)
      BY <1>1, <2>2, <3>1
    <3> QED BY <2>2, <3>1, <3>2, SpecialRegisters DEF ext
  <2> QED BY <1>5, <1>8, <2>1, <2>2
<1>9. ASSUME NEW x \in Nat, At(f, r) <= x, x < At(f, r) + r.wide, ~ext,
             \/ x = Base(f, blk) + 30
             \/ f.type \in Analog /\ \E c \in DmaChannels(f) : x = Base(f, <<"channel", c>>) + 10
      PROVE  FALSE
  <2>1. CASE x = Base(f, blk) + 30
    <3>1. r.owner = blk /\ r.low <= 30 /\ 30 < r.low + r.wide
      BY <1>1, <1>2, <1>9, <2>1, ByteOfRow
    <3> QED BY <1>1, <1>3, <1>9, <3>1
  <2>2. ASSUME f.type \in Analog, NEW c \in DmaChannels(f), x = Base(f, <<"channel", c>>) + 10
        PROVE  FALSE
    <3> DEFINE o == <<"channel", c>>
    <3>1. /\ o \in Owners(f) /\ Base(f, o) \in Nat /\ Room(f, o) \in {20, 24}
          /\ x = Base(f, o) + 10
      BY <1>6, <2>2
    <3>2. r.owner = o => r.low + r.wide <= 10 \/ r.low >= 11
      BY <1>4
    <3> HIDE DEF o
    <3>3. r.owner = o /\ r.low <= 10 /\ 10 < r.low + r.wide
      BY <1>1, <1>9, <3>1, ByteOfRow
    <3> QED BY <1>1, <3>2, <3>3
  <2> QED BY <1>9, <2>1, <2>2
<1>10. At(f, r) \notin WriteOneToClear(f)
  <2> SUFFICES ASSUME At(f, r) \in WriteOneToClear(f) PROVE FALSE
    OBVIOUS
  <2>1. At(f, r) \in Nat /\ At(f, r) < At(f, r) + r.wide
    BY <1>1
  <2> QED BY <1>9, <2>1, SpecialRegisters DEF ext, blk
<1>11. ASSUME NEW b \in StatusBits(f)
       PROVE  b < 8 * At(f, r) \/ b >= 8 * (At(f, r) + r.wide)
  <2>1. /\ ~ext
        /\ \/ b = 8 * (Base(f, blk) + 30)
           \/ /\ f.type \in Analog
              /\ \E c \in DmaChannels(f) : b = 8 * (Base(f, <<"channel", c>>) + 10) + 1
    BY SpecialRegisters DEF ext, blk
  <2>2. PICK x \in Nat, i \in 0 .. 1 :
          /\ b = 8 * x + i
          /\ \/ x = Base(f, blk) + 30
             \/ f.type \in Analog /\ \E c \in DmaChannels(f) : x = Base(f, <<"channel", c>>) + 10
    <3>1. CASE b = 8 * (Base(f, blk) + 30)
      <4>1. Base(f, blk) + 30 \in Nat /\ b = 8 * (Base(f, blk) + 30) + 0
        BY <1>2, <3>1
      <4> QED BY <4>1
    <3>2. CASE f.type \in Analog
                 /\ \E c \in DmaChannels(f) : b = 8 * (Base(f, <<"channel", c>>) + 10) + 1
      <4>1. PICK c \in DmaChannels(f) : b = 8 * (Base(f, <<"channel", c>>) + 10) + 1
        BY <3>2
      <4>2. Base(f, <<"channel", c>>) + 10 \in Nat
        BY <1>6, <3>2
      <4> QED BY <3>2, <4>1, <4>2
    <3> QED BY <2>1, <3>1, <3>2
  <2>3. ~(At(f, r) <= x /\ x < At(f, r) + r.wide)
    BY <1>9, <2>1, <2>2
  <2>4. At(f, r) \in Nat
    BY <1>1
  <2> QED BY <1>1, <2>2, <2>3, <2>4
<1> QED BY <1>7, <1>8, <1>10, <1>11 DEF blk
-----------------------------------------------------------------------------
(* What an access does to the fields.                                      *)

(* The bits of a field that are one.                                       *)
HeldIn(f, m, r) == {b \in r.slots : 8 * At(f, r) + r.shift + b \in m["FB"]}

(* An access that gives the bits `of' of a field the value `set'.          *)
Sets(f, r, a, set, of) ==
  /\ a.region = "FB" /\ a.offset = At(f, r) /\ a.size = 8 * r.wide
  /\ set \cap of \cap r.of \subseteq r.slots
  /\ \/ /\ r.shift = 0 /\ a.op = "write"
        /\ \A b \in r.slots : b \in of /\ (b \in a.data <=> b \in set)
     \/ /\ r.shift = 0 /\ a.op = "modify"
        /\ \A b \in r.slots : /\ b \in a.mask <=> b \in of
                              /\ b \in of => (b \in a.data <=> b \in set)
     \/ /\ r.shift = 16 /\ a.op = "write" /\ a.offset \in Maskable(f)
        /\ \A b \in r.slots : /\ b \in a.data <=> b \in of
                              /\ b \in of => (b + 16 \in a.data <=> b \in set)

(* One that gives the bits `of' of a half that has no mask the value `set',*)
(* and says nothing of the others.                                         *)
Stores(f, r, a, set, of) ==
  /\ a.region = "FB" /\ a.offset = At(f, r) /\ a.size = 8 * r.wide /\ a.op = "write"
  /\ r.shift = 16 /\ a.offset \notin Maskable(f)
  /\ \A b \in r.slots : b \in of => (b + 16 \in a.data <=> b \in set)

(* An access whose bytes are others than those of a field.                 *)
Clear(f, r, a) ==
  \/ a.op = "read" \/ a.region = "GBC"
  \/ a.offset + Bytes(a.size) <= At(f, r) \/ At(f, r) + r.wide <= a.offset

(* It leaves the field as it was; and so does one that is refused.         *)
LEMMA ClearKeeps ==
  ASSUME NEW f, Descriptor(f), NEW m, InRegions(m), NEW r \in Layout(f), NEW a \in Requests,
         Clear(f, r, a) \/ ~Allowed(a)
  PROVE  HeldIn(f, Perform(f, m, a), r) = HeldIn(f, m, r)
<1> DEFINE n == Perform(f, m, a)
<1>1. CASE ~Allowed(a) \/ a.op = "read"
  <2>1. n = m
    BY <1>1 DEF Perform
  <2> QED BY <2>1
<1>2. CASE Allowed(a) /\ a.op # "read"
  <2>1. PICK data : n = BoardWrite(f, m, a, data)
    <3>1. CASE a.op = "write"
      BY <1>2, <3>1 DEF Perform
    <3>2. CASE a.op = "modify"
      BY <1>2, <3>2 DEF Perform
    <3> QED BY <1>2, <3>1, <3>2 DEF Requests, Ops
  <2> HIDE DEF n
  <2>2. /\ \A q \in {"GBC", "FB"} : q # a.region => n[q] = m[q]
        /\ \A x : x \notin Window(a.offset, a.size) => (x \in n[a.region] <=> x \in m[a.region])
    BY <1>2, <2>1, WriteOfBoard
  <2>3. CASE a.region = "GBC"
    BY <2>2, <2>3 DEF HeldIn, n
  <2>4. CASE a.region # "GBC"
    <3>1. a.region = "FB" /\ a.offset \in Nat /\ a.size \in {8, 16, 32}
      BY <2>4 DEF Requests
    <3>2. /\ At(f, r) \in Nat /\ r.wide \in {1, 4} /\ r.shift \in {0, 16}
          /\ \A b \in r.slots : b \in Nat /\ r.shift + b < 8 * r.wide
      BY RowFacts DEF Shaped
    <3>3. a.offset + Bytes(a.size) <= At(f, r) \/ At(f, r) + r.wide <= a.offset
      BY <1>2, <2>4 DEF Clear
    <3>4. Bytes(a.size) \in {1, 2, 4} /\ a.size = 8 * Bytes(a.size)
      BY <3>1 DEF Bytes
    <3>5. \A b \in r.slots : 8 * At(f, r) + r.shift + b \notin Window(a.offset, a.size)
      BY <3>1, <3>2, <3>3, <3>4 DEF Window
    <3> QED BY <2>2, <3>1, <3>5 DEF HeldIn, n
  <2> QED BY <2>3, <2>4
<1> QED BY <1>1, <1>2

(* An access that sets a field does so, and leaves its other bits.         *)
LEMMA SetsField ==
  ASSUME NEW f, Descriptor(f), NEW m, InRegions(m), NEW r \in Layout(f), NEW a \in Requests,
         NEW set, NEW of, Sets(f, r, a, set, of), Allowed(a)
  PROVE  HeldIn(f, Perform(f, m, a), r) = (HeldIn(f, m, r) \ of) \cup (set \cap of \cap r.of)
<1> DEFINE n == Perform(f, m, a)
           at == At(f, r)
           old == region_read(m["FB"], a.offset, a.size)
           masked(d) == HighHalf(d \cap Width(16))
<1>1. /\ at \in Nat /\ r.wide \in {1, 4} /\ r.shift \in {0, 16} /\ r.slots \subseteq r.of
      /\ \A b \in r.slots : b \in Nat /\ r.shift + b < 8 * r.wide
      /\ r.shift = 16 => r.slots = Width(16)
  BY RowFacts DEF Shaped
<1>2. /\ a.region = "FB" /\ a.offset = at /\ a.size = 8 * r.wide /\ a.size \in Nat
      /\ set \cap of \cap r.of \subseteq r.slots
  BY <1>1 DEF Sets
<1>3. m \in [{"GBC", "FB"} -> SUBSET Int]
  BY DEF InRegions
<1>4. ASSUME NEW new, n = [m EXCEPT ![a.region] = region_write(@, a.offset, a.size, new)]
      PROVE  \A b \in r.slots : 8 * at + r.shift + b \in n["FB"] <=> r.shift + b \in new
  <2>1. n["FB"] = region_write(m["FB"], at, a.size, new)
    BY <1>2, <1>3, <1>4
  <2>2. \A b \in r.slots : r.shift + b \in Width(a.size)
    BY <1>1, <1>2 DEF Width
  <2>3. \A i \in Width(a.size) : 8 * at + i \in region_write(m["FB"], at, a.size, new) <=> i \in new
    BY <1>1, <1>2, BitsAfterWrite
  <2>4. \A b \in r.slots : 8 * at + r.shift + b = 8 * at + (r.shift + b)
    BY <1>1
  <2> QED BY <2>1, <2>2, <2>3, <2>4
<1>5. \A b \in r.slots : 8 * at + r.shift + b \in m["FB"] <=> r.shift + b \in old
  <2>1. \A b \in r.slots : r.shift + b \in Width(a.size)
    BY <1>1, <1>2 DEF Width
  <2>2. \A b \in r.slots : 8 * at + r.shift + b = 8 * at + (r.shift + b)
    BY <1>1
  <2> QED BY <1>2, <2>1, <2>2 DEF region_read
<1>6. at \in Maskable(f) <=> r.shift = 16
  BY <1>2, RowsAndSpecial DEF Sets
<1>7. at \notin WriteOneToClear(f)
  BY RowsAndSpecial
<1>8. ASSUME NEW data, n = BoardWrite(f, m, a, data)
      PROVE  \A b \in r.slots : 8 * at + r.shift + b \in n["FB"] <=>
                IF r.shift = 16 THEN r.shift + b \in (old \ masked(data)) \cup (data \cap masked(data))
                                ELSE r.shift + b \in data
  <2>1. CASE r.shift = 16
    <3>1. n = [m EXCEPT ![a.region] = region_write(@, a.offset, a.size,
                                  (old \ masked(data)) \cup (data \cap masked(data)))]
      BY <1>2, <1>6, <1>7, <1>8, <2>1 DEF BoardWrite
    <3> HIDE DEF n, old, masked
    <3> QED BY <1>4, <2>1, <3>1
  <2>2. CASE r.shift # 16
    <3>1. n = [m EXCEPT ![a.region] = region_write(@, a.offset, a.size, data)]
      BY <1>2, <1>6, <1>7, <1>8, <2>2 DEF BoardWrite
    <3> HIDE DEF n, old, masked
    <3> QED BY <1>4, <2>2, <3>1
  <2> QED BY <2>1, <2>2
<1>9. ASSUME NEW b \in r.slots
      PROVE  8 * at + r.shift + b \in n["FB"] <=>
               IF b \in of THEN b \in set ELSE 8 * at + r.shift + b \in m["FB"]
  <2>1. CASE r.shift = 0 /\ a.op = "write"
    <3>1. n = BoardWrite(f, m, a, a.data)
      BY <2>1 DEF Perform
    <3>2. b \in of /\ (b \in a.data <=> b \in set)
      BY <2>1 DEF Sets
    <3>3. r.shift + b = b
      BY <1>1, <2>1
    <3> HIDE DEF n, old, masked
    <3> QED BY <1>8, <2>1, <3>1, <3>2, <3>3
  <2>2. CASE r.shift = 0 /\ a.op = "modify"
    <3>1. n = BoardWrite(f, m, a, modified(region_read(m[a.region], a.offset, a.size), a.data, a.mask))
      BY <2>2 DEF Perform
    <3>2. n = BoardWrite(f, m, a, modified(old, a.data, a.mask))
      BY <1>2, <3>1
    <3>3. /\ b \in a.mask <=> b \in of
          /\ b \in of => (b \in a.data <=> b \in set)
      BY <2>2 DEF Sets
    <3>4. r.shift + b = b
      BY <1>1, <2>2
    <3>5. b \in modified(old, a.data, a.mask) <=> IF b \in of THEN b \in set ELSE b \in old
      BY <3>3 DEF modified
    <3> HIDE DEF n, old, masked
    <3> QED BY <1>5, <1>8, <2>2, <3>2, <3>4, <3>5
  <2>3. CASE r.shift = 16 /\ a.op = "write"
    <3>1. n = BoardWrite(f, m, a, a.data)
      BY <2>3 DEF Perform
    <3>2. /\ b \in a.data <=> b \in of
          /\ b \in of => (b + 16 \in a.data <=> b \in set)
      BY <2>3 DEF Sets
    <3>3. b \in Width(16) /\ b \in Nat /\ r.shift + b = b + 16
      BY <1>1, <2>3
    <3>4. b + 16 \in masked(a.data) <=> b \in a.data
      <4>1. b + 16 \in masked(a.data) <=> \E i \in a.data \cap Width(16) : b + 16 = i + 16
        BY DEF HighHalf
      <4>2. \A i \in a.data \cap Width(16) : b + 16 = i + 16 => i = b
        BY <3>3 DEF Width
      <4> QED BY <3>3, <4>1, <4>2
    <3> HIDE DEF n, old, masked
    <3>5. b + 16 \in (old \ masked(a.data)) \cup (a.data \cap masked(a.data))
            <=> IF b \in of THEN b \in set ELSE b + 16 \in old
      BY <3>2, <3>4
    <3> QED BY <1>5, <1>8, <2>3, <3>1, <3>3, <3>5
  <2> QED BY <2>1, <2>2, <2>3 DEF Sets
<1> HIDE DEF n
<1>10. \A b : b \in HeldIn(f, n, r) <=> b \in (HeldIn(f, m, r) \ of) \cup (set \cap of \cap r.of)
  BY <1>1, <1>2, <1>9 DEF HeldIn
<1> QED BY <1>10 DEF n
-----------------------------------------------------------------------------
(* The functions that ask.                                                 *)

(* The function that asks for a field reads its row.                       *)
Shows(f, r) ==
  LET view == ViewOf(f, r.field)
  IN  /\ view.plan.accesses[view.n] = Read(At(f, r), 8 * r.wide)
      /\ view.shift = r.shift /\ view.of = r.of

(* What it answers is then what the field holds.                           *)
LEMMA Shown ==
  ASSUME NEW f, Descriptor(f), NEW r \in Layout(f), Shows(f, r), NEW m
  PROVE  Answer(m, ViewOf(f, r.field)) = HeldIn(f, m, r)
<1> DEFINE view == ViewOf(f, r.field)
           at == At(f, r)
           wide == 8 * r.wide
           got == region_read(m["FB"], at, wide)
<1>1. /\ view.plan.accesses[view.n] = Read(at, wide)
      /\ view.shift = r.shift /\ view.of = r.of
  BY DEF Shows
<1>2. /\ at \in Nat /\ r.wide \in {1, 4} /\ r.shift \in {0, 16} /\ r.slots \subseteq r.of
      /\ \A b \in r.slots : b \in Nat /\ r.shift + b < 8 * r.wide
      /\ \A b \in r.of : b \in Nat /\ r.shift + b < 8 * r.wide => b \in r.slots
  BY RowFacts DEF Shaped
<1> HIDE DEF view, at, wide
<1>3. Answer(m, view) = {b - r.shift : b \in {b \in got : b >= r.shift}} \cap r.of
  BY <1>1 DEF Answer, Read, Access
<1>4. \A b : b \in got <=> b \in Width(wide) /\ 8 * at + b \in m["FB"]
  BY DEF region_read
<1>5. ASSUME NEW x
      PROVE  x \in Answer(m, view) <=> x \in r.slots /\ 8 * at + r.shift + x \in m["FB"]
  <2> HIDE DEF got
  <2>1. ASSUME x \in Answer(m, view)
        PROVE  x \in r.slots /\ 8 * at + r.shift + x \in m["FB"]
    <3>1. PICK b \in got : b >= r.shift /\ x = b - r.shift
      BY <1>3, <2>1
    <3>2. b \in 0 .. wide - 1 /\ 8 * at + b \in m["FB"]
      BY <1>4 DEF Width
    <3>3. x \in Nat /\ r.shift + x = b /\ r.shift + x < 8 * r.wide
      BY <1>2, <3>1, <3>2 DEF wide
    <3>4. x \in r.slots
      BY <1>2, <1>3, <2>1, <3>3
    <3>5. 8 * at + r.shift + x = 8 * at + b
      BY <1>2, <3>2, <3>3
    <3> QED BY <3>2, <3>4, <3>5
  <2>2. ASSUME x \in r.slots, 8 * at + r.shift + x \in m["FB"]
        PROVE  x \in Answer(m, view)
    <3> DEFINE b == r.shift + x
    <3>1. x \in Nat /\ b < 8 * r.wide /\ x \in r.of
      BY <1>2, <2>2
    <3>2. b \in 0 .. wide - 1 /\ b >= r.shift /\ x = b - r.shift
      BY <1>2, <3>1 DEF wide
    <3>3. 8 * at + b = 8 * at + r.shift + x
      BY <1>2, <3>1
    <3> HIDE DEF b
    <3>4. b \in got
      BY <1>4, <2>2, <3>2, <3>3 DEF Width
    <3> QED BY <1>3, <3>1, <3>2, <3>4
  <2> QED BY <2>1, <2>2
<1>6. \A x : x \in Answer(m, view) <=> x \in HeldIn(f, m, r)
  BY <1>5 DEF HeldIn, at
<1>7. Answer(m, view) \subseteq HeldIn(f, m, r) /\ HeldIn(f, m, r) \subseteq Answer(m, view)
  BY <1>6
<1> QED BY <1>7 DEF view

(* A function that reads one register, and hands it back as it is, or its  *)
(* high half.                                                              *)
LEMMA PlainShows ==
  ASSUME NEW f, NEW F, NEW o, NEW n, NEW start, start = Base(f, o) + n
  PROVE  /\ ViewOf(f, F) = Plain(Request(<<Read(start, 8)>>)) => Shows(f, ByteRow(F, o, n))
         /\ ViewOf(f, F) = Plain(Request(<<Read(start, 32)>>)) => Shows(f, WordRow(F, o, n))
         /\ ViewOf(f, F) = Plain(Shifted(Request(<<Read(start, 32)>>), 16))
              => Shows(f, HalfRow(F, o, n))
<1>1. \A a : /\ Plain(Request(<<a>>)).plan.accesses[Plain(Request(<<a>>)).n] = a
             /\ Plain(Request(<<a>>)).shift = 0
             /\ Plain(Request(<<a>>)).of = Width(32)
  BY DEF Plain, View, Request
<1>2. \A a : LET v == Plain(Shifted(Request(<<a>>), 16))
             IN  v.plan.accesses[v.n] = a /\ v.shift = 16 /\ v.of = Width(32)
  BY DEF Plain, View, Request, Shifted
<1>3. ASSUME ViewOf(f, F) = Plain(Request(<<Read(start, 8)>>)) PROVE Shows(f, ByteRow(F, o, n))
  <2> DEFINE r == ByteRow(F, o, n)
  <2>1. /\ r.field = F /\ r.wide = 1 /\ r.shift = 0 /\ r.of = Width(32) /\ At(f, r) = start
        /\ 8 * r.wide = 8
    BY RowParts DEF At
  <2> HIDE DEF r
  <2> QED BY <1>1, <1>3, <2>1 DEF Shows, r
<1>4. ASSUME ViewOf(f, F) = Plain(Request(<<Read(start, 32)>>)) PROVE Shows(f, WordRow(F, o, n))
  <2> DEFINE r == WordRow(F, o, n)
  <2>1. /\ r.field = F /\ r.wide = 4 /\ r.shift = 0 /\ r.of = Width(32) /\ At(f, r) = start
        /\ 8 * r.wide = 32
    BY RowParts DEF At
  <2> HIDE DEF r
  <2> QED BY <1>1, <1>4, <2>1 DEF Shows, r
<1>5. ASSUME ViewOf(f, F) = Plain(Shifted(Request(<<Read(start, 32)>>), 16))
      PROVE  Shows(f, HalfRow(F, o, n))
  <2> DEFINE r == HalfRow(F, o, n)
  <2>1. /\ r.field = F /\ r.wide = 4 /\ r.shift = 16 /\ r.of = Width(32) /\ At(f, r) = start
        /\ 8 * r.wide = 32
    BY RowParts DEF At
  <2> HIDE DEF r
  <2> QED BY <1>2, <1>5, <2>1 DEF Shows, r
<1> QED BY <1>3, <1>4, <1>5

(* The fields of the ADC block.                                            *)
LEMMA AdcBlockViews ==
  ASSUME NEW f, Descriptor(f), f.type = FUNC_BLOCK.ADC
  PROVE  \A r \in AdcBlockRows : r.field # <<"clk_div">> => Shows(f, r)
<1>1. \A F : F[1] \notin {"dma_setup", "buffer_ctrl", "buffer_size"} => ViewOf(f, F) = AdcView(f, F)
  BY DEF ViewOf, FUNC_BLOCK
<1>2. \A n : AdcReg(f, n) = Base(f, <<"block">>) + n
  BY DEF AdcReg, Base
<1>3. Shows(f, ByteRow(<<"clock_src">>, <<"block">>, 1))
  <2>1. ViewOf(f, <<"clock_src">>) = Plain(Request(<<Read(AdcReg(f, 1), 8)>>))
    BY <1>1, BlockPlaces DEF AdcView, Adc_Get_Clock_Src
  <2> QED BY <1>2, <2>1, PlainShows
<1>4. Shows(f, ByteRow(<<"start_trigger">>, <<"block">>, 2))
  <2>1. ViewOf(f, <<"start_trigger">>) = Plain(Request(<<Read(AdcReg(f, 2), 8)>>))
    BY <1>1, BlockPlaces DEF AdcView, Adc_Get_Start_Trigger
  <2> QED BY <1>2, <2>1, PlainShows
<1>5. Shows(f, ByteRow(<<"stop_trigger">>, <<"block">>, 3))
  <2>1. ViewOf(f, <<"stop_trigger">>) = Plain(Request(<<Read(AdcReg(f, 3), 8)>>))
    BY <1>1, BlockPlaces DEF AdcView, Adc_Get_Stop_Trigger
  <2> QED BY <1>2, <2>1, PlainShows
<1>6. Shows(f, WordRow(<<"pre">>, <<"block">>, 12))
  <2>1. ViewOf(f, <<"pre">>) = Plain(Request(<<Read(AdcReg(f, 12), 32)>>))
    BY <1>1, BlockPlaces DEF AdcView, Adc_Get_Pre_Trigger_Samples
  <2> QED BY <1>2, <2>1, PlainShows
<1>7. Shows(f, WordRow(<<"post">>, <<"block">>, 16))
  <2>1. ViewOf(f, <<"post">>) = Plain(Request(<<Read(AdcReg(f, 16), 32)>>))
    BY <1>1, BlockPlaces DEF AdcView, Adc_Get_Post_Stop_Samples
  <2> QED BY <1>2, <2>1, PlainShows
<1>8. Shows(f, HalfRow(<<"int_config">>, <<"block">>, 24))
  <2>1. ADC.INT_ENABLE = 24
    BY DEF ADC
  <2>2. ViewOf(f, <<"int_config">>) = Plain(Shifted(Request(<<Read(AdcReg(f, 24), 32)>>), 16))
    BY <1>1, <2>1 DEF AdcView, Adc_Interrupt_Get_Config
  <2> QED BY <1>2, <2>2, PlainShows
<1>9. ASSUME NEW bus \in Buses
      PROVE  Shows(f, ByteRow(<<"bus", bus>>, <<"block">>, 34 + (bus - 2)))
  <2>1. ViewOf(f, <<"bus", bus>>) = Plain(Adc_Get_Clock_Source_Global(f, bus))
    BY <1>1 DEF AdcView
  <2>2. Adc_Get_Clock_Source_Global(f, bus) = Request(<<Read(AdcReg(f, 34 + (bus - 2)), 8)>>)
    BY BlockPlaces DEF Adc_Get_Clock_Source_Global, BusRegister
  <2> QED BY <1>2, <2>1, <2>2, PlainShows
<1>10. WordRow(<<"clk_div">>, <<"block">>, 4).field = <<"clk_div">>
  BY RowParts
<1> QED BY <1>3, <1>4, <1>5, <1>6, <1>7, <1>8, <1>9, <1>10 DEF AdcBlockRows, BusRows

(* The fields of the DAC block.                                            *)
LEMMA DacBlockViews ==
  ASSUME NEW f, Descriptor(f), f.type = FUNC_BLOCK.DAC
  PROVE  \A r \in DacBlockRows : Shows(f, r)
<1>1. \A F : F[1] \notin {"dma_setup", "buffer_ctrl", "buffer_size"} => ViewOf(f, F) = DacView(f, F)
  BY DEF ViewOf, FUNC_BLOCK
<1>2. \A n : DacReg(f, n) = Base(f, <<"block">>) + n
  BY DEF DacReg, Base
<1>3. Shows(f, ByteRow(<<"clock_src">>, <<"block">>, 1))
  <2>1. ViewOf(f, <<"clock_src">>) = Plain(Request(<<Read(DacReg(f, 1), 8)>>))
    BY <1>1, BlockPlaces DEF DacView, Dac_Get_Clock_Src
  <2> QED BY <1>2, <2>1, PlainShows
<1>4. Shows(f, ByteRow(<<"start_trigger">>, <<"block">>, 2))
  <2>1. ViewOf(f, <<"start_trigger">>) = Plain(Request(<<Read(DacReg(f, 2), 8)>>))
    BY <1>1, BlockPlaces DEF DacView, Dac_Get_Start_Trigger
  <2> QED BY <1>2, <2>1, PlainShows
<1>5. Shows(f, ByteRow(<<"stop_trigger">>, <<"block">>, 3))
  <2>1. ViewOf(f, <<"stop_trigger">>) = Plain(Request(<<Read(DacReg(f, 3), 8)>>))
    BY <1>1, BlockPlaces DEF DacView, Dac_Get_Stop_Trigger
  <2> QED BY <1>2, <2>1, PlainShows
<1>6. Shows(f, WordRow(<<"clk_div">>, <<"block">>, 4))
  <2>1. ViewOf(f, <<"clk_div">>) = Plain(Request(<<Read(DacReg(f, 4), 32)>>))
    BY <1>1, BlockPlaces DEF DacView, Dac_Get_Clock_Div
  <2> QED BY <1>2, <2>1, PlainShows
<1>7. Shows(f, WordRow(<<"post">>, <<"block">>, 16))
  <2>1. ViewOf(f, <<"post">>) = Plain(Request(<<Read(DacReg(f, 16), 32)>>))
    BY <1>1, BlockPlaces DEF DacView, Dac_Get_Post_Stop_Conversion_Count
  <2> QED BY <1>2, <2>1, PlainShows
<1>8. Shows(f, HalfRow(<<"int_config">>, <<"block">>, 24))
  <2>1. DAC.INT_ENABLE = 24
    BY DEF DAC
  <2>2. ViewOf(f, <<"int_config">>) = Plain(Shifted(Request(<<Read(DacReg(f, 24), 32)>>), 16))
    BY <1>1, <2>1 DEF DacView, Dac_Interrupt_Get_Config
  <2> QED BY <1>2, <2>2, PlainShows
<1> QED BY <1>3, <1>4, <1>5, <1>6, <1>7, <1>8 DEF DacBlockRows

(* The fields of a channel of the DAC.                                     *)
LEMMA DacChannelViews ==
  ASSUME NEW f, Descriptor(f), f.type = FUNC_BLOCK.DAC, NEW c \in 0 .. 3
  PROVE  \A r \in DacChannelRows(c) : r.field # <<"fe_config", c>> => Shows(f, r)
<1>1. \A F : F[1] \notin {"dma_setup", "buffer_ctrl", "buffer_size"} => ViewOf(f, F) = DacView(f, F)
  BY DEF ViewOf, FUNC_BLOCK
<1>2. \A n \in Nat : DacChannel(f, c, n) = Base(f, <<"channel", c>>) + n
  BY OnDacChannel
<1>3. Shows(f, ByteRow(<<"marker_config", c>>, <<"channel", c>>, 11))
  <2>1. ViewOf(f, <<"marker_config", c>>) = Plain(Request(<<Read(DacChannel(f, c, 11), 8)>>))
    BY <1>1, ChannelPlaces DEF DacView, Dac_Channel_Get_Marker_Config
  <2> QED BY <1>2, <2>1, PlainShows
<1>4. Shows(f, WordRow(<<"last", c>>, <<"channel", c>>, 16))
  <2>1. ViewOf(f, <<"last", c>>) = Plain(Request(<<Read(DacChannel(f, c, 16), 32)>>))
    BY <1>1, ChannelPlaces DEF DacView, Dac_Get_Last_Conversion
  <2> QED BY <1>2, <2>1, PlainShows
<1>5. HalfRow(<<"fe_config", c>>, <<"channel", c>>, 0).field = <<"fe_config", c>>
  BY RowParts
<1> QED BY <1>3, <1>4, <1>5 DEF DacChannelRows

(* The fields of a channel of the ADC.                                     *)
LEMMA AdcChannelViews ==
  ASSUME NEW f, Descriptor(f), f.type = FUNC_BLOCK.ADC, NEW c \in 0 .. f.num_dma_channels - 1
  PROVE  \A r \in AdcChannelRows(c) : Shows(f, r)
<1>1. \A F : F[1] \notin {"dma_setup", "buffer_ctrl", "buffer_size"} => ViewOf(f, F) = AdcView(f, F)
  BY DEF ViewOf, FUNC_BLOCK
<1>2. \A n \in Nat : AdcChannel(f, c, n) = Base(f, <<"channel", c>>) + n
  BY OnAdcChannel
<1>3. \A s : OnChannel(f, c, s) = Request(s)
  BY DEF OnChannel, Checked, AdcChannelOk
<1>4. Shows(f, HalfRow(<<"fe_config", c>>, <<"channel", c>>, 0))
  <2>1. ViewOf(f, <<"fe_config", c>>)
          = Plain(Shifted(Request(<<Read(AdcChannel(f, c, 0), 32)>>), 16))
    BY <1>1, <1>3, ChannelPlaces DEF AdcView, Adc_Channel_Get_Front_End_Config, FrontEnd
  <2> QED BY <1>2, <2>1, PlainShows
<1>5. Shows(f, ByteRow(<<"chan_int", c>>, <<"channel", c>>, 11))
  <2>1. ADC_CHAN.INTR_ENABLE = 11
    BY DEF ADC_CHAN
  <2>2. ViewOf(f, <<"chan_int", c>>) = Plain(Request(<<Read(AdcChannel(f, c, 11), 8)>>))
    BY <1>1, <1>3, <2>1 DEF AdcView, Adc_Channel_Interrupt_Get_Config
  <2> QED BY <1>2, <2>2, PlainShows
<1>6. Adc_Channel_Get_Thresholds(f, c)
        = Request(<<Read(AdcChannel(f, c, 12), 32), Read(AdcChannel(f, c, 16), 32)>>)
  BY <1>3, ChannelPlaces DEF Adc_Channel_Get_Thresholds
<1>7. Shows(f, WordRow(<<"low", c>>, <<"channel", c>>, 12))
  <2> DEFINE r == WordRow(<<"low", c>>, <<"channel", c>>, 12)
             view == ViewOf(f, <<"low", c>>)
  <2>1. /\ r.field = <<"low", c>> /\ r.wide = 4 /\ r.shift = 0 /\ r.of = Width(32)
        /\ At(f, r) = AdcChannel(f, c, 12) /\ 8 * r.wide = 32
    BY <1>2, RowParts DEF At
  <2>2. view = Plain(Adc_Channel_Get_Thresholds(f, c))
    BY <1>1 DEF AdcView
  <2>3. /\ view.plan.accesses[view.n] = Read(AdcChannel(f, c, 12), 32)
        /\ view.shift = 0 /\ view.of = Width(32)
    BY <1>6, <2>2 DEF Plain, View, Request
  <2> HIDE DEF r, view
  <2> QED BY <2>1, <2>3 DEF Shows, r, view
<1>8. Shows(f, WordRow(<<"high", c>>, <<"channel", c>>, 16))
  <2> DEFINE r == WordRow(<<"high", c>>, <<"channel", c>>, 16)
             view == ViewOf(f, <<"high", c>>)
  <2>1. /\ r.field = <<"high", c>> /\ r.wide = 4 /\ r.shift = 0 /\ r.of = Width(32)
        /\ At(f, r) = AdcChannel(f, c, 16) /\ 8 * r.wide = 32
    BY <1>2, RowParts DEF At
  <2>2. view = View(Adc_Channel_Get_Thresholds(f, c), 2, 0, Width(32))
    BY <1>1 DEF AdcView
  <2>3. /\ view.plan.accesses[view.n] = Read(AdcChannel(f, c, 16), 32)
        /\ view.shift = 0 /\ view.of = Width(32)
    BY <1>6, <2>2 DEF View, Request
  <2> HIDE DEF r, view
  <2> QED BY <2>1, <2>3 DEF Shows, r, view
<1> QED BY <1>4, <1>5, <1>7, <1>8 DEF AdcChannelRows

(* Where the registers of the pins lie.                                    *)
LEMMA AdioPinPlaces ==
  /\ ADIO_CHAN.OUTPUT_VAL = 4 /\ ADIO_CHAN.DIRECTION = 8 /\ ADIO_CHAN.ADV_INT_MODE = 12
  /\ ADIO_CHAN.ADV_INT_MASK = 16 /\ ADIO_CHAN.ADV_INT_COMP = 20 /\ ADIO_CHAN.ADV_INT_CAPT = 24
  /\ ADIO_CHAN.P_BUS_ENABLE = 28 /\ ADIO_CHAN.P_BUS_READY_ENABLE = 29
  BY DEF ADIO_CHAN

(* The fields of the ADIO block and of its pins.                           *)
LEMMA AdioViews ==
  ASSUME NEW f, Descriptor(f), f.type = FUNC_BLOCK.ADIO
  PROVE  /\ \A r \in AdioBlockRows : r.field # <<"clk_div">> => Shows(f, r)
         /\ \A r \in AdioPinRows : Shows(f, r)
<1>1. \A F : F[1] \notin {"dma_setup", "buffer_ctrl", "buffer_size"} => ViewOf(f, F) = AdioView(f, F)
  BY DEF ViewOf, FUNC_BLOCK
<1>2. \A n \in Nat : AdioPins(f, n) = Base(f, <<"pins">>) + n
  <2>1. f.control_offset \in Nat /\ ADIO_CHAN.START = 40
    BY Sizes DEF ADIO_CHAN
  <2> QED BY <2>1 DEF AdioPins, Base
<1>3. Shows(f, HalfRow(<<"int_config">>, <<"block">>, 24))
  <2>1. ADIO.INT_ENABLE = 24
    BY DEF ADIO
  <2>2. ViewOf(f, <<"int_config">>) = Plain(Shifted(Request(<<Read(AdioReg(f, 24), 32)>>), 16))
    BY <1>1, <2>1 DEF AdioView, Adio_Interrupt_Get_Config
  <2>3. AdioReg(f, 24) = Base(f, <<"block">>) + 24
    BY DEF AdioReg, Base
  <2> QED BY <2>2, <2>3, PlainShows
<1>4. ASSUME NEW bus \in Buses
      PROVE  Shows(f, ByteRow(<<"bus", bus>>, <<"block">>, 34 + (bus - 2)))
  <2>1. ViewOf(f, <<"bus", bus>>) = Plain(Adio_Get_Clock_Source_Global(f, bus))
    BY <1>1 DEF AdioView
  <2>2. Adio_Get_Clock_Source_Global(f, bus) = Request(<<Read(AdioReg(f, 34 + (bus - 2)), 8)>>)
    BY BlockPlaces DEF Adio_Get_Clock_Source_Global, BusRegister
  <2>3. AdioReg(f, 34 + (bus - 2)) = Base(f, <<"block">>) + (34 + (bus - 2))
    BY DEF AdioReg, Base
  <2> QED BY <2>1, <2>2, <2>3, PlainShows
<1>5. Shows(f, WordRow(<<"output">>, <<"pins">>, 4))
  <2>1. ViewOf(f, <<"output">>) = Plain(Request(<<Read(AdioPins(f, 4), 32)>>))
    BY <1>1, AdioPinPlaces DEF AdioView, Adio_Get_Output_Value
  <2> QED BY <1>2, <2>1, PlainShows
<1>6. Shows(f, WordRow(<<"direction">>, <<"pins">>, 8))
  <2>1. ViewOf(f, <<"direction">>) = Plain(Request(<<Read(AdioPins(f, 8), 32)>>))
    BY <1>1, AdioPinPlaces DEF AdioView, Adio_Get_Direction
  <2> QED BY <1>2, <2>1, PlainShows
<1>7. Shows(f, ByteRow(<<"adv_int_mode">>, <<"pins">>, 12))
  <2>1. ViewOf(f, <<"adv_int_mode">>) = Plain(Request(<<Read(AdioPins(f, 12), 8)>>))
    BY <1>1, AdioPinPlaces DEF AdioView, Adio_Get_Adv_Int_Mode
  <2> QED BY <1>2, <2>1, PlainShows
<1>8. Shows(f, WordRow(<<"adv_int_mask">>, <<"pins">>, 16))
  <2>1. ViewOf(f, <<"adv_int_mask">>) = Plain(Request(<<Read(AdioPins(f, 16), 32)>>))
    BY <1>1, AdioPinPlaces DEF AdioView, Adio_Get_Adv_Int_Mask
  <2> QED BY <1>2, <2>1, PlainShows
<1>9. Shows(f, WordRow(<<"adv_int_comp">>, <<"pins">>, 20))
  <2>1. ViewOf(f, <<"adv_int_comp">>) = Plain(Request(<<Read(AdioPins(f, 20), 32)>>))
    BY <1>1, AdioPinPlaces DEF AdioView, Adio_Get_Adv_Int_Comp
  <2> QED BY <1>2, <2>1, PlainShows
<1>10. Shows(f, WordRow(<<"adv_int_capt">>, <<"pins">>, 24))
  <2>1. ViewOf(f, <<"adv_int_capt">>) = Plain(Request(<<Read(AdioPins(f, 24), 32)>>))
    BY <1>1, AdioPinPlaces DEF AdioView, Adio_Get_Adv_Int_Capt
  <2> QED BY <1>2, <2>1, PlainShows
<1>11. Shows(f, ByteRow(<<"p_bus">>, <<"pins">>, 28))
  <2>1. ViewOf(f, <<"p_bus">>) = Plain(Request(<<Read(AdioPins(f, 28), 8)>>))
    BY <1>1, AdioPinPlaces DEF AdioView, Adio_Get_P_Bus_Enable
  <2> QED BY <1>2, <2>1, PlainShows
<1>12. Shows(f, ByteRow(<<"p_bus_ready">>, <<"pins">>, 29))
  <2>1. ViewOf(f, <<"p_bus_ready">>) = Plain(Request(<<Read(AdioPins(f, 29), 8)>>))
    BY <1>1, AdioPinPlaces DEF AdioView, Adio_Get_P_Bus_Ready_Enable
  <2> QED BY <1>2, <2>1, PlainShows
<1>13. \A r \in AdioPinRows : Shows(f, r)
  BY <1>5, <1>6, <1>7, <1>8, <1>9, <1>10, <1>11, <1>12 DEF AdioPinRows
<1>14. \A r \in AdioBlockRows : r.field # <<"clk_div">> => Shows(f, r)
  <2>1. WordRow(<<"clk_div">>, <<"block">>, 4).field = <<"clk_div">>
    BY RowParts
  <2> QED BY <1>3, <1>4, <2>1 DEF AdioBlockRows, BusRows
<1> QED BY <1>13, <1>14

(* The fields of the external clocking.                                    *)
LEMMA ExtViews ==
  ASSUME NEW f, Descriptor(f), f.type = FUNC_BLOCK.EXT_CLOCKING
  PROVE  \A r \in ExtRows : Shows(f, r)
<1>1. \A F : F[1] \notin {"dma_setup", "buffer_ctrl", "buffer_size"} => ViewOf(f, F) = ExtView(f, F)
  BY DEF ViewOf, FUNC_BLOCK
<1>2. \A n : ExtReg(f, n) = Base(f, <<"block">>) + n
  BY DEF ExtReg, Base
<1>3. /\ EXT_CLOCKING.DIR = 2 /\ EXT_CLOCKING.EDGE = 3 /\ EXT_CLOCKING.PW2 = 4
      /\ EXT_CLOCKING.SETUP_GBL2 = 10
  BY DEF EXT_CLOCKING
<1>4. Shows(f, ByteRow(<<"dir">>, <<"block">>, 2))
  <2>1. ViewOf(f, <<"dir">>) = Plain(Request(<<Read(ExtReg(f, 2), 8)>>))
    BY <1>1, <1>3 DEF ExtView, Ext_Clocking_Get_Dir
  <2> QED BY <1>2, <2>1, PlainShows
<1>5. Shows(f, ByteRow(<<"edge">>, <<"block">>, 3))
  <2>1. ViewOf(f, <<"edge">>) = Plain(Request(<<Read(ExtReg(f, 3), 8)>>))
    BY <1>1, <1>3 DEF ExtView, Ext_Clocking_Get_Edge
  <2> QED BY <1>2, <2>1, PlainShows
<1>6. ASSUME NEW bus \in Buses, NEW first
      PROVE  OnBus(f, bus, Read(first, 8)) = Request(<<Read(ExtReg(f, first + (bus - 2)), 8)>>)
  BY DEF OnBus, Checked, Read, Access, BusRegister
<1>7. ASSUME NEW bus \in Buses
      PROVE  Shows(f, ByteRow(<<"width", bus>>, <<"block">>, 4 + (bus - 2)))
  <2>1. ViewOf(f, <<"width", bus>>) = Plain(Ext_Clocking_Get_Pulse_Width(f, bus))
    BY <1>1 DEF ExtView
  <2>2. Ext_Clocking_Get_Pulse_Width(f, bus) = Request(<<Read(ExtReg(f, 4 + (bus - 2)), 8)>>)
    BY <1>3, <1>6 DEF Ext_Clocking_Get_Pulse_Width
  <2> QED BY <1>2, <2>1, <2>2, PlainShows
<1>8. ASSUME NEW bus \in Buses
      PROVE  Shows(f, ByteRow(<<"method", bus>>, <<"block">>, 10 + (bus - 2)))
  <2>1. ViewOf(f, <<"method", bus>>) = Plain(Ext_Clocking_Get_Method(f, bus))
    BY <1>1 DEF ExtView
  <2>2. Ext_Clocking_Get_Method(f, bus) = Request(<<Read(ExtReg(f, 10 + (bus - 2)), 8)>>)
    BY <1>3, <1>6 DEF Ext_Clocking_Get_Method
  <2> QED BY <1>2, <2>1, <2>2, PlainShows
<1> QED BY <1>4, <1>5, <1>7, <1>8 DEF ExtRows, BusRows

(* The fields of the DMA.                                                  *)
LEMMA DmaViews ==
  ASSUME NEW f, Descriptor(f), NEW c \in DmaChannels(f)
  PROVE  /\ \A r \in DmaRows(c) : Shows(f, r)
         /\ \A b \in DmaBuffersOf(f) : \A r \in BufferRows(c, b) : Shows(f, r)
<1>1. \A s : OnChannel(f, c, s) = Request(s)
  BY DEF OnChannel, Checked, AdcChannelOk, DmaChannels
<1>2. DMA.SETUP = 1 /\ DMA_BUFFER.CTRL = 3 /\ DMA_BUFFER.SIZE = 4
  BY DEF DMA, DMA_BUFFER
<1>3. ASSUME NEW r \in DmaRows(c) PROVE Shows(f, r)
  <2> DEFINE view == ViewOf(f, <<"dma_setup", c>>)
  <2>1. /\ r.field = <<"dma_setup", c>> /\ r.wide = 1 /\ r.shift = 0 /\ r.of = {0, 1}
        /\ At(f, r) = DmaReg(f, c, 1) /\ 8 * r.wide = 8
    BY DEF DmaRows, Row, At, Base, DmaReg
  <2>2. view = View(Request(<<Read(DmaReg(f, c, 1), 8)>>), 1, 0, {0, 1})
    BY <1>1, <1>2 DEF ViewOf, Dma_Get_Interrupt_Configuration
  <2>3. /\ view.plan.accesses[view.n] = Read(DmaReg(f, c, 1), 8)
        /\ view.shift = 0 /\ view.of = {0, 1}
    BY <2>2 DEF View, Request
  <2> HIDE DEF view
  <2> QED BY <2>1, <2>3 DEF Shows, view
<1>4. ASSUME NEW b \in DmaBuffersOf(f), NEW r \in BufferRows(c, b) PROVE Shows(f, r)
  <2>1. CASE r = Row(<<"buffer_ctrl", c, b>>, <<"buffer", c, b>>, 3, 1, 0, Width(8), Width(8))
    <3> DEFINE view == ViewOf(f, <<"buffer_ctrl", c, b>>)
    <3>1. /\ r.field = <<"buffer_ctrl", c, b>> /\ r.wide = 1 /\ r.shift = 0 /\ r.of = Width(8)
          /\ At(f, r) = DmaBufferReg(f, c, b, 3) /\ 8 * r.wide = 8
      BY <2>1 DEF Row, At, Base, DmaBufferReg
    <3>2. view = View(Dma_Buffer_Status(f, c, b), 2, 0, Width(8))
      BY DEF ViewOf
    <3>3. BufferOk(f, c, b)
      BY DEF BufferOk, AdcChannelOk, DmaChannels, DmaBuffersOf
    <3>4. Dma_Buffer_Status(f, c, b).accesses[2] = Read(DmaBufferReg(f, c, b, 3), 8)
      BY <1>2, <3>3 DEF Dma_Buffer_Status, Checked, Request
    <3>5. /\ view.plan.accesses[view.n] = Read(DmaBufferReg(f, c, b, 3), 8)
          /\ view.shift = 0 /\ view.of = Width(8)
      BY <3>2, <3>4 DEF View
    <3> HIDE DEF view
    <3> QED BY <3>1, <3>5 DEF Shows, view
  <2>2. CASE r = Row(<<"buffer_size", c, b>>, <<"buffer", c, b>>, 4, 4, 0, Width(24), Width(24))
    <3> DEFINE view == ViewOf(f, <<"buffer_size", c, b>>)
    <3>1. /\ r.field = <<"buffer_size", c, b>> /\ r.wide = 4 /\ r.shift = 0 /\ r.of = Width(24)
          /\ At(f, r) = DmaBufferReg(f, c, b, 4) /\ 8 * r.wide = 32
      BY <2>2 DEF Row, At, Base, DmaBufferReg
    <3>2. view = View(Dma_Buffer_Get_Size(f, c, b), 1, 0, Width(24))
      BY DEF ViewOf
    <3>3. Dma_Buffer_Get_Size(f, c, b).accesses[1] = Read(DmaBufferReg(f, c, b, 4), 32)
      BY <1>2 DEF Dma_Buffer_Get_Size, Request
    <3>4. /\ view.plan.accesses[view.n] = Read(DmaBufferReg(f, c, b, 4), 32)
          /\ view.shift = 0 /\ view.of = Width(24)
      BY <3>2, <3>3 DEF View
    <3> HIDE DEF view
    <3> QED BY <3>1, <3>4 DEF Shows, view
  <2> QED BY <2>1, <2>2 DEF BufferRows
<1> QED BY <1>3, <1>4

(* For every field of a block that is answered, the function that asks for *)
(* it answers what its row holds, whatever the registers are.              *)
LEMMA EveryView ==
  ASSUME NEW f, Descriptor(f), NEW r \in Layout(f), r.field[1] \in Answered[f.type], NEW m
  PROVE  /\ Answer(m, ViewOf(f, r.field)) = HeldIn(f, m, r)
         /\ ViewOf(f, r.field).of = r.of
<1>1. Shows(f, r)
  <2>1. ASSUME r \in BlockRows(f) PROVE Shows(f, r)
    <3>1. CASE f.type = FUNC_BLOCK.ADC
      <4>1. r.field # <<"clk_div">>
        BY <3>1 DEF Answered, FUNC_BLOCK
      <4> QED BY <2>1, <3>1, <4>1, AdcBlockViews DEF BlockRows, FUNC_BLOCK
    <3>2. CASE f.type = FUNC_BLOCK.DAC
      BY <2>1, <3>2, DacBlockViews DEF BlockRows, FUNC_BLOCK
    <3>3. CASE f.type = FUNC_BLOCK.ADIO
      <4>1. r.field # <<"clk_div">>
        BY <3>3 DEF Answered, FUNC_BLOCK
      <4> QED BY <2>1, <3>3, <4>1, AdioViews DEF BlockRows, FUNC_BLOCK
    <3>4. CASE f.type = FUNC_BLOCK.EXT_CLOCKING
      BY <2>1, <3>4, ExtViews DEF BlockRows, FUNC_BLOCK
    <3> QED BY <3>1, <3>2, <3>3, <3>4 DEF Descriptor, Blocks4
  <2>2. f.type = FUNC_BLOCK.ADIO /\ r \in AdioPinRows => Shows(f, r)
    BY AdioViews
  <2>3. ASSUME NEW c \in RowChannels(f), f.type \in Analog, r \in ChannelRows(f, c)
        PROVE  Shows(f, r)
    <3>1. CASE f.type = FUNC_BLOCK.ADC
      BY <2>3, <3>1, AdcChannelViews DEF ChannelRows, FUNC_BLOCK, DmaChannels, RowChannels
    <3>2. CASE f.type = FUNC_BLOCK.DAC
      <4>2. c \in 0 .. 3
        BY <3>2 DEF RowChannels, NUM_DAC_DMA_CHANNELS
      <4>3. r.field # <<"fe_config", c>>
        BY <3>2 DEF Answered, FUNC_BLOCK
      <4> QED BY <2>3, <3>2, <4>2, <4>3, DacChannelViews DEF ChannelRows, FUNC_BLOCK
    <3> QED BY <2>3, <3>1, <3>2 DEF Analog
  <2>4. \A c \in DmaChannels(f) : r \in DmaRows(c) => Shows(f, r)
    BY DmaViews
  <2>5. \A c \in DmaChannels(f), b \in DmaBuffersOf(f) : r \in BufferRows(c, b) => Shows(f, r)
    BY DmaViews
  <2> QED BY <2>1, <2>2, <2>3, <2>4, <2>5, RowHome
<1>2. ViewOf(f, r.field).of = r.of
  BY <1>1 DEF Shows
<1> QED BY <1>1, <1>2, Shown
-----------------------------------------------------------------------------
(* Which accesses of a call touch which fields.                            *)

(* The settings that calls are followed on: those that are answered, and,   *)
(* beside them, the divider of the clock and the front ends.               *)
Known(f) == Answered[f.type] \cup {"clk_div", "fe_config"}

Misses(f, a) == \A r \in Layout(f) : Clear(f, r, a)

(* The last access of a call gives a field the bits that the call is to    *)
(* set, or the field is not one that is followed.                          *)
Lands(f, F, set, of, a) ==
  \/ \E r \in Layout(f) : r.field = F /\ Sets(f, r, a, set, of)
  \/ /\ F[1] \notin Answered[f.type]
     /\ \E r \in Layout(f) : r.field = F /\ Stores(f, r, a, set, of)
  \/ F[1] \notin Known(f) /\ Misses(f, a)

(* The accesses s set the field F by the last one and touch nothing before.*)
Fit(f, F, set, of, s) ==
  /\ s # <<>>
  /\ \A i \in 1 .. Len(s) - 1 : Misses(f, s[i])
  /\ Lands(f, F, set, of, s[Len(s)])
FitPlan(f, F, set, of, plan) == plan.errno = "none" => Fit(f, F, set, of, plan.accesses)
FitCall(f, c) ==
  IF c.asks = "unchecked"
    THEN c.plan.errno = "none" => Len(c.plan.accesses) = 1 /\ c.field[1] \notin Known(f)
    ELSE FitPlan(f, c.field, c.set, c.of, c.plan)

(* An access that sets a field is clear of all the others.                 *)
LEMMA SetsOne ==
  ASSUME NEW f, Descriptor(f), NEW r \in Layout(f), NEW a, NEW set, NEW of,
         Sets(f, r, a, set, of) \/ Stores(f, r, a, set, of), NEW s \in Layout(f), s # r
  PROVE  Clear(f, s, a)
<1>1. r.wide \in {1, 4} /\ s.wide \in {1, 4} /\ At(f, r) \in Nat /\ At(f, s) \in Nat
  BY RowFacts DEF Shaped
<1>2. a.offset = At(f, r) /\ a.size = 8 * r.wide
  BY DEF Sets, Stores
<1>3. Bytes(a.size) = r.wide
  BY <1>1, <1>2 DEF Bytes
<1>4. At(f, r) + r.wide <= At(f, s) \/ At(f, s) + s.wide <= At(f, r)
  BY RowsApart
<1> QED BY <1>2, <1>3, <1>4 DEF Clear

(* Bytes of a part in which no field lies.                                 *)
FreeAt(f, o, n, k) ==
  /\ o \in Owners(f) => n + k <= Room(f, o)
  /\ \A r \in Layout(f) : r.owner = o => n + k <= r.low \/ r.low + r.wide <= n

(* An access to bytes like that touches no field.                          *)
LEMMA FreeMisses ==
  ASSUME NEW f, Descriptor(f), NEW o \in Owners(f), NEW n \in Nat, NEW k \in {1, 2, 4},
         FreeAt(f, o, n, k), NEW a, a.offset = Base(f, o) + n, a.size = 8 * k
  PROVE  Misses(f, a)
<1>1. Bytes(a.size) = k
  BY DEF Bytes
<1>2. Base(f, o) \in Nat /\ Room(f, o) \in Nat /\ n + k <= Room(f, o)
  BY PartPlaced DEF FreeAt
<1>3. ASSUME NEW r \in Layout(f)
      PROVE  a.offset + k <= At(f, r) \/ At(f, r) + r.wide <= a.offset
  <2>1. /\ r.owner \in Owners(f) /\ r.low \in Nat /\ r.low + r.wide <= Room(f, r.owner)
        /\ r.wide \in {1, 4} /\ At(f, r) = Base(f, r.owner) + r.low
    BY RowFacts DEF Shaped, At
  <2>2. Base(f, r.owner) \in Nat /\ Room(f, r.owner) \in Nat
    BY <2>1, PartPlaced
  <2>3. CASE r.owner = o
    <3>1. n + k <= r.low \/ r.low + r.wide <= n
      BY <2>3 DEF FreeAt
    <3> QED BY <1>2, <2>1, <2>3, <3>1
  <2>4. CASE r.owner # o
    <3>1. Apart(f, o, r.owner)
      BY <2>1, <2>4, PartsApart
    <3> QED BY <1>2, <2>1, <2>2, <3>1 DEF Apart
  <2> QED BY <2>3, <2>4
<1> QED BY <1>1, <1>3 DEF Misses, Clear

(* Accesses one at a time.                                                 *)
LEMMA FitOne ==
  ASSUME NEW f, NEW F, NEW set, NEW of
  PROVE  \A a : Lands(f, F, set, of, a) => Fit(f, F, set, of, <<a>>)
<1>1. \A a : /\ <<a>> # <<>> /\ Len(<<a>>) = 1 /\ <<a>>[1] = a /\ <<a>>[Len(<<a>>)] = a
             /\ 1 .. Len(<<a>>) - 1 = {}
  OBVIOUS
<1> QED BY <1>1 DEF Fit

(* The plan of a function that is asked for something else, or refuses.    *)
LEMMA FitPlans ==
  ASSUME NEW f, NEW F, NEW set, NEW of
  PROVE  /\ \A s : Fit(f, F, set, of, s) => FitPlan(f, F, set, of, Request(s))
         /\ \A v, s : (v => Fit(f, F, set, of, s)) => FitPlan(f, F, set, of, Checked(v, s))
         /\ \A c, s : (AdcChannelOk(f, c) => Fit(f, F, set, of, s))
                        => FitPlan(f, F, set, of, OnChannel(f, c, s))
         /\ \A errno : errno # "none" => FitPlan(f, F, set, of, Rejected(errno))
<1>1. \A s : Fit(f, F, set, of, s) => FitPlan(f, F, set, of, Request(s))
  BY DEF FitPlan, Request
<1>2. \A errno : errno # "none" => FitPlan(f, F, set, of, Rejected(errno))
  BY DEF FitPlan, Rejected
<1>3. ASSUME NEW v, NEW s, v => Fit(f, F, set, of, s)
      PROVE  FitPlan(f, F, set, of, Checked(v, s))
  <2>1. CASE v
    BY <1>1, <1>3, <2>1 DEF Checked
  <2>2. CASE ~v
    BY <1>2, <2>2 DEF Checked
  <2> QED BY <2>1, <2>2
<1> QED BY <1>1, <1>2, <1>3 DEF OnChannel

(* A call of which the plan fits.                                          *)
LEMMA FitCalls ==
  ASSUME NEW f
  PROVE  /\ \A o, F, set, of, plan :
              FitPlan(f, F, set, of, plan) => FitCall(f, Call(o, F, set, of, plan))
         /\ \A o, F, set, of, plan, x : FitPlan(f, F, set, of, plan) =>
              /\ FitCall(f, [Call(o, F, set, of, plan) EXCEPT !.range = x])
              /\ FitCall(f, [Call(o, F, set, of, plan) EXCEPT !.rate = x])
              /\ x # "unchecked" => FitCall(f, [Call(o, F, set, of, plan) EXCEPT !.asks = x])
<1>1. ASSUME NEW c, c.asks # "unchecked", FitPlan(f, c.field, c.set, c.of, c.plan)
      PROVE  FitCall(f, c)
  BY <1>1 DEF FitCall
<1>2. ASSUME NEW o, NEW F, NEW set, NEW of, NEW plan, FitPlan(f, F, set, of, plan)
      PROVE  FitCall(f, Call(o, F, set, of, plan))
  <2> DEFINE c == Call(o, F, set, of, plan)
  <2>1. c.asks = "" /\ c.field = F /\ c.set = set /\ c.of = of /\ c.plan = plan
    BY DEF Call
  <2> HIDE DEF c
  <2>2. FitCall(f, c)
    BY <1>1, <1>2, <2>1
  <2> QED BY <2>2 DEF c
<1>3. ASSUME NEW o, NEW F, NEW set, NEW of, NEW plan, FitPlan(f, F, set, of, plan), NEW x
      PROVE  /\ FitCall(f, [Call(o, F, set, of, plan) EXCEPT !.range = x])
             /\ FitCall(f, [Call(o, F, set, of, plan) EXCEPT !.rate = x])
             /\ x # "unchecked" => FitCall(f, [Call(o, F, set, of, plan) EXCEPT !.asks = x])
  <2> DEFINE c == [Call(o, F, set, of, plan) EXCEPT !.range = x]
             d == [Call(o, F, set, of, plan) EXCEPT !.rate = x]
             e == [Call(o, F, set, of, plan) EXCEPT !.asks = x]
  <2>1. c.asks = "" /\ c.field = F /\ c.set = set /\ c.of = of /\ c.plan = plan
    BY DEF Call
  <2>2. d.asks = "" /\ d.field = F /\ d.set = set /\ d.of = of /\ d.plan = plan
    BY DEF Call
  <2>3. e.asks = x /\ e.field = F /\ e.set = set /\ e.of = of /\ e.plan = plan
    BY DEF Call
  <2> HIDE DEF c, d, e
  <2>4. FitCall(f, c) /\ FitCall(f, d) /\ (x # "unchecked" => FitCall(f, e))
    BY <1>1, <1>3, <2>1, <2>2, <2>3
  <2> QED BY <2>4 DEF c, d, e
<1> QED BY <1>2, <1>3

(* The byte, or the word, of a field is written.                           *)
ByteSet(f, F, start) ==
  \A d : /\ Fit(f, F, d, Width(8), <<Write(start, 8, d)>>)
         /\ d \subseteq Width(8) => Fit(f, F, d, Width(32), <<Write(start, 8, d)>>)
WordSet(f, F, start) == \A d : Fit(f, F, d, Width(32), <<Write(start, 32, d)>>)

(* The byte or word of a row of the table is its field's.                  *)
LEMMA SetPlaces ==
  ASSUME NEW f, NEW F, NEW o, NEW n, NEW start, start = Base(f, o) + n
  PROVE  /\ ByteRow(F, o, n) \in Layout(f) => ByteSet(f, F, start)
         /\ WordRow(F, o, n) \in Layout(f) => WordSet(f, F, start)
<1>1. ASSUME ByteRow(F, o, n) \in Layout(f), NEW d
      PROVE  /\ Fit(f, F, d, Width(8), <<Write(start, 8, d)>>)
             /\ d \subseteq Width(8) => Fit(f, F, d, Width(32), <<Write(start, 8, d)>>)
  <2> DEFINE r == ByteRow(F, o, n)
             a == Write(start, 8, d)
  <2>1. /\ r.field = F /\ r.owner = o /\ r.low = n /\ r.wide = 1 /\ r.shift = 0
        /\ r.slots = Width(8) /\ r.of = Width(32)
    BY RowParts
  <2>2. At(f, r) = start
    BY <2>1 DEF At
  <2>3. a.region = "FB" /\ a.offset = start /\ a.size = 8 /\ a.op = "write" /\ a.data = d
    BY DEF Write, Access
  <2> HIDE DEF r, a
  <2>4. Sets(f, r, a, d, Width(8)) /\ (d \subseteq Width(8) => Sets(f, r, a, d, Width(32)))
    BY <2>1, <2>2, <2>3 DEF Sets, Width
  <2>5. /\ Lands(f, F, d, Width(8), a)
        /\ d \subseteq Width(8) => Lands(f, F, d, Width(32), a)
    BY <1>1, <2>1, <2>4 DEF Lands, r
  <2> QED BY <2>5, FitOne DEF a
<1>2. ASSUME WordRow(F, o, n) \in Layout(f), NEW d
      PROVE  Fit(f, F, d, Width(32), <<Write(start, 32, d)>>)
  <2> DEFINE r == WordRow(F, o, n)
             a == Write(start, 32, d)
  <2>1. /\ r.field = F /\ r.owner = o /\ r.low = n /\ r.wide = 4 /\ r.shift = 0
        /\ r.slots = Width(32) /\ r.of = Width(32)
    BY RowParts
  <2>2. At(f, r) = start
    BY <2>1 DEF At
  <2>3. a.region = "FB" /\ a.offset = start /\ a.size = 32 /\ a.op = "write" /\ a.data = d
    BY DEF Write, Access
  <2> HIDE DEF r, a
  <2>4. Sets(f, r, a, d, Width(32))
    BY <2>1, <2>2, <2>3 DEF Sets, Width
  <2>5. Lands(f, F, d, Width(32), a)
    BY <1>2, <2>1, <2>4 DEF Lands, r
  <2> QED BY <2>5, FitOne DEF a
<1> QED BY <1>1, <1>2 DEF ByteSet, WordSet

(* A field that is not answered is written, or nothing is, at a free place.*)
FreeFor(f, start, k) ==
  \A F, set, of, d : F[1] \notin Known(f) =>
    /\ Lands(f, F, set, of, Write(start, 8 * k, d))
    /\ \A m : Lands(f, F, set, of, Modify(start, 8 * k, d, m))

(* Bytes of a part that no row has are free for such a field.              *)
LEMMA FreePlace ==
  ASSUME NEW f, Descriptor(f), NEW o \in Owners(f), NEW n \in Nat, NEW k \in {1, 2, 4},
         FreeAt(f, o, n, k), NEW start, start = Base(f, o) + n
  PROVE  FreeFor(f, start, k)
<1>1. ASSUME NEW a, a.offset = start, a.size = 8 * k
      PROVE  Misses(f, a)
  BY <1>1, FreeMisses
<1>2. \A d, m : /\ Write(start, 8 * k, d).offset = start /\ Write(start, 8 * k, d).size = 8 * k
                /\ Modify(start, 8 * k, d, m).offset = start
                /\ Modify(start, 8 * k, d, m).size = 8 * k
  BY DEF Write, Modify, Access
<1>3. \A d, m : Misses(f, Write(start, 8 * k, d)) /\ Misses(f, Modify(start, 8 * k, d, m))
  BY <1>1, <1>2
<1> QED BY <1>3 DEF FreeFor, Lands

(* Reading touches no field, and neither does an access to the other region.*)
LEMMA ReadMisses ==
  ASSUME NEW f
  PROVE  /\ \A start, size : Misses(f, Read(start, size))
         /\ \A a : a.region = "GBC" => Misses(f, a)
<1>1. \A start, size : Read(start, size).op = "read"
  BY DEF Read, Access
<1> QED BY <1>1 DEF Misses, Clear

(* The call that only asks, and the field it names.                        *)
LEMMA NotKnown ==
  ASSUME NEW f, Descriptor(f)
  PROVE  /\ \A F : F[1] \in {"none", "filter"} => F[1] \notin Known(f)
         /\ \A F : f.type = FUNC_BLOCK.DAC /\ F[1] = "bus" => F[1] \notin Known(f)
         /\ \A F : f.type = FUNC_BLOCK.ADIO /\ F[1] = "clock_src" => F[1] \notin Known(f)
<1>1. CASE f.type = FUNC_BLOCK.ADC
  BY <1>1 DEF Known, Answered, FUNC_BLOCK
<1>2. CASE f.type = FUNC_BLOCK.DAC
  BY <1>2 DEF Known, Answered, FUNC_BLOCK
<1>3. CASE f.type = FUNC_BLOCK.ADIO
  BY <1>3 DEF Known, Answered, FUNC_BLOCK
<1>4. CASE f.type = FUNC_BLOCK.EXT_CLOCKING
  BY <1>4 DEF Known, Answered, FUNC_BLOCK
<1> QED BY <1>1, <1>2, <1>3, <1>4 DEF Descriptor, Blocks4
-----------------------------------------------------------------------------
(* The bits of the numbers that fit in a byte.                             *)
LEMMA BigPowers ==
  ASSUME NEW b \in 8 .. 30
  PROVE  2^b \in Nat /\ 2^b >= 256
<1>8. CASE b = 8
  BY <1>8
<1>9. CASE b = 9
  BY <1>9
<1>10. CASE b = 10
  BY <1>10
<1>11. CASE b = 11
  BY <1>11
<1>12. CASE b = 12
  BY <1>12
<1>13. CASE b = 13
  BY <1>13
<1>14. CASE b = 14
  BY <1>14
<1>15. CASE b = 15
  BY <1>15
<1>16. CASE b = 16
  BY <1>16
<1>17. CASE b = 17
  BY <1>17
<1>18. CASE b = 18
  BY <1>18
<1>19. CASE b = 19
  BY <1>19
<1>20. CASE b = 20
  BY <1>20
<1>21. CASE b = 21
  BY <1>21
<1>22. CASE b = 22
  BY <1>22
<1>23. CASE b = 23
  BY <1>23
<1>24. CASE b = 24
  BY <1>24
<1>25. CASE b = 25
  BY <1>25
<1>26. CASE b = 26
  BY <1>26
<1>27. CASE b = 27
  BY <1>27
<1>28. CASE b = 28
  BY <1>28
<1>29. CASE b = 29
  BY <1>29
<1>30. CASE b = 30
  BY <1>30
<1> QED BY <1>8, <1>9, <1>10, <1>11, <1>12, <1>13, <1>14, <1>15, <1>16, <1>17, <1>18, <1>19,
           <1>20, <1>21, <1>22, <1>23, <1>24, <1>25, <1>26, <1>27, <1>28, <1>29, <1>30

(* The bits of a byte.                                                     *)
LEMMA ByteBits ==
  ASSUME NEW n \in 0 .. 255
  PROVE  /\ Bits(n) \subseteq 0 .. 7
         /\ 0 \in Bits(n) <=> n % 2 = 1
         /\ 1 \in Bits(n) <=> (n \div 2) % 2 = 1
         /\ 2 \in Bits(n) <=> (n \div 4) % 2 = 1
         /\ 3 \in Bits(n) <=> (n \div 8) % 2 = 1
         /\ 4 \in Bits(n) <=> (n \div 16) % 2 = 1
         /\ 5 \in Bits(n) <=> (n \div 32) % 2 = 1
         /\ 6 \in Bits(n) <=> (n \div 64) % 2 = 1
         /\ 7 \in Bits(n) <=> (n \div 128) % 2 = 1
<1> DEFINE One(b) == (n \div 2^b) % 2 = 1
<1>1. \A b : b \in Bits(n) <=> b \in 0 .. 30 /\ One(b)
  BY DEF Bits
<1>2. ASSUME NEW b \in 8 .. 30
      PROVE  b \notin Bits(n)
  <2> DEFINE p == 2^b
  <2>1. p \in Nat /\ p >= 256
    BY BigPowers
  <2>2. One(b) => (n \div p) % 2 = 1
    OBVIOUS
  <2> HIDE DEF p, One
  <2>3. n \div p = 0
    BY <2>1
  <2> QED BY <1>1, <2>2, <2>3

<1>3. 0 \in Bits(n) <=> (n \div 1) % 2 = 1
  <2>1. ASSUME NEW b, b = 0
        PROVE  b \in Bits(n) <=> (n \div 1) % 2 = 1
    <3> DEFINE p == 2^b
    <3>1. p = 1
      BY <2>1
    <3>2. One(b) <=> (n \div p) % 2 = 1
      OBVIOUS
    <3> HIDE DEF p, One
    <3> QED BY <1>1, <2>1, <3>1, <3>2
  <2> QED BY <2>1
<1>4. 1 \in Bits(n) <=> (n \div 2) % 2 = 1
  <2>1. ASSUME NEW b, b = 1
        PROVE  b \in Bits(n) <=> (n \div 2) % 2 = 1
    <3> DEFINE p == 2^b
    <3>1. p = 2
      BY <2>1
    <3>2. One(b) <=> (n \div p) % 2 = 1
      OBVIOUS
    <3> HIDE DEF p, One
    <3> QED BY <1>1, <2>1, <3>1, <3>2
  <2> QED BY <2>1
<1>5. 2 \in Bits(n) <=> (n \div 4) % 2 = 1
  <2>1. ASSUME NEW b, b = 2
        PROVE  b \in Bits(n) <=> (n \div 4) % 2 = 1
    <3> DEFINE p == 2^b
    <3>1. p = 4
      BY <2>1
    <3>2. One(b) <=> (n \div p) % 2 = 1
      OBVIOUS
    <3> HIDE DEF p, One
    <3> QED BY <1>1, <2>1, <3>1, <3>2
  <2> QED BY <2>1
<1>6. 3 \in Bits(n) <=> (n \div 8) % 2 = 1
  <2>1. ASSUME NEW b, b = 3
        PROVE  b \in Bits(n) <=> (n \div 8) % 2 = 1
    <3> DEFINE p == 2^b
    <3>1. p = 8
      BY <2>1
    <3>2. One(b) <=> (n \div p) % 2 = 1
      OBVIOUS
    <3> HIDE DEF p, One
    <3> QED BY <1>1, <2>1, <3>1, <3>2
  <2> QED BY <2>1
<1>7. 4 \in Bits(n) <=> (n \div 16) % 2 = 1
  <2>1. ASSUME NEW b, b = 4
        PROVE  b \in Bits(n) <=> (n \div 16) % 2 = 1
    <3> DEFINE p == 2^b
    <3>1. p = 16
      BY <2>1
    <3>2. One(b) <=> (n \div p) % 2 = 1
      OBVIOUS
    <3> HIDE DEF p, One
    <3> QED BY <1>1, <2>1, <3>1, <3>2
  <2> QED BY <2>1
<1>8. 5 \in Bits(n) <=> (n \div 32) % 2 = 1
  <2>1. ASSUME NEW b, b = 5
        PROVE  b \in Bits(n) <=> (n \div 32) % 2 = 1
    <3> DEFINE p == 2^b
    <3>1. p = 32
      BY <2>1
    <3>2. One(b) <=> (n \div p) % 2 = 1
      OBVIOUS
    <3> HIDE DEF p, One
    <3> QED BY <1>1, <2>1, <3>1, <3>2
  <2> QED BY <2>1
<1>9. 6 \in Bits(n) <=> (n \div 64) % 2 = 1
  <2>1. ASSUME NEW b, b = 6
        PROVE  b \in Bits(n) <=> (n \div 64) % 2 = 1
    <3> DEFINE p == 2^b
    <3>1. p = 64
      BY <2>1
    <3>2. One(b) <=> (n \div p) % 2 = 1
      OBVIOUS
    <3> HIDE DEF p, One
    <3> QED BY <1>1, <2>1, <3>1, <3>2
  <2> QED BY <2>1
<1>10. 7 \in Bits(n) <=> (n \div 128) % 2 = 1
  <2>1. ASSUME NEW b, b = 7
        PROVE  b \in Bits(n) <=> (n \div 128) % 2 = 1
    <3> DEFINE p == 2^b
    <3>1. p = 128
      BY <2>1
    <3>2. One(b) <=> (n \div p) % 2 = 1
      OBVIOUS
    <3> HIDE DEF p, One
    <3> QED BY <1>1, <2>1, <3>1, <3>2
  <2> QED BY <2>1
<1> HIDE DEF One
<1>11. n \div 1 = n
  OBVIOUS
<1>12. ASSUME NEW b \in Bits(n)
       PROVE  b \in 0 .. 7
  <2>1. b \in 0 .. 30
    BY <1>1
  <2> QED BY <1>2, <2>1
<1>13. 0 \in Bits(n) <=> n % 2 = 1
  BY <1>3, <1>11
<1> QED BY <1>4, <1>5, <1>6, <1>7, <1>8, <1>9, <1>10, <1>12, <1>13

(* They are the lowest eight.                                              *)
LEMMA SmallBits ==
  ASSUME NEW n \in 0 .. 255
  PROVE  Bits(n) \subseteq Width(8)
<1>1. Bits(n) \subseteq 0 .. 7
  BY ByteBits
<1> QED BY <1>1 DEF Width

(* The places of a part that hold no field.                                *)
LEMMA FreeBlockPlaces ==
  ASSUME NEW f, Descriptor(f)
  PROVE  /\ f.type = FUNC_BLOCK.ADC =>
              \A p \in {<<0, 1>>, <<30, 2>>} : FreeAt(f, <<"block">>, p[1], p[2])
         /\ f.type = FUNC_BLOCK.DAC =>
              /\ \A p \in {<<0, 1>>, <<30, 2>>} : FreeAt(f, <<"block">>, p[1], p[2])
              /\ \A n \in 34 .. 39 : FreeAt(f, <<"block">>, n, 1)
         /\ f.type = FUNC_BLOCK.ADIO =>
              \A p \in {<<0, 1>>, <<1, 1>>, <<2, 1>>, <<3, 1>>, <<12, 4>>, <<16, 4>>,
                        <<30, 2>>} : FreeAt(f, <<"block">>, p[1], p[2])
<1> DEFINE o == <<"block">>
<1>1. \A r \in Layout(f) : r.owner = o => r \in BlockRows(f)
  BY RowTable
<1>2. ASSUME f.type = FUNC_BLOCK.ADC
      PROVE  \A p \in {<<0, 1>>, <<30, 2>>} : FreeAt(f, o, p[1], p[2])
  <2>1. Room(f, o) = 44 /\ BlockRows(f) = AdcBlockRows
    BY <1>2 DEF Room, FUNC_BLOCK, BlockRows
  <2>2. \A r \in AdcBlockRows : \/ r.low \in {1, 2, 3} /\ r.wide = 1
                                \/ r.low \in {4, 12, 16, 24} /\ r.wide = 4
                                \/ r.low \in 34 .. 39 /\ r.wide = 1
    BY RowParts, BusRowParts DEF AdcBlockRows
  <2>3. \A r \in Layout(f) : r.owner = o => \/ r.low \in {1, 2, 3} /\ r.wide = 1
                                            \/ r.low \in {4, 12, 16, 24} /\ r.wide = 4
                                            \/ r.low \in 34 .. 39 /\ r.wide = 1
    BY <1>1, <2>1, <2>2
  <2> HIDE DEF o
  <2> QED BY <2>1, <2>3 DEF FreeAt
<1>3. ASSUME f.type = FUNC_BLOCK.DAC
      PROVE  /\ \A p \in {<<0, 1>>, <<30, 2>>} : FreeAt(f, o, p[1], p[2])
             /\ \A n \in 34 .. 39 : FreeAt(f, o, n, 1)
  <2>1. Room(f, o) = 44 /\ BlockRows(f) = DacBlockRows
    BY <1>3 DEF Room, FUNC_BLOCK, BlockRows
  <2>2. \A r \in DacBlockRows : \/ r.low \in {1, 2, 3} /\ r.wide = 1
                                \/ r.low \in {4, 16, 24} /\ r.wide = 4
    BY RowParts DEF DacBlockRows
  <2>3. \A r \in Layout(f) : r.owner = o => \/ r.low \in {1, 2, 3} /\ r.wide = 1
                                            \/ r.low \in {4, 16, 24} /\ r.wide = 4
    BY <1>1, <2>1, <2>2
  <2> HIDE DEF o
  <2> QED BY <2>1, <2>3 DEF FreeAt
<1>4. ASSUME f.type = FUNC_BLOCK.ADIO
      PROVE  \A p \in {<<0, 1>>, <<1, 1>>, <<2, 1>>, <<3, 1>>, <<12, 4>>, <<16, 4>>,
                       <<30, 2>>} : FreeAt(f, o, p[1], p[2])
  <2>1. Room(f, o) = 40 /\ BlockRows(f) = AdioBlockRows
    BY <1>4 DEF Room, FUNC_BLOCK, BlockRows
  <2>2. \A r \in AdioBlockRows : \/ r.low \in {4, 24} /\ r.wide = 4
                                 \/ r.low \in 34 .. 39 /\ r.wide = 1
    BY RowParts, BusRowParts DEF AdioBlockRows
  <2>3. \A r \in Layout(f) : r.owner = o => \/ r.low \in {4, 24} /\ r.wide = 4
                                            \/ r.low \in 34 .. 39 /\ r.wide = 1
    BY <1>1, <2>1, <2>2
  <2> HIDE DEF o
  <2> QED BY <2>1, <2>3 DEF FreeAt
<1> QED BY <1>2, <1>3, <1>4

(* Likewise for the channels, the FIFOs and the DMA.                       *)
LEMMA FreeChannelPlaces ==
  ASSUME NEW f, Descriptor(f), NEW c
  PROVE  /\ f.type = FUNC_BLOCK.ADC => /\ FreeAt(f, <<"channel", c>>, 9, 1)
                                       /\ FreeAt(f, <<"channel", c>>, 10, 1)
         /\ f.type = FUNC_BLOCK.DAC => FreeAt(f, <<"channel", c>>, 10, 1)
         /\ FreeAt(f, <<"fifo", c>>, 0, 4)
         /\ \A n \in {2, 3, 12, 13, 14} : FreeAt(f, <<"dma", c>>, n, 1)
         /\ \A b : FreeAt(f, <<"buffer", c, b>>, 2, 1)
<1>1. /\ \A r \in Layout(f) : r.owner = <<"channel", c>> => r \in ChannelRows(f, c)
      /\ \A r \in Layout(f) : r.owner = <<"dma", c>> => r \in DmaRows(c)
      /\ \A b : \A r \in Layout(f) : r.owner = <<"buffer", c, b>> => r \in BufferRows(c, b)
  BY RowTable
<1>2. ASSUME f.type = FUNC_BLOCK.ADC
      PROVE  FreeAt(f, <<"channel", c>>, 9, 1) /\ FreeAt(f, <<"channel", c>>, 10, 1)
  <2> DEFINE o == <<"channel", c>>
  <2>1. Room(f, o) = 24 /\ ChannelRows(f, c) = AdcChannelRows(c)
    BY <1>2 DEF Room, FUNC_BLOCK, ChannelRows
  <2>2. \A r \in AdcChannelRows(c) : \/ r.low = 11 /\ r.wide = 1
                                     \/ r.low \in {0, 12, 16} /\ r.wide = 4
    BY RowParts DEF AdcChannelRows
  <2>3. \A r \in Layout(f) : r.owner = o => \/ r.low = 11 /\ r.wide = 1
                                            \/ r.low \in {0, 12, 16} /\ r.wide = 4
    BY <1>1, <2>1, <2>2
  <2> HIDE DEF o
  <2>4. FreeAt(f, o, 9, 1) /\ FreeAt(f, o, 10, 1)
    BY <2>1, <2>3 DEF FreeAt
  <2> QED BY <2>4 DEF o
<1>3. ASSUME f.type = FUNC_BLOCK.DAC
      PROVE  FreeAt(f, <<"channel", c>>, 10, 1)
  <2> DEFINE o == <<"channel", c>>
  <2>1. Room(f, o) = 20 /\ ChannelRows(f, c) = DacChannelRows(c)
    BY <1>3 DEF Room, FUNC_BLOCK, ChannelRows
  <2>2. \A r \in DacChannelRows(c) : (r.low = 0 /\ r.wide = 4) \/ r.low \in {11, 16}
    BY RowParts DEF DacChannelRows
  <2>3. \A r \in Layout(f) : r.owner = o => (r.low = 0 /\ r.wide = 4) \/ r.low \in {11, 16}
    BY <1>1, <2>1, <2>2
  <2> HIDE DEF o
  <2>4. FreeAt(f, o, 10, 1)
    BY <2>1, <2>3 DEF FreeAt
  <2> QED BY <2>4 DEF o
<1>4. FreeAt(f, <<"fifo", c>>, 0, 4)
  <2>1. \A r \in Layout(f) : r.owner # <<"fifo", c>>
    <3>1. ASSUME NEW r \in Layout(f)
          PROVE  r.owner # <<"fifo", c>>
      <4>1. OwnerOf(r.field) = r.owner
        BY RowFacts
      <4> QED BY <4>1 DEF OwnerOf
    <3> QED BY <3>1
  <2>2. Room(f, <<"fifo", c>>) = 4
    BY DEF Room
  <2> QED BY <2>1, <2>2 DEF FreeAt
<1>5. \A n \in {2, 3, 12, 13, 14} : FreeAt(f, <<"dma", c>>, n, 1)
  <2> DEFINE o == <<"dma", c>>
  <2>1. Room(f, o) = 16
    BY DEF Room
  <2>2. \A r \in DmaRows(c) : r.low = 1 /\ r.wide = 1
    BY DEF DmaRows, Row
  <2>3. \A r \in Layout(f) : r.owner = o => r.low = 1 /\ r.wide = 1
    BY <1>1, <2>2
  <2> HIDE DEF o
  <2>4. \A n \in {2, 3, 12, 13, 14} : FreeAt(f, o, n, 1)
    BY <2>1, <2>3 DEF FreeAt
  <2> QED BY <2>4 DEF o
<1>6. ASSUME NEW b
      PROVE  FreeAt(f, <<"buffer", c, b>>, 2, 1)
  <2> DEFINE o == <<"buffer", c, b>>
  <2>1. Room(f, o) = 16
    BY DEF Room
  <2>2. \A r \in BufferRows(c, b) : r.low \in {3, 4}
    BY DEF BufferRows, Row
  <2>3. \A r \in Layout(f) : r.owner = o => r.low \in {3, 4}
    BY <1>1, <2>2
  <2> HIDE DEF o
  <2>4. FreeAt(f, o, 2, 1)
    BY <2>1, <2>3 DEF FreeAt
  <2> QED BY <2>4 DEF o
<1> QED BY <1>2, <1>3, <1>4, <1>5, <1>6

(* A value with its mask, as one word.                                     *)
LEMMA MaskableBits ==
  ASSUME NEW d, NEW m, NEW b \in Width(16)
  PROVE  /\ b \in Get_Maskable(d, m) <=> b \in m
         /\ b + 16 \in Get_Maskable(d, m) <=> b \in d
<1>1. b \in 0 .. 15
  BY DEF Width
<1>2. \A x : x \in HighHalf(d \cap Width(16)) <=> \E y \in d \cap Width(16) : x = y + 16
  BY DEF HighHalf
<1>3. \A y \in d \cap Width(16) : y \in 0 .. 15
  BY DEF Width
<1>4. b \notin HighHalf(d \cap Width(16))
  BY <1>1, <1>2, <1>3
<1>5. b + 16 \in HighHalf(d \cap Width(16)) <=> b \in d
  <2>1. \A y \in d \cap Width(16) : b + 16 = y + 16 => b = y
    BY <1>1, <1>3
  <2> QED BY <1>2, <2>1
<1>6. b + 16 \notin Width(16)
  BY <1>1 DEF Width
<1> QED BY <1>4, <1>5, <1>6 DEF Get_Maskable

(* A field in the high half of a word is written under its mask.           *)
LEMMA HalfSet ==
  ASSUME NEW f, NEW F, NEW o, NEW n, NEW start, start = Base(f, o) + n,
         start \in Maskable(f) \/ F[1] \notin Answered[f.type],
         HalfRow(F, o, n) \in Layout(f), NEW set, NEW of, NEW data,
         set \cap of \cap Width(32) \subseteq Width(16),
         \A b \in Width(16) : /\ b \in data <=> b \in of
                              /\ b \in of => (b + 16 \in data <=> b \in set)
  PROVE  Lands(f, F, set, of, Write(start, 32, data))
<1> DEFINE r == HalfRow(F, o, n)
           a == Write(start, 32, data)
<1>1. /\ r.field = F /\ r.owner = o /\ r.low = n /\ r.wide = 4 /\ r.shift = 16
      /\ r.slots = Width(16) /\ r.of = Width(32)
  BY RowParts
<1>2. At(f, r) = start
  BY <1>1 DEF At
<1>3. a.region = "FB" /\ a.offset = start /\ a.size = 32 /\ a.op = "write" /\ a.data = data
  BY DEF Write, Access
<1>4. r \in Layout(f)
  OBVIOUS
<1> HIDE DEF r, a
<1>5. IF start \in Maskable(f) THEN Sets(f, r, a, set, of) ELSE Stores(f, r, a, set, of)
  BY <1>1, <1>2, <1>3 DEF Sets, Stores
<1>6. Lands(f, F, set, of, a)
  BY <1>1, <1>4, <1>5 DEF Lands
<1> QED BY <1>6 DEF a

(* Bits of a field in the first bits of a register are changed under a mask*)
(* by the driver's modification.                                           *)
LEMMA ModifySet ==
  ASSUME NEW f, NEW r \in Layout(f), r.shift = 0, NEW start, start = At(f, r), NEW size,
         size = 8 * r.wide, NEW set, NEW of, NEW data, NEW mask,
         set \cap of \cap r.of \subseteq r.slots,
         \A b \in r.slots : /\ b \in mask <=> b \in of
                            /\ b \in of => (b \in data <=> b \in set)
  PROVE  Lands(f, r.field, set, of, Modify(start, size, data, mask))
<1> DEFINE a == Modify(start, size, data, mask)
<1>1. /\ a.region = "FB" /\ a.offset = start /\ a.size = size /\ a.op = "modify"
      /\ a.data = data /\ a.mask = mask
  BY DEF Modify, Access
<1> HIDE DEF a
<1>2. Sets(f, r, a, set, of)
  BY <1>1 DEF Sets
<1>3. Lands(f, r.field, set, of, a)
  BY <1>2 DEF Lands
<1> QED BY <1>3 DEF a

(* Two accesses, of which the second is the one that sets the field.       *)
LEMMA FitTwo ==
  ASSUME NEW f, NEW F, NEW set, NEW of, NEW a, NEW b, Misses(f, a), Lands(f, F, set, of, b)
  PROVE  Fit(f, F, set, of, <<a, b>>)
<1> DEFINE s == <<a, b>>
<1>1. s # <<>> /\ Len(s) = 2 /\ s[1] = a /\ s[2] = b
  OBVIOUS
<1> HIDE DEF s
<1>2. Fit(f, F, set, of, s)
  <2>1. \A i \in 1 .. Len(s) - 1 : Misses(f, s[i])
    BY <1>1
  <2>2. Lands(f, F, set, of, s[Len(s)])
    BY <1>1
  <2> QED BY <1>1, <2>1, <2>2 DEF Fit
<1> QED BY <1>2 DEF s

(* Accesses that touch no field, for a call that sets none that is answered.*)
LEMMA FitNone ==
  ASSUME NEW f, NEW F, F[1] \notin Known(f), NEW set, NEW of, NEW S, NEW s \in Seq(S),
         s # <<>>, \A a \in S : Misses(f, a)
  PROVE  Fit(f, F, set, of, s)
<1>1. Len(s) \in Nat /\ Len(s) # 0 /\ \A i \in 1 .. Len(s) : s[i] \in S
  OBVIOUS
<1>2. \A i \in 1 .. Len(s) - 1 : Misses(f, s[i])
  BY <1>1
<1>3. Misses(f, s[Len(s)])
  BY <1>1
<1> QED BY <1>2, <1>3 DEF Fit, Lands

(* The plans of functions that write the byte of a field.                  *)
LEMMA BytePlans ==
  ASSUME NEW f, NEW F, NEW start, ByteSet(f, F, start)
  PROVE  /\ \A v, k : (v => k \in 0 .. 255) =>
              FitPlan(f, F, Bits(k), Width(32), Checked(v, <<Write(start, 8, Bits(k))>>))
         /\ \A d : d \subseteq Width(8) =>
              FitPlan(f, F, d, Width(32), Request(<<Write(start, 8, d)>>))
         /\ \A v, d : FitPlan(f, F, d, Width(8), Checked(v, <<Write(start, 8, d)>>))
         /\ \A d : FitPlan(f, F, d, Width(8), Request(<<Write(start, 8, d)>>))
<1>1. ASSUME NEW d
      PROVE  /\ Fit(f, F, d, Width(8), <<Write(start, 8, d)>>)
             /\ d \subseteq Width(8) => Fit(f, F, d, Width(32), <<Write(start, 8, d)>>)
  BY DEF ByteSet
<1>2. ASSUME NEW v, NEW k, v => k \in 0 .. 255
      PROVE  FitPlan(f, F, Bits(k), Width(32), Checked(v, <<Write(start, 8, Bits(k))>>))
  <2>1. v => Bits(k) \subseteq Width(8)
    BY <1>2, SmallBits
  <2>2. v => Fit(f, F, Bits(k), Width(32), <<Write(start, 8, Bits(k))>>)
    BY <1>1, <2>1
  <2> QED BY <2>2, FitPlans
<1> QED BY <1>1, <1>2, FitPlans

(* The plans of functions that write the word of a field.                  *)
LEMMA WordPlans ==
  ASSUME NEW f, NEW F, NEW start, WordSet(f, F, start)
  PROVE  /\ \A d : FitPlan(f, F, d, Width(32), Request(<<Write(start, 32, d)>>))
         /\ \A v, d : FitPlan(f, F, d, Width(32), Checked(v, <<Write(start, 32, d)>>))
<1>1. \A d : Fit(f, F, d, Width(32), <<Write(start, 32, d)>>)
  BY DEF WordSet
<1> QED BY <1>1, FitPlans

(* The plans of functions that write where no field is.                    *)
LEMMA FreePlans ==
  ASSUME NEW f, NEW start, NEW k, FreeFor(f, start, k), NEW size, size = 8 * k
  PROVE  \A F, set, of : F[1] \notin Known(f) =>
           /\ \A d : FitPlan(f, F, set, of, Request(<<Write(start, size, d)>>))
           /\ \A v, d : FitPlan(f, F, set, of, Checked(v, <<Write(start, size, d)>>))
           /\ \A c, d : FitPlan(f, F, set, of, OnChannel(f, c, <<Write(start, size, d)>>))
           /\ \A c, d, m : FitPlan(f, F, set, of, OnChannel(f, c, <<Modify(start, size, d, m)>>))
<1> TAKE F, set, of
<1> HAVE F[1] \notin Known(f)
<1>1. \A d : /\ Lands(f, F, set, of, Write(start, size, d))
             /\ \A m : Lands(f, F, set, of, Modify(start, size, d, m))
  BY DEF FreeFor
<1>2. \A d : /\ Fit(f, F, set, of, <<Write(start, size, d)>>)
             /\ \A m : Fit(f, F, set, of, <<Modify(start, size, d, m)>>)
  BY <1>1, FitOne
<1> QED BY <1>2, FitPlans

(* The plans of functions that only read fit a field that is not answered. *)
LEMMA ReadPlans ==
  ASSUME NEW f, NEW start, NEW size
  PROVE  \A F, set, of : F[1] \notin Known(f) =>
           /\ FitPlan(f, F, set, of, Request(<<Read(start, size)>>))
           /\ \A c : FitPlan(f, F, set, of, OnChannel(f, c, <<Read(start, size)>>))
<1> TAKE F, set, of
<1> HAVE F[1] \notin Known(f)
<1>1. Misses(f, Read(start, size))
  BY ReadMisses
<1>2. Fit(f, F, set, of, <<Read(start, size)>>)
  BY <1>1, FitOne DEF Lands
<1> QED BY <1>2, FitPlans

(* Where the registers of the block are, in terms of its part.             *)
LEMMA BlockStarts ==
  ASSUME NEW f, Descriptor(f)
  PROVE  /\ <<"block">> \in Owners(f)
         /\ \A n : /\ AdcReg(f, n) = Base(f, <<"block">>) + n
                   /\ DacReg(f, n) = Base(f, <<"block">>) + n
                   /\ AdioReg(f, n) = Base(f, <<"block">>) + n
                   /\ ExtReg(f, n) = Base(f, <<"block">>) + n
         /\ f.type = FUNC_BLOCK.ADIO =>
              /\ <<"pins">> \in Owners(f)
              /\ \A n \in Nat : AdioPins(f, n) = Base(f, <<"pins">>) + n
<1>1. Base(f, <<"block">>) = f.control_offset
  BY DEF Base
<1>2. <<"block">> \in Owners(f)
  BY DEF Owners
<1>3. f.type = FUNC_BLOCK.ADIO => <<"pins">> \in Owners(f)
  BY DEF Owners
<1>4. \A n \in Nat : AdioPins(f, n) = Base(f, <<"pins">>) + n
  <2>1. ADIO_CHAN.START = 40 /\ Base(f, <<"pins">>) = f.control_offset + 40
    BY DEF ADIO_CHAN, Base
  <2> QED BY <2>1 DEF AdioPins
<1> QED BY <1>1, <1>2, <1>3, <1>4 DEF AdcReg, DacReg, AdioReg, ExtReg

(* The rows of the block, of its pins and of its channels are in the table.*)
LEMMA InLayout ==
  ASSUME NEW f, Descriptor(f)
  PROVE  /\ f.type = FUNC_BLOCK.ADC => AdcBlockRows \subseteq Layout(f)
         /\ f.type = FUNC_BLOCK.DAC => DacBlockRows \subseteq Layout(f)
         /\ f.type = FUNC_BLOCK.ADIO => AdioBlockRows \cup AdioPinRows \subseteq Layout(f)
         /\ f.type = FUNC_BLOCK.EXT_CLOCKING => ExtRows \subseteq Layout(f)
         /\ \A c \in RowChannels(f) :
              /\ f.type = FUNC_BLOCK.ADC => AdcChannelRows(c) \subseteq Layout(f)
              /\ f.type = FUNC_BLOCK.DAC => DacChannelRows(c) \subseteq Layout(f)
         /\ \A c \in DmaChannels(f) :
              /\ DmaRows(c) \subseteq Layout(f)
              /\ \A b \in DmaBuffersOf(f) : BufferRows(c, b) \subseteq Layout(f)
<1>1. BlockRows(f) \subseteq Layout(f)
  BY DEF Layout
<1>2. \A c \in DmaChannels(f) : /\ DmaRows(c) \subseteq Layout(f)
                                /\ \A b \in DmaBuffersOf(f) : BufferRows(c, b) \subseteq Layout(f)
  BY DEF Layout
<1>3. f.type = FUNC_BLOCK.ADIO => AdioPinRows \subseteq Layout(f)
  BY DEF Layout
<1>4. /\ f.type = FUNC_BLOCK.ADC => BlockRows(f) = AdcBlockRows
      /\ f.type = FUNC_BLOCK.DAC => BlockRows(f) = DacBlockRows
      /\ f.type = FUNC_BLOCK.ADIO => BlockRows(f) = AdioBlockRows
      /\ f.type = FUNC_BLOCK.EXT_CLOCKING => BlockRows(f) = ExtRows
  BY DEF BlockRows, FUNC_BLOCK
<1>5. \A c : /\ f.type = FUNC_BLOCK.ADC => ChannelRows(f, c) = AdcChannelRows(c)
             /\ f.type = FUNC_BLOCK.DAC => ChannelRows(f, c) = DacChannelRows(c)
  BY DEF ChannelRows, FUNC_BLOCK
<1>6. \A c \in RowChannels(f) : ChannelRows(f, c) \subseteq Layout(f)
  BY DEF Layout
<1> QED BY <1>1, <1>2, <1>3, <1>4, <1>5, <1>6

(* The calls about the block of an ADC fit.                                *)
LEMMA AdcBlockFits ==
  ASSUME NEW f, Descriptor(f), f.type = FUNC_BLOCK.ADC, NEW x \in AdcBlockCalls(f)
  PROVE  FitCall(f, x)
<1> DEFINE o == <<"block">>
<1>1. /\ o \in Owners(f) /\ AdcBlockRows \subseteq Layout(f)
      /\ \A n : AdcReg(f, n) = Base(f, o) + n
  BY BlockStarts, InLayout
<1>2. /\ ByteRow(<<"clock_src">>, o, 1) \in Layout(f)
      /\ ByteRow(<<"start_trigger">>, o, 2) \in Layout(f)
      /\ ByteRow(<<"stop_trigger">>, o, 3) \in Layout(f)
      /\ WordRow(<<"pre">>, o, 12) \in Layout(f)
      /\ WordRow(<<"post">>, o, 16) \in Layout(f) /\ WordRow(<<"clk_div">>, o, 4) \in Layout(f)
  BY <1>1 DEF AdcBlockRows
<1>3. \A b \in Buses : ByteRow(<<"bus", b>>, o, 34 + (b - 2)) \in Layout(f)
  BY <1>1 DEF AdcBlockRows, BusRows
<1> HIDE DEF o
<1>4. /\ ByteSet(f, <<"clock_src">>, AdcReg(f, ADC.CLK_SRC))
      /\ ByteSet(f, <<"start_trigger">>, AdcReg(f, ADC.START_TRIG))
      /\ ByteSet(f, <<"stop_trigger">>, AdcReg(f, ADC.STOP_TRIG))
      /\ WordSet(f, <<"pre">>, AdcReg(f, ADC.PRE_CAPT_COUNT))
      /\ WordSet(f, <<"post">>, AdcReg(f, ADC.POST_CAPT_COUNT))
      /\ WordSet(f, <<"clk_div">>, AdcReg(f, ADC.CLK_DIV))
  BY <1>1, <1>2, BlockPlaces, SetPlaces
<1>5. \A b \in Buses : ByteSet(f, <<"bus", b>>, AdcReg(f, BusRegister(ADC.CLK_BUS2, b)))
  BY <1>1, <1>3, BlockPlaces, SetPlaces DEF BusRegister
<1>6. FreeFor(f, AdcReg(f, ADC.MODE_STATUS), 1)
  <2>1. FreeAt(f, o, 0, 1)
    BY FreeBlockPlaces DEF o
  <2> QED BY <1>1, <2>1, BlockPlaces, FreePlace
<1>7. \A k : /\ FitPlan(f, <<"start_trigger">>, Bits(k), Width(32), Adc_Set_Start_Trigger(f, k))
             /\ FitPlan(f, <<"stop_trigger">>, Bits(k), Width(32), Adc_Set_Stop_Trigger(f, k))
             /\ FitPlan(f, <<"clock_src">>, Bits(k), Width(32), Adc_Set_Clock_Src(f, k))
             /\ FitPlan(f, <<"pre">>, Bits(k), Width(32), Adc_Set_Pre_Trigger_Samples(f, k))
  <2>1. \A k : Adc_Validate_Clock(k) => k \in 0 .. 255
    BY DEF Adc_Validate_Clock, ClockSources
  <2> QED BY <1>4, <2>1, BytePlans, WordPlans
      DEF Adc_Set_Start_Trigger, Adc_Set_Stop_Trigger, Adc_Set_Clock_Src,
          Adc_Set_Pre_Trigger_Samples
<1>8. \A d : FitPlan(f, <<"post">>, d, Width(32), Adc_Set_Post_Stop_Samples(f, d))
  BY <1>4, WordPlans DEF Adc_Set_Post_Stop_Samples
<1>9. \A d : FitPlan(f, <<"clk_div">>, d, Width(32), Adc_Set_Clk_Divider(f, d))
  BY <1>4, WordPlans DEF Adc_Set_Clk_Divider
<1>10. ASSUME NEW b, NEW k
       PROVE  FitPlan(f, <<"bus", b>>, Bits(k), Width(8), Adc_Set_Clock_Source_Global(f, b, k))
  <2>1. CASE b \in Buses
    BY <1>5, <2>1, BytePlans DEF Adc_Set_Clock_Source_Global
  <2>2. CASE b \notin Buses
    BY <2>2, FitPlans DEF Adc_Set_Clock_Source_Global, Adc_Validate_Clock_Global_Source
  <2> QED BY <2>1, <2>2
<1>11. \A k : FitPlan(f, <<"none">>, {}, {}, AdcMode(f, k))
  BY <1>6, FreePlans, NotKnown DEF AdcMode
<1>12. \A p \in {Adc_Start(f), Adc_Start_Rearm(f), Adc_Reset(f), Adc_Pause(f), Adc_Uninitialize(f)} :
         FitPlan(f, <<"none">>, {}, {}, p)
  BY <1>11 DEF Adc_Start, Adc_Start_Rearm, Adc_Reset, Adc_Pause, Adc_Uninitialize
<1>13. \A k : /\ FitCall(f, OfBlock("start_trigger", Bits(k), Adc_Set_Start_Trigger(f, k)))
              /\ FitCall(f, OfBlock("stop_trigger", Bits(k), Adc_Set_Stop_Trigger(f, k)))
              /\ FitCall(f, OfBlock("clock_src", Bits(k), Adc_Set_Clock_Src(f, k)))
              /\ FitCall(f, OfBlock("pre", Bits(k), Adc_Set_Pre_Trigger_Samples(f, k)))
  BY <1>7, FitCalls DEF OfBlock
<1>14. \A d : /\ FitCall(f, OfBlock("post", d, Adc_Set_Post_Stop_Samples(f, d)))
              /\ FitCall(f, OfBlock("clk_div", d, Adc_Set_Clk_Divider(f, d)))
  BY <1>8, <1>9, FitCalls DEF OfBlock
<1>15. \A b, k : FitCall(f, OnBusField("bus", b, Bits(k), Adc_Set_Clock_Source_Global(f, b, k)))
  BY <1>10, FitCalls DEF OnBusField
<1>16. \A p \in {Adc_Start(f), Adc_Start_Rearm(f), Adc_Reset(f), Adc_Pause(f), Adc_Uninitialize(f)} :
         FitCall(f, AskBlock(p))
  BY <1>12, FitCalls DEF AskBlock, Query
<1> QED BY ONLY <1>13, <1>14, <1>15, <1>16, x \in AdcBlockCalls(f) DEF AdcBlockCalls

(* The bits of some codes.                                                 *)
LEMMA CodeBits ==
  /\ Bits(0) = {} /\ Bits(1) = {0} /\ Bits(2) = {1} /\ Bits(3) = {0, 1}
  /\ Bits(4) = {2} /\ Bits(8) = {3} /\ Bits(12) = {2, 3}
  /\ Bits(30) = {1, 2, 3, 4} /\ Bits(32) = {5} /\ Bits(33) = {0, 5} /\ Bits(192) = {6, 7}
<1>1. Bits(0) = {} /\ Bits(1) = {0} /\ Bits(2) = {1} /\ Bits(3) = {0, 1}
  BY ByteBits
<1>2. Bits(4) = {2} /\ Bits(8) = {3} /\ Bits(12) = {2, 3}
  BY ByteBits
<1>3. Bits(30) = {1, 2, 3, 4} /\ Bits(32) = {5} /\ Bits(33) = {0, 5} /\ Bits(192) = {6, 7}
  BY ByteBits
<1> QED BY <1>1, <1>2, <1>3

(* What is written to set up a channel of the ADC: the delay, the range and*)
(* the mode with the enable, each under its mask.                          *)
FrontEndData(code) ==
  Get_Maskable(Bits(192), Bits(192)) \cup Get_Maskable(Bits(code), Bits(30))
    \cup Get_Maskable(Bits(32), Bits(33))

(* Its low half masks the low byte, and its high half is what is asked for. *)
LEMMA FrontEndWord ==
  ASSUME NEW code \in {0, 2, 4, 6, 8, 10, 12, 14, 16}, NEW data, data = FrontEndData(code)
  PROVE  /\ Bits(224 + code) \subseteq Width(8)
         /\ \A b \in Width(16) : /\ b \in data <=> b \in Width(8)
                                 /\ b + 16 \in data <=> b \in Bits(224 + code)
<1>1. /\ Bits(code) \subseteq 0 .. 7 /\ Bits(224 + code) \subseteq 0 .. 7
      /\ \A b \in 0 .. 7 : b \in Bits(224 + code) <=> b \in Bits(code) \/ b \in {5, 6, 7}
  <2> DEFINE n == 224 + code
  <2>1. code \in 0 .. 16 /\ n \in 224 .. 240
    OBVIOUS
  <2>2. /\ Bits(code) \subseteq 0 .. 7
        /\ 0 \in Bits(code) <=> code % 2 = 1
        /\ 1 \in Bits(code) <=> (code \div 2) % 2 = 1
        /\ 2 \in Bits(code) <=> (code \div 4) % 2 = 1
        /\ 3 \in Bits(code) <=> (code \div 8) % 2 = 1
        /\ 4 \in Bits(code) <=> (code \div 16) % 2 = 1
        /\ 5 \in Bits(code) <=> (code \div 32) % 2 = 1
        /\ 6 \in Bits(code) <=> (code \div 64) % 2 = 1
        /\ 7 \in Bits(code) <=> (code \div 128) % 2 = 1
    BY <2>1, ByteBits
  <2>3. /\ Bits(n) \subseteq 0 .. 7
        /\ 0 \in Bits(n) <=> n % 2 = 1
        /\ 1 \in Bits(n) <=> (n \div 2) % 2 = 1
        /\ 2 \in Bits(n) <=> (n \div 4) % 2 = 1
        /\ 3 \in Bits(n) <=> (n \div 8) % 2 = 1
        /\ 4 \in Bits(n) <=> (n \div 16) % 2 = 1
        /\ 5 \in Bits(n) <=> (n \div 32) % 2 = 1
        /\ 6 \in Bits(n) <=> (n \div 64) % 2 = 1
        /\ 7 \in Bits(n) <=> (n \div 128) % 2 = 1
    BY <2>1, ByteBits
  <2>4. /\ code % 2 = 0 /\ n % 2 = 0 /\ (n \div 2) % 2 = (code \div 2) % 2
        /\ (n \div 4) % 2 = (code \div 4) % 2 /\ (n \div 8) % 2 = (code \div 8) % 2
        /\ (n \div 16) % 2 = (code \div 16) % 2 /\ (n \div 32) % 2 = 1
        /\ (n \div 64) % 2 = 1 /\ (n \div 128) % 2 = 1
        /\ (code \div 32) % 2 = 0 /\ (code \div 64) % 2 = 0 /\ (code \div 128) % 2 = 0
    OBVIOUS
  <2> HIDE DEF n
  <2>5. /\ 0 \in Bits(n) <=> 0 \in Bits(code)
        /\ 1 \in Bits(n) <=> 1 \in Bits(code)
        /\ 2 \in Bits(n) <=> 2 \in Bits(code)
        /\ 3 \in Bits(n) <=> 3 \in Bits(code)
        /\ 4 \in Bits(n) <=> 4 \in Bits(code)
        /\ 5 \in Bits(n) /\ 6 \in Bits(n) /\ 7 \in Bits(n)
        /\ 5 \notin Bits(code) /\ 6 \notin Bits(code) /\ 7 \notin Bits(code)
    BY ONLY <2>2, <2>3, <2>4
  <2>6. \A b \in 0 .. 7 : b \in Bits(n) <=> b \in Bits(code) \/ b \in {5, 6, 7}
    BY ONLY <2>5
  <2> QED BY <2>2, <2>3, <2>6 DEF n
<1>2. Bits(192) = {6, 7} /\ Bits(30) = {1, 2, 3, 4} /\ Bits(32) = {5} /\ Bits(33) = {0, 5}
  BY CodeBits
<1>3. ASSUME NEW b \in Width(16)
      PROVE  /\ b \in data <=> b \in Width(8)
             /\ b + 16 \in data <=> b \in Bits(224 + code)
  <2> DEFINE delay == Get_Maskable(Bits(192), Bits(192))
             range == Get_Maskable(Bits(code), Bits(30))
             mode == Get_Maskable(Bits(32), Bits(33))
  <2>4. /\ b \in delay <=> b \in {6, 7}
        /\ b + 16 \in delay <=> b \in {6, 7}
        /\ b \in range <=> b \in {1, 2, 3, 4}
        /\ b + 16 \in range <=> b \in Bits(code)
        /\ b \in mode <=> b \in {0, 5}
        /\ b + 16 \in mode <=> b \in {5}
    <3>2. /\ b \in Bits(192) <=> b \in {6, 7}
          /\ b \in Bits(30) <=> b \in {1, 2, 3, 4}
          /\ b \in Bits(32) <=> b \in {5}
          /\ b \in Bits(33) <=> b \in {0, 5}
      BY ONLY <1>2
    <3>3. /\ b \in delay <=> b \in Bits(192)
          /\ b + 16 \in delay <=> b \in Bits(192)
          /\ b \in range <=> b \in Bits(30)
          /\ b + 16 \in range <=> b \in Bits(code)
          /\ b \in mode <=> b \in Bits(33)
          /\ b + 16 \in mode <=> b \in Bits(32)
      <4>1. /\ b \in delay <=> b \in Bits(192)
            /\ b + 16 \in delay <=> b \in Bits(192)
        BY MaskableBits
      <4>2. /\ b \in range <=> b \in Bits(30)
            /\ b + 16 \in range <=> b \in Bits(code)
        BY MaskableBits
      <4>3. /\ b \in mode <=> b \in Bits(33)
            /\ b + 16 \in mode <=> b \in Bits(32)
        BY MaskableBits
      <4> QED BY <4>1, <4>2, <4>3
    <3> HIDE DEF delay, range, mode
    <3> QED BY ONLY <3>2, <3>3
  <2>5. data = delay \cup range \cup mode
    BY DEF FrontEndData
  <2> HIDE DEF delay, range, mode
  <2>1. b \in data <=> b \in {6, 7} \/ b \in {1, 2, 3, 4} \/ b \in {0, 5}
    BY ONLY <2>4, <2>5
  <2>2. b + 16 \in data <=> b \in {6, 7} \/ b \in Bits(code) \/ b \in {5}
    BY ONLY <2>4, <2>5
  <2>3. b \in Width(8) <=> b \in 0 .. 7
    BY DEF Width
  <2> QED BY <1>1, <2>1, <2>2, <2>3
<1> QED BY <1>1, <1>3 DEF Width

(* The calls that set up the front end of a channel of an ADC fit.         *)
LEMMA AdcFrontEndFits ==
  ASSUME NEW f, Descriptor(f), f.type = FUNC_BLOCK.ADC, NEW c
  PROVE  /\ \A r \in InputRanges :
              FitPlan(f, <<"fe_config", c>>, Bits(64 * 3 + r.code + ADC_FE_CONFIG.ENABLE), Width(8),
                      Adc_Channel_Setup(f, c, 3, r, "single_ended"))
         /\ FitPlan(f, <<"fe_config", c>>, {}, Width(16), Adc_Channel_Reset(f, c))
<1> DEFINE F == <<"fe_config", c>>
           o == <<"channel", c>>
<1>1. ASSUME AdcChannelOk(f, c)
      PROVE  /\ FrontEnd(f, c) = Base(f, o) + 0 /\ FrontEnd(f, c) \in Maskable(f)
             /\ HalfRow(F, o, 0) \in Layout(f)
  <2>1. c \in DmaChannels(f)
    BY <1>1 DEF AdcChannelOk, DmaChannels
  <2>2. AdcChannelRows(c) \subseteq Layout(f)
    BY <2>1, RowSlots, InLayout
  <2>3. FrontEnd(f, c) = Base(f, o) + 0
    BY <2>1, OnAdcChannel, ChannelPlaces DEF FrontEnd, DmaChannels
  <2>4. FrontEnd(f, c) \in Maskable(f)
    <3>1. f.type \in Analog /\ f.type # FUNC_BLOCK.EXT_CLOCKING
      BY DEF Analog, FUNC_BLOCK
    <3>2. Base(f, o) + 0 = Base(f, o)
      BY <2>1, <3>1, ChannelBase
    <3> QED BY <2>1, <2>3, <3>1, <3>2, SpecialRegisters
  <2> QED BY <2>2, <2>3, <2>4 DEF AdcChannelRows
<1> HIDE DEF F, o
<1>2. ASSUME NEW r \in InputRanges
      PROVE  FitPlan(f, F, Bits(64 * 3 + r.code + ADC_FE_CONFIG.ENABLE), Width(8),
                     Adc_Channel_Setup(f, c, 3, r, "single_ended"))
  <2> DEFINE code == r.code
             set == Bits(224 + code)
             data == FrontEndData(code)
             valid == Adc_Validate_Channel_Setup(f, c, 3, r, "single_ended")
  <2>1. code \in {0, 2, 4, 6, 8, 10, 12, 14, 16}
    BY DEF InputRanges
  <2>2. Adc_Channel_Setup(f, c, 3, r, "single_ended")
          = Checked(valid, <<Write(FrontEnd(f, c), 32, data)>>)
    <3>1. /\ ADC_FE_CONFIG.DELAY = 192 /\ ADC_FE_CONFIG.GAIN + ADC_FE_CONFIG.POLARITY = 30
          /\ ADC_FE_CONFIG.ENABLE = 32 /\ ADC_FE_CONFIG.MODE + ADC_FE_CONFIG.ENABLE = 33
          /\ 64 * 3 = 192 /\ 0 + 32 = 32 /\ "single_ended" # "differential"
      BY DEF ADC_FE_CONFIG
    <3>2. /\ Bits(64 * 3) = Bits(192) /\ Bits(ADC_FE_CONFIG.DELAY) = Bits(192)
          /\ Bits(ADC_FE_CONFIG.GAIN + ADC_FE_CONFIG.POLARITY) = Bits(30)
          /\ Bits((IF "single_ended" = "differential" THEN 1 ELSE 0) + ADC_FE_CONFIG.ENABLE) = Bits(32)
          /\ Bits(ADC_FE_CONFIG.MODE + ADC_FE_CONFIG.ENABLE) = Bits(33)
      BY <3>1
    <3> QED BY ONLY <3>2 DEF Adc_Channel_Setup, FrontEndData
  <2>3. 64 * 3 + r.code + ADC_FE_CONFIG.ENABLE = 224 + code
    BY <2>1 DEF ADC_FE_CONFIG
  <2>4. valid => AdcChannelOk(f, c)
    BY DEF Adc_Validate_Channel_Setup
  <2> HIDE DEF code, valid
  <2>5. /\ set \subseteq Width(8)
        /\ \A b \in Width(16) : /\ b \in data <=> b \in Width(8)
                                /\ b + 16 \in data <=> b \in set
    BY <2>1, FrontEndWord
  <2>6. Width(8) \subseteq Width(16)
    BY DEF Width
  <2> HIDE DEF set, data
  <2>7. valid => Fit(f, F, set, Width(8), <<Write(FrontEnd(f, c), 32, data)>>)
    <3> SUFFICES ASSUME valid
                 PROVE  Fit(f, F, set, Width(8), <<Write(FrontEnd(f, c), 32, data)>>)
      OBVIOUS
    <3>1. Lands(f, F, set, Width(8), Write(FrontEnd(f, c), 32, data))
      BY <1>1, <2>4, <2>5, <2>6, HalfSet
    <3> QED BY <3>1, FitOne
  <2>8. FitPlan(f, F, set, Width(8), Checked(valid, <<Write(FrontEnd(f, c), 32, data)>>))
    BY <2>7, FitPlans
  <2> QED BY <2>2, <2>3, <2>8 DEF set
<1>3. FitPlan(f, F, {}, Width(16), Adc_Channel_Reset(f, c))
  <2> DEFINE data == Get_Maskable({}, Width(16))
             a == Write(FrontEnd(f, c), 32, data)
  <2>1. \A b \in Width(16) : b \in data /\ b + 16 \notin data
    BY MaskableBits
  <2> HIDE DEF data
  <2>2. AdcChannelOk(f, c) => Lands(f, F, {}, Width(16), a)
    BY <1>1, <2>1, HalfSet
  <2>3. AdcChannelOk(f, c) => Fit(f, F, {}, Width(16), <<a>>)
    BY <2>2, FitOne
  <2> HIDE DEF a
  <2>4. FitPlan(f, F, {}, Width(16), OnChannel(f, c, <<a>>))
    BY <2>3, FitPlans
  <2> QED BY <2>4 DEF Adc_Channel_Reset, a, data
<1> QED BY <1>2, <1>3 DEF F

(* No function answers these fields.                                       *)
LEMMA PlainFields ==
  ASSUME NEW f, Descriptor(f)
  PROVE  /\ <<"none">>[1] \notin Known(f)
         /\ \A c : <<"filter", c>>[1] \notin Known(f)
<1>1. ASSUME NEW F, F[1] \in {"none", "filter"}
      PROVE  F[1] \notin Known(f)
  BY <1>1, NotKnown
<1>2. <<"none">>[1] \notin Known(f)
  <2> DEFINE F == <<"none">>
  <2>1. F[1] = "none"
    OBVIOUS
  <2> HIDE DEF F
  <2>2. F[1] \notin Known(f)
    BY <1>1, <2>1
  <2> QED BY <2>2 DEF F
<1>3. ASSUME NEW c
      PROVE  <<"filter", c>>[1] \notin Known(f)
  <2> DEFINE F == <<"filter", c>>
  <2>1. F[1] = "filter"
    OBVIOUS
  <2> HIDE DEF F
  <2>2. F[1] \notin Known(f)
    BY <1>1, <2>1
  <2> QED BY <2>2 DEF F
<1> QED BY <1>2, <1>3

(* The sources of interrupts that the calls name.                          *)
LEMMA SourceBits ==
  \A s \in Sources : s \subseteq Width(8) /\ s \subseteq Width(16)
BY DEF Sources, Width

(* The configuration of a channel's interrupts: the clearing, when there is*)
(* one, touches no field.                                                  *)
LEMMA ChannelInterruptFits ==
  ASSUME NEW f, Descriptor(f), f.type = FUNC_BLOCK.ADC, NEW c, NEW s \in Sources,
         NEW on \in BOOLEAN
  PROVE  /\ FitPlan(f, <<"none">>, {}, {}, Adc_Channel_Interrupt_Clear_Status(f, c, s))
         /\ FitPlan(f, <<"chan_int", c>>, IF on THEN s ELSE {}, s,
                    Adc_Channel_Interrupt_Set_Config(f, c, s, on))
<1> DEFINE F == <<"chan_int", c>>
           o == <<"channel", c>>
           set == IF on THEN s ELSE {}
           clear == Modify(AdcChannel(f, c, ADC_CHAN.INTR_STAT), 8, Width(8), s)
           enable == Modify(AdcChannel(f, c, ADC_CHAN.INTR_ENABLE), 8,
                            IF on THEN Width(8) ELSE {}, s)
           plan == Adc_Channel_Interrupt_Set_Config(f, c, s, on)
<1>1. Adc_Channel_Interrupt_Clear_Status(f, c, s) = OnChannel(f, c, <<clear>>)
  BY DEF Adc_Channel_Interrupt_Clear_Status
<1>2. plan = Then(IF on THEN OnChannel(f, c, <<clear>>) ELSE OnChannel(f, c, <<>>),
                  OnChannel(f, c, <<enable>>))
  BY <1>1 DEF Adc_Channel_Interrupt_Set_Config
<1>3. CASE ~AdcChannelOk(f, c)
  <2>1. \A accesses : OnChannel(f, c, accesses) = Rejected("EINVAL")
    BY <1>3 DEF OnChannel, Checked
  <2>2. Rejected("EINVAL").errno # "none"
    BY DEF Rejected
  <2>3. /\ Adc_Channel_Interrupt_Clear_Status(f, c, s).errno # "none"
        /\ plan.errno # "none"
    BY <1>1, <1>2, <2>1, <2>2 DEF Then
  <2> QED BY <2>3 DEF FitPlan
<1>4. CASE AdcChannelOk(f, c)
  <2>1. \A accesses : OnChannel(f, c, accesses) = Request(accesses)
    BY <1>4 DEF OnChannel, Checked
  <2>2. c \in DmaChannels(f)
    BY <1>4 DEF AdcChannelOk, DmaChannels
  <2>3. /\ o \in Owners(f)
        /\ AdcChannel(f, c, ADC_CHAN.INTR_STAT) = Base(f, o) + 10
        /\ AdcChannel(f, c, ADC_CHAN.INTR_ENABLE) = Base(f, o) + 11
    <3>1. ADC_CHAN.INTR_STAT = 10 /\ ADC_CHAN.INTR_ENABLE = 11
      BY DEF ADC_CHAN
    <3> QED BY <2>2, <3>1, OnAdcChannel DEF DmaChannels
  <2>4. Misses(f, clear)
    <3>1. clear.offset = Base(f, o) + 10 /\ clear.size = 8 * 1
      BY <2>3 DEF Modify, Access
    <3>2. FreeAt(f, o, 10, 1)
      BY FreeChannelPlaces
    <3> HIDE DEF clear, o
    <3> QED BY <2>3, <3>1, <3>2, FreeMisses
  <2>5. Lands(f, F, set, s, enable)
    <3> DEFINE r == ByteRow(F, o, 11)
               data == IF on THEN Width(8) ELSE {}
    <3>1. r \in Layout(f)
      BY <2>2, RowSlots, InLayout DEF AdcChannelRows
    <3>2. /\ r.field = F /\ r.owner = o /\ r.low = 11 /\ r.wide = 1 /\ r.shift = 0
          /\ r.slots = Width(8) /\ r.of = Width(32)
      BY RowParts
    <3>3. AdcChannel(f, c, ADC_CHAN.INTR_ENABLE) = At(f, r)
      BY <2>3, <3>2 DEF At
    <3>4. /\ set \cap s \cap r.of \subseteq r.slots
          /\ \A b \in r.slots : b \in s => (b \in data <=> b \in set)
      BY <3>2, SourceBits
    <3>5. enable = Modify(At(f, r), 8, data, s) /\ 8 = 8 * r.wide
      BY <3>2, <3>3
    <3> HIDE DEF r, data, set, enable
    <3>6. Lands(f, r.field, set, s, Modify(At(f, r), 8, data, s))
      BY <3>1, <3>2, <3>4, <3>5, ModifySet
    <3> QED BY <3>2, <3>5, <3>6
  <2>6. FitPlan(f, <<"none">>, {}, {}, Request(<<clear>>))
    <3> HIDE DEF clear
    <3>1. Lands(f, <<"none">>, {}, {}, clear)
      BY <2>4, PlainFields DEF Lands
    <3> QED BY <3>1, FitOne, FitPlans
  <2>7. FitPlan(f, F, set, s, plan)
    <3>1. CASE on
      <4>1. plan = Then(Request(<<clear>>), Request(<<enable>>))
        BY <1>2, <2>1, <3>1
      <4>2. plan.accesses = <<clear, enable>>
        BY <4>1, TwoRequests
      <4> HIDE DEF plan, clear, enable, set, F
      <4>3. Fit(f, F, set, s, <<clear, enable>>)
        BY <2>4, <2>5, FitTwo
      <4> QED BY <4>2, <4>3 DEF FitPlan
    <3>2. CASE ~on
      <4>1. plan = Then(Request(<<>>), Request(<<enable>>))
        BY <1>2, <2>1, <3>2
      <4>2. plan = Request(<<enable>>)
        BY <4>1, TwoRequests
      <4> HIDE DEF plan, clear, enable, set, F
      <4> QED BY <2>5, <4>2, FitOne, FitPlans
    <3> QED BY <3>1, <3>2
  <2> QED BY <1>1, <2>1, <2>6, <2>7
<1> QED BY <1>3, <1>4

(* The calls about a channel of an ADC fit.                                *)
LEMMA AdcChannelFits ==
  ASSUME NEW f, Descriptor(f), f.type = FUNC_BLOCK.ADC, NEW c, NEW x \in AdcChannelCalls(f, c)
  PROVE  FitCall(f, x)
<1> DEFINE o == <<"channel", c>>
<1>1. ASSUME AdcChannelOk(f, c)
      PROVE  /\ FreeFor(f, AdcChannel(f, c, ADC_CHAN.FILTER), 1)
             /\ WordSet(f, <<"low", c>>, AdcChannel(f, c, ADC_CHAN.LOW_THRESHOLD))
             /\ WordSet(f, <<"high", c>>, AdcChannel(f, c, ADC_CHAN.HIGH_THRESHOLD))
  <2>1. c \in DmaChannels(f)
    BY <1>1 DEF AdcChannelOk, DmaChannels
  <2>2. /\ WordRow(<<"low", c>>, o, 12) \in Layout(f)
        /\ WordRow(<<"high", c>>, o, 16) \in Layout(f)
    BY <2>1, RowSlots, InLayout DEF AdcChannelRows
  <2>3. o \in Owners(f) /\ \A n \in Nat : AdcChannel(f, c, n) = Base(f, o) + n
    BY <2>1, OnAdcChannel DEF DmaChannels
  <2>4. FreeAt(f, o, 9, 1)
    BY FreeChannelPlaces
  <2> HIDE DEF o
  <2>5. /\ AdcChannel(f, c, ADC_CHAN.FILTER) = Base(f, o) + 9
        /\ AdcChannel(f, c, ADC_CHAN.LOW_THRESHOLD) = Base(f, o) + 12
        /\ AdcChannel(f, c, ADC_CHAN.HIGH_THRESHOLD) = Base(f, o) + 16
    BY <2>3, ChannelPlaces
  <2>6. FreeFor(f, AdcChannel(f, c, ADC_CHAN.FILTER), 1)
    BY <2>3, <2>4, <2>5, FreePlace
  <2> QED BY <2>2, <2>5, <2>6, SetPlaces
<1>2. \A r \in InputRanges :
        FitCall(f, Ranged(r, OnField("fe_config", c,
                                     Bits(64 * 3 + r.code + ADC_FE_CONFIG.ENABLE), Width(8),
                                     Adc_Channel_Setup(f, c, 3, r, "single_ended"))))
  BY AdcFrontEndFits, FitCalls DEF Ranged, OnField
<1>3. FitCall(f, OnField("fe_config", c, {}, Width(16), Adc_Channel_Reset(f, c)))
  BY AdcFrontEndFits, FitCalls DEF OnField
<1>4. \A s \in Sources, e \in BOOLEAN :
        FitCall(f, OnField("chan_int", c, IF e THEN s ELSE {}, s,
                           Adc_Channel_Interrupt_Set_Config(f, c, s, e)))
  BY ChannelInterruptFits, FitCalls DEF OnField
<1>5. \A s \in Sources : FitCall(f, AskChannel(c, Adc_Channel_Interrupt_Clear_Status(f, c, s)))
  <2>1. TRUE \in BOOLEAN
    OBVIOUS
  <2> QED BY <2>1, ChannelInterruptFits, FitCalls DEF AskChannel, Query
<1>6. ASSUME NEW d
      PROVE  /\ FitPlan(f, <<"filter", c>>, d, Width(8), Adc_Channel_Set_Filter(f, c, d))
             /\ FitPlan(f, <<"none">>, {}, {}, Adc_Channel_Get_Filter(f, c, d))
  <2>1. CASE AdcChannelOk(f, c)
    <3> DEFINE start == AdcChannel(f, c, ADC_CHAN.FILTER)
    <3>1. FreeFor(f, start, 1) /\ 8 = 8 * 1
      BY <1>1, <2>1
    <3>2. /\ <<"none">>[1] \notin Known(f)
          /\ <<"filter", c>>[1] \notin Known(f)
      BY PlainFields
    <3> HIDE DEF start
    <3>3. /\ FitPlan(f, <<"filter", c>>, d, Width(8), OnChannel(f, c, <<Write(start, 8, d)>>))
          /\ FitPlan(f, <<"none">>, {}, {}, OnChannel(f, c, <<Write(start, 8, d)>>))
      BY <3>1, <3>2, FreePlans
    <3> QED BY <3>3 DEF Adc_Channel_Set_Filter, Adc_Channel_Get_Filter, start
  <2>2. CASE ~AdcChannelOk(f, c)
    BY <2>2, FitPlans DEF Adc_Channel_Set_Filter, Adc_Channel_Get_Filter
  <2> QED BY <2>1, <2>2
<1>7. \A d : FitCall(f, OnField("filter", c, d, Width(8), Adc_Channel_Set_Filter(f, c, d)))
  BY <1>6, FitCalls DEF OnField
<1>8. \A d : FitCall(f, Asking("filter", AskChannel(c, Adc_Channel_Get_Filter(f, c, d))))
  <2>1. "filter" # "unchecked"
    OBVIOUS
  <2> QED BY <1>6, <2>1, FitCalls DEF Asking, AskChannel, Query
<1>9. ASSUME NEW k
      PROVE  /\ FitPlan(f, <<"low", c>>, Bits(k), Width(32), Adc_Channel_Set_Low_Threshold(f, c, k))
             /\ FitPlan(f, <<"high", c>>, Bits(k), Width(32),
                        Adc_Channel_Set_High_Threshold(f, c, k))
  <2>1. CASE AdcChannelOk(f, c)
    BY <1>1, <2>1, WordPlans DEF Adc_Channel_Set_Low_Threshold, Adc_Channel_Set_High_Threshold
  <2>2. CASE ~AdcChannelOk(f, c)
    BY <2>2, FitPlans DEF Adc_Channel_Set_Low_Threshold, Adc_Channel_Set_High_Threshold
  <2> QED BY <2>1, <2>2
<1>10. \A k : /\ FitCall(f, OnField("low", c, Bits(k), Width(32),
                                    Adc_Channel_Set_Low_Threshold(f, c, k)))
              /\ FitCall(f, OnField("high", c, Bits(k), Width(32),
                                    Adc_Channel_Set_High_Threshold(f, c, k)))
  BY <1>9, FitCalls DEF OnField
<1>11. FitCall(f, AskFifo(c, Adc_Fifo_Channel_Read(f, c)))
  <2>1. FitPlan(f, <<"none">>, {}, {}, Adc_Fifo_Channel_Read(f, c))
    <3>1. Rejected("EPERM").errno # "none" /\ "EPERM" # "none"
      BY DEF Rejected
    <3>2. FitPlan(f, <<"none">>, {}, {}, Rejected("EPERM"))
      BY <3>1, FitPlans
    <3>3. \A start : FitPlan(f, <<"none">>, {}, {}, OnChannel(f, c, <<Read(start, 32)>>))
      BY ReadPlans, PlainFields
    <3> QED BY <3>2, <3>3 DEF Adc_Fifo_Channel_Read
  <2> QED BY <2>1, FitCalls DEF AskFifo, Query
<1> DEFINE interrupts == {OnField("chan_int", c, IF e THEN s ELSE {}, s,
                                  Adc_Channel_Interrupt_Set_Config(f, c, s, e)) :
                            s \in Sources, e \in BOOLEAN}
<1>12. \A y \in interrupts : FitCall(f, y)
  BY <1>4
<1>13. CASE x \in interrupts
  BY <1>12, <1>13
<1>14. CASE x \notin interrupts
  <2>1. FitCall(f, x)
    BY ONLY <1>2, <1>3, <1>5, <1>7, <1>8, <1>10, <1>11, <1>14, x \in AdcChannelCalls(f, c)
      DEF AdcChannelCalls
  <2> QED BY <2>1
<1> QED BY <1>13, <1>14

(* The configuration of a block's interrupts, likewise.                    *)
LEMMA BlockInterruptFits ==
  ASSUME NEW f, Descriptor(f), f.type # FUNC_BLOCK.EXT_CLOCKING, NEW s \in Sources,
         NEW on \in BOOLEAN, NEW clear, NEW enable,
         clear = Write(AdcReg(f, ADC.INT_STAT), 16, s),
         enable = Write(AdcReg(f, ADC.INT_ENABLE), 32,
                        Get_Maskable(IF on THEN Width(16) ELSE {}, s))
  PROVE  /\ FitPlan(f, <<"none">>, {}, {}, Request(<<clear>>))
         /\ FitPlan(f, <<"int_config">>, IF on THEN s ELSE {}, s,
                    Then(IF on THEN Request(<<clear>>) ELSE Request(<<>>), Request(<<enable>>)))
<1> DEFINE F == <<"int_config">>
           o == <<"block">>
           set == IF on THEN s ELSE {}
           data == Get_Maskable(IF on THEN Width(16) ELSE {}, s)
<1>1. /\ o \in Owners(f)
      /\ AdcReg(f, ADC.INT_STAT) = Base(f, o) + 30 /\ AdcReg(f, ADC.INT_ENABLE) = Base(f, o) + 24
  <2>1. ADC.INT_STAT = 30 /\ ADC.INT_ENABLE = 24
    BY DEF ADC
  <2> QED BY <2>1, BlockStarts
<1>2. f.type \in {FUNC_BLOCK.ADC, FUNC_BLOCK.DAC, FUNC_BLOCK.ADIO}
  BY DEF Descriptor, Blocks4
<1>3. HalfRow(F, o, 24) \in Layout(f)
  <2>1. /\ HalfRow(F, o, 24) \in AdcBlockRows /\ HalfRow(F, o, 24) \in DacBlockRows
        /\ HalfRow(F, o, 24) \in AdioBlockRows
    BY DEF AdcBlockRows, DacBlockRows, AdioBlockRows
  <2> QED BY <1>2, <2>1, InLayout
<1>9. AdcReg(f, ADC.INT_ENABLE) \in Maskable(f)
  BY <1>1, <1>2, SpecialRegisters DEF FUNC_BLOCK
<1>4. FreeAt(f, o, 30, 2)
  BY <1>2, FreeBlockPlaces
<1> HIDE DEF o
<1>5. Misses(f, clear)
  <2>1. clear.offset = Base(f, o) + 30 /\ clear.size = 8 * 2
    BY <1>1 DEF Write, Access
  <2> QED BY <1>1, <1>4, <2>1, FreeMisses
<1>6. Lands(f, F, set, s, enable)
  <2>1. \A b \in Width(16) : /\ b \in data <=> b \in s
                             /\ b \in s => (b + 16 \in data <=> b \in set)
    <3>1. \A b \in Width(16) : /\ b \in data <=> b \in s
                               /\ b + 16 \in data <=> b \in (IF on THEN Width(16) ELSE {})
      BY MaskableBits
    <3> QED BY <3>1
  <2>2. set \cap s \cap Width(32) \subseteq Width(16)
    BY SourceBits
  <2>3. enable = Write(AdcReg(f, ADC.INT_ENABLE), 32, data)
    OBVIOUS
  <2> HIDE DEF set, data, F
  <2> QED BY <1>1, <1>3, <1>9, <2>1, <2>2, <2>3, HalfSet
<1>7. FitPlan(f, <<"none">>, {}, {}, Request(<<clear>>))
  <2>1. Lands(f, <<"none">>, {}, {}, clear)
    BY <1>5, PlainFields DEF Lands
  <2> QED BY <2>1, FitOne, FitPlans
<1> DEFINE plan == Then(IF on THEN Request(<<clear>>) ELSE Request(<<>>), Request(<<enable>>))
<1>8. FitPlan(f, F, set, s, plan)
  <2>1. CASE on
    <3>1. plan.accesses = <<clear, enable>>
      BY <2>1, TwoRequests
    <3> HIDE DEF plan, set, F
    <3>2. Fit(f, F, set, s, <<clear, enable>>)
      BY <1>5, <1>6, FitTwo
    <3> QED BY <3>1, <3>2 DEF FitPlan
  <2>2. CASE ~on
    <3>1. plan = Request(<<enable>>)
      BY <2>2, TwoRequests
    <3> HIDE DEF plan, set, F
    <3> QED BY <1>6, <3>1, FitOne, FitPlans
  <2> QED BY <2>1, <2>2
<1> QED BY <1>7, <1>8

(* The calls about the interrupts of a block fit.                          *)
LEMMA InterruptsFit ==
  ASSUME NEW f, Descriptor(f), f.type # FUNC_BLOCK.EXT_CLOCKING
  PROVE  /\ \A x \in AdcInterrupts(f) : FitCall(f, x)
         /\ \A x \in DacInterrupts(f) : FitCall(f, x)
         /\ \A x \in AdioInterrupts(f) : FitCall(f, x)
<1> DEFINE clear(s) == Write(AdcReg(f, ADC.INT_STAT), 16, s)
           enable(s, on) == Write(AdcReg(f, ADC.INT_ENABLE), 32,
                                  Get_Maskable(IF on THEN Width(16) ELSE {}, s))
           config(s, on) == Then(IF on THEN Request(<<clear(s)>>) ELSE Request(<<>>),
                                 Request(<<enable(s, on)>>))
<1>1. ASSUME NEW s \in Sources, NEW on \in BOOLEAN
      PROVE  /\ FitCall(f, AskBlock(Request(<<clear(s)>>)))
             /\ FitCall(f, OnIntConfig(s, on, config(s, on)))
  <2>1. /\ FitPlan(f, <<"none">>, {}, {}, Request(<<clear(s)>>))
        /\ FitPlan(f, <<"int_config">>, IF on THEN s ELSE {}, s, config(s, on))
    BY BlockInterruptFits
  <2> HIDE DEF clear, config
  <2> QED BY <2>1, FitCalls DEF AskBlock, Query, OnIntConfig
<1>2. \A s : /\ Adc_Interrupt_Clear_Status(f, s) = Request(<<clear(s)>>)
             /\ Dac_Interrupt_Clear_Status(f, s) = Request(<<clear(s)>>)
             /\ Adio_Interrupt_Clear_Status(f, s) = Request(<<clear(s)>>)
  BY DEF Adc_Interrupt_Clear_Status, Dac_Interrupt_Clear_Status, Adio_Interrupt_Clear_Status,
         AdcReg, DacReg, AdioReg, ADC, DAC, ADIO
<1>3. \A s, on : /\ Adc_Interrupt_Set_Config(f, s, on) = config(s, on)
                 /\ Dac_Interrupt_Set_Config(f, s, on) = config(s, on)
                 /\ Adio_Interrupt_Set_Config(f, s, on) = config(s, on)
  BY <1>2 DEF Adc_Interrupt_Set_Config, Dac_Interrupt_Set_Config, Adio_Interrupt_Set_Config,
         AdcReg, DacReg, AdioReg, ADC, DAC, ADIO
<1> HIDE DEF clear, config
<1>4. \A s \in Sources, on \in BOOLEAN :
        /\ FitCall(f, AskBlock(Adc_Interrupt_Clear_Status(f, s)))
        /\ FitCall(f, AskBlock(Dac_Interrupt_Clear_Status(f, s)))
        /\ FitCall(f, AskBlock(Adio_Interrupt_Clear_Status(f, s)))
  BY <1>1, <1>2
<1>5. \A s \in Sources, on \in BOOLEAN :
        /\ FitCall(f, OnIntConfig(s, on, Adc_Interrupt_Set_Config(f, s, on)))
        /\ FitCall(f, OnIntConfig(s, on, Dac_Interrupt_Set_Config(f, s, on)))
        /\ FitCall(f, OnIntConfig(s, on, Adio_Interrupt_Set_Config(f, s, on)))
  BY <1>1, <1>3
<1>6. ASSUME NEW x \in AdcInterrupts(f)
      PROVE  FitCall(f, x)
  <2> DEFINE configs == {OnIntConfig(s, e, Adc_Interrupt_Set_Config(f, s, e)) :
                           s \in Sources, e \in BOOLEAN}
             clears == {AskBlock(Adc_Interrupt_Clear_Status(f, s)) : s \in Sources}
  <2>1. x \in configs \/ x \in clears
    BY DEF AdcInterrupts, IntConfig
  <2>2. \A y \in configs : FitCall(f, y)
    BY <1>5
  <2>3. \A y \in clears : FitCall(f, y)
    BY <1>4
  <2> QED BY <2>1, <2>2, <2>3
<1>7. ASSUME NEW x \in DacInterrupts(f)
      PROVE  FitCall(f, x)
  <2> DEFINE configs == {OnIntConfig(s, e, Dac_Interrupt_Set_Config(f, s, e)) :
                           s \in Sources, e \in BOOLEAN}
             clears == {AskBlock(Dac_Interrupt_Clear_Status(f, s)) : s \in Sources}
  <2>1. x \in configs \/ x \in clears
    BY DEF DacInterrupts, IntConfig
  <2>2. \A y \in configs : FitCall(f, y)
    BY <1>5
  <2>3. \A y \in clears : FitCall(f, y)
    BY <1>4
  <2> QED BY <2>1, <2>2, <2>3
<1>8. ASSUME NEW x \in AdioInterrupts(f)
      PROVE  FitCall(f, x)
  <2> DEFINE configs == {OnIntConfig(s, e, Adio_Interrupt_Set_Config(f, s, e)) :
                           s \in Sources, e \in BOOLEAN}
             clears == {AskBlock(Adio_Interrupt_Clear_Status(f, s)) : s \in Sources}
  <2>1. x \in configs \/ x \in clears
    BY DEF AdioInterrupts, IntConfig
  <2>2. \A y \in configs : FitCall(f, y)
    BY <1>5
  <2>3. \A y \in clears : FitCall(f, y)
    BY <1>4
  <2> QED BY <2>1, <2>2, <2>3
<1> QED BY <1>6, <1>7, <1>8

(* The calls that give a rate fit: they write the divider.                 *)
LEMMA RatesFit ==
  ASSUME NEW f, Descriptor(f), NEW m
  PROVE  /\ f.type = FUNC_BLOCK.ADC => \A x \in AdcRates(m, f) : FitCall(f, x)
         /\ f.type = FUNC_BLOCK.DAC => \A x \in DacRates(m, f) : FitCall(f, x)
         /\ f.type = FUNC_BLOCK.ADIO => \A x \in AdioRates(m, f) : FitCall(f, x)
<1> DEFINE clock == Gbc_Get_Sys_Clock_Freq(m)
           o == <<"block">>
           F == <<"clk_div">>
<1>1. \A plan : plan.errno # "none" => FitCall(f, AskBlock(plan))
  BY FitCalls DEF FitPlan, AskBlock, Query
<1>2. \A plan, n : FitPlan(f, F, plan.accesses[1].data, Width(32), plan)
                     => FitCall(f, Rated("clk_div", m, plan, n))
  BY FitCalls DEF Rated, OfBlock
<1>3. /\ o \in Owners(f)
      /\ AdcReg(f, ADC.CLK_DIV) = Base(f, o) + 4 /\ DacReg(f, DAC.CLK_DIV) = Base(f, o) + 4
      /\ AdioReg(f, ADIO.CLK_DIV) = Base(f, o) + 4
  BY BlockStarts, BlockPlaces
<1>4. f.type \in {FUNC_BLOCK.ADC, FUNC_BLOCK.ADIO, FUNC_BLOCK.DAC} => WordSet(f, F, Base(f, o) + 4)
  <2>1. f.type \in {FUNC_BLOCK.ADC, FUNC_BLOCK.ADIO, FUNC_BLOCK.DAC} => WordRow(F, o, 4) \in Layout(f)
    BY InLayout DEF AdcBlockRows, DacBlockRows, AdioBlockRows
  <2> HIDE DEF F, o
  <2> QED BY <2>1, SetPlaces
<1> HIDE DEF o
<1>5. ASSUME NEW plan, NEW d, plan = Request(<<Write(Base(f, o) + 4, 32, d)>>),
             f.type \in {FUNC_BLOCK.ADC, FUNC_BLOCK.ADIO, FUNC_BLOCK.DAC}
      PROVE  FitPlan(f, F, plan.accesses[1].data, Width(32), plan)
  <2> DEFINE start == Base(f, o) + 4
             a == Write(start, 32, d)
  <2>1. plan.accesses[1].data = d
    BY <1>5 DEF Request, Write, Access
  <2> HIDE DEF F, start
  <2>2. WordSet(f, F, start)
    BY <1>4, <1>5 DEF start
  <2> QED BY <1>5, <2>1, <2>2, WordPlans DEF start
<1>6. ASSUME NEW errno, errno # "none", NEW d
      PROVE  FitPlan(f, F, d, Width(32), Rejected(errno))
  BY <1>6, FitPlans
<1> HIDE DEF F
<1>7. ASSUME f.type = FUNC_BLOCK.ADC
      PROVE  \A x \in AdcRates(m, f) : FitCall(f, x)
  <2>1. ASSUME NEW r
        PROVE  FitPlan(f, F, Adc_Set_Sample_Rate(m, f, r).accesses[1].data, Width(32),
                       Adc_Set_Sample_Rate(m, f, r))
    <3> DEFINE plan == Adc_Set_Sample_Rate(m, f, r)
    <3>1. \/ \E errno : errno # "none" /\ plan = Rejected(errno)
          \/ \E d : plan = Adc_Set_Clk_Divider(f, d)
      <4>1. "EINVAL" # "none" /\ "ENODEV" # "none"
        OBVIOUS
      <4>2. CASE r \notin 1 .. ADC_MAX_RATE
        BY <4>1, <4>2 DEF Adc_Set_Sample_Rate
      <4>3. CASE r \in 1 .. ADC_MAX_RATE /\ ~Gbc_Get_Sys_Clock_Freq(m).is_std_clk
        BY <4>1, <4>3 DEF Adc_Set_Sample_Rate
      <4>4. CASE r \in 1 .. ADC_MAX_RATE /\ Gbc_Get_Sys_Clock_Freq(m).is_std_clk
        <5>1. plan = Adc_Set_Clk_Divider(f, Bits(AdcDivider(Gbc_Get_Sys_Clock_Freq(m).freq, r) - 1))
          BY <4>4 DEF Adc_Set_Sample_Rate
        <5> QED BY <5>1
      <4> QED BY <4>2, <4>3, <4>4
    <3>2. \A d : Adc_Set_Clk_Divider(f, d) = Request(<<Write(Base(f, o) + 4, 32, d)>>)
      BY <1>3 DEF Adc_Set_Clk_Divider
    <3> HIDE DEF plan
    <3>3. FitPlan(f, F, plan.accesses[1].data, Width(32), plan)
      BY <1>5, <1>6, <1>7, <3>1, <3>2
    <3> QED BY <3>3 DEF plan
  <2>2. \A r, n : FitCall(f, Rated("clk_div", m, Adc_Set_Sample_Rate(m, f, r), n))
    BY <1>2, <2>1 DEF F
  <2> QED BY <1>1, <2>2 DEF AdcRates, RateCalls
<1>8. ASSUME NEW r, NEW max, NEW start, start = Base(f, o) + 4,
             f.type \in {FUNC_BLOCK.ADIO, FUNC_BLOCK.DAC}
      PROVE  FitPlan(f, F, PacerRate(m, r, max, start).accesses[1].data, Width(32),
                     PacerRate(m, r, max, start))
  <2> DEFINE plan == PacerRate(m, r, max, start)
  <2>1. \/ \E errno : errno # "none" /\ plan = Rejected(errno)
        \/ \E d : plan = Request(<<Write(start, 32, d)>>)
    <3>1. "EINVAL" # "none" /\ "ENODEV" # "none"
      OBVIOUS
    <3>2. CASE r \notin 1 .. max
      BY <3>1, <3>2 DEF PacerRate
    <3>3. CASE r \in 1 .. max /\ ~Gbc_Get_Sys_Clock_Freq(m).is_std_clk
      BY <3>1, <3>3 DEF PacerRate
    <3>4. CASE r \in 1 .. max /\ Gbc_Get_Sys_Clock_Freq(m).is_std_clk
      <4>1. plan = Request(<<Write(start, 32,
                                   Bits(PacerDivider(Gbc_Get_Sys_Clock_Freq(m).freq \div r)))>>)
        BY <3>4 DEF PacerRate
      <4> QED BY <4>1
    <3> QED BY <3>2, <3>3, <3>4
  <2> HIDE DEF plan
  <2>2. FitPlan(f, F, plan.accesses[1].data, Width(32), plan)
    BY <1>5, <1>6, <1>8, <2>1
  <2> QED BY <2>2 DEF plan
<1>9. ASSUME f.type = FUNC_BLOCK.DAC
      PROVE  \A x \in DacRates(m, f) : FitCall(f, x)
  <2>1. \A r : FitPlan(f, F, Dac_Set_Conversion_Rate(m, f, r).accesses[1].data, Width(32),
                       Dac_Set_Conversion_Rate(m, f, r))
    BY <1>3, <1>8, <1>9 DEF Dac_Set_Conversion_Rate
  <2>2. \A r, n : FitCall(f, Rated("clk_div", m, Dac_Set_Conversion_Rate(m, f, r), n))
    BY <1>2, <2>1 DEF F
  <2> QED BY <1>1, <2>2 DEF DacRates, RateCalls
<1>10. ASSUME f.type = FUNC_BLOCK.ADIO
       PROVE  \A x \in AdioRates(m, f) : FitCall(f, x)
  <2>1. \A r : FitPlan(f, F, Adio_Set_Pacer_Clk_Rate(m, f, r).accesses[1].data, Width(32),
                       Adio_Set_Pacer_Clk_Rate(m, f, r))
    BY <1>3, <1>8, <1>10 DEF Adio_Set_Pacer_Clk_Rate
  <2>2. \A r, n : FitCall(f, Rated("clk_div", m, Adio_Set_Pacer_Clk_Rate(m, f, r), n))
    BY <1>2, <2>1 DEF F
  <2> QED BY <1>1, <2>2 DEF AdioRates, RateCalls
<1> QED BY <1>7, <1>9, <1>10

(* The calls about the block of a DAC fit.                                 *)
LEMMA DacBlockFits ==
  ASSUME NEW f, Descriptor(f), f.type = FUNC_BLOCK.DAC, NEW x \in DacBlockCalls(f)
  PROVE  FitCall(f, x)
<1> DEFINE o == <<"block">>
<1>1. /\ o \in Owners(f) /\ DacBlockRows \subseteq Layout(f)
      /\ \A n : DacReg(f, n) = Base(f, o) + n
  BY BlockStarts, InLayout
<1>2. /\ ByteRow(<<"clock_src">>, o, 1) \in Layout(f)
      /\ ByteRow(<<"start_trigger">>, o, 2) \in Layout(f)
      /\ ByteRow(<<"stop_trigger">>, o, 3) \in Layout(f)
      /\ WordRow(<<"clk_div">>, o, 4) \in Layout(f)
      /\ WordRow(<<"post">>, o, 16) \in Layout(f)
  BY <1>1 DEF DacBlockRows
<1>3. FreeAt(f, o, 0, 1) /\ \A n \in 34 .. 39 : FreeAt(f, o, n, 1)
  BY FreeBlockPlaces
<1> HIDE DEF o
<1>4. /\ ByteSet(f, <<"clock_src">>, DacReg(f, DAC.CLK_SRC))
      /\ ByteSet(f, <<"start_trigger">>, DacReg(f, DAC.START_TRIG))
      /\ ByteSet(f, <<"stop_trigger">>, DacReg(f, DAC.STOP_TRIG))
      /\ WordSet(f, <<"clk_div">>, DacReg(f, DAC.CLK_DIV))
      /\ WordSet(f, <<"post">>, DacReg(f, DAC.POST_STOP_CONV))
  BY <1>1, <1>2, BlockPlaces, SetPlaces
<1>5. /\ FreeFor(f, DacReg(f, DAC.MODE_STATUS), 1)
      /\ \A b \in Buses : FreeFor(f, DacReg(f, BusRegister(DAC.CLK_BUS2, b)), 1)
  <2>1. FreeFor(f, DacReg(f, DAC.MODE_STATUS), 1)
    BY <1>1, <1>3, BlockPlaces, FreePlace
  <2>2. ASSUME NEW b \in Buses
        PROVE  FreeFor(f, DacReg(f, BusRegister(DAC.CLK_BUS2, b)), 1)
    <3> DEFINE n == BusRegister(DAC.CLK_BUS2, b)
    <3>1. n \in 34 .. 39
      BY BlockPlaces DEF BusRegister, Buses
    <3> HIDE DEF n
    <3>2. n \in Nat /\ FreeAt(f, o, n, 1) /\ DacReg(f, n) = Base(f, o) + n
      BY <1>1, <1>3, <3>1
    <3>3. FreeFor(f, DacReg(f, n), 1)
      BY <1>1, <3>2, FreePlace
    <3> QED BY <3>3 DEF n
  <2> QED BY <2>1, <2>2
<1>6. \A k : /\ FitPlan(f, <<"start_trigger">>, Bits(k), Width(32), Dac_Set_Start_Trigger(f, k))
             /\ FitPlan(f, <<"stop_trigger">>, Bits(k), Width(32), Dac_Set_Stop_Trigger(f, k))
  <2>1. \A k : Dac_Validate_Trigger(k) => k \in 0 .. 255
    BY DEF Dac_Validate_Trigger, ClockSources
  <2> QED BY <1>4, <2>1, BytePlans DEF Dac_Set_Start_Trigger, Dac_Set_Stop_Trigger
<1>7. \A k \in Codes : FitPlan(f, <<"clock_src">>, Bits(k), Width(32), Dac_Set_Clock_Src(f, k))
  <2>1. \A k \in Codes : Bits(k) \subseteq Width(8)
    BY SmallBits DEF Codes
  <2> QED BY <1>4, <2>1, BytePlans DEF Dac_Set_Clock_Src
<1>8. \A d : /\ FitPlan(f, <<"post">>, d, Width(32), Dac_Set_Post_Stop_Conversion_Count(f, d))
             /\ FitPlan(f, <<"clk_div">>, d, Width(32), Dac_Set_Clock_Div(f, d))
  BY <1>4, WordPlans DEF Dac_Set_Post_Stop_Conversion_Count, Dac_Set_Clock_Div
<1>9. ASSUME NEW b, NEW k
      PROVE  FitPlan(f, <<"bus", b>>, Bits(k), Width(8), Dac_Set_Clock_Source_Global(f, b, k))
  <2>1. CASE b \in Buses
    <3> DEFINE F == <<"bus", b>>
    <3>1. F[1] = "bus"
      OBVIOUS
    <3> HIDE DEF F
    <3>2. F[1] \notin Known(f)
      BY <3>1, NotKnown
    <3>3. FitPlan(f, F, Bits(k), Width(8), Dac_Set_Clock_Source_Global(f, b, k))
      BY <1>5, <2>1, <3>2, FreePlans DEF Dac_Set_Clock_Source_Global
    <3> QED BY <3>3 DEF F
  <2>2. CASE b \notin Buses
    BY <2>2, FitPlans DEF Dac_Set_Clock_Source_Global, Dac_Validate_Clock_Global_Src_Args
  <2> QED BY <2>1, <2>2
<1>10. \A k : FitPlan(f, <<"none">>, {}, {}, DacMode(f, k))
  BY <1>5, FreePlans, PlainFields DEF DacMode
<1>11. \A p \in {Dac_Start(f), Dac_Reset(f), Dac_Pause(f)} : FitPlan(f, <<"none">>, {}, {}, p)
  BY <1>10 DEF Dac_Start, Dac_Reset, Dac_Pause
<1>12. \A k : /\ FitCall(f, OfBlock("start_trigger", Bits(k), Dac_Set_Start_Trigger(f, k)))
              /\ FitCall(f, OfBlock("stop_trigger", Bits(k), Dac_Set_Stop_Trigger(f, k)))
  BY <1>6, FitCalls DEF OfBlock
<1>13. \A k \in Codes : FitCall(f, OfBlock("clock_src", Bits(k), Dac_Set_Clock_Src(f, k)))
  BY <1>7, FitCalls DEF OfBlock
<1>14. \A d : /\ FitCall(f, OfBlock("post", d, Dac_Set_Post_Stop_Conversion_Count(f, d)))
              /\ FitCall(f, OfBlock("clk_div", d, Dac_Set_Clock_Div(f, d)))
  BY <1>8, FitCalls DEF OfBlock
<1>15. \A b, k : FitCall(f, OnBusField("bus", b, Bits(k), Dac_Set_Clock_Source_Global(f, b, k)))
  BY <1>9, FitCalls DEF OnBusField
<1>16. \A p \in {Dac_Start(f), Dac_Reset(f), Dac_Pause(f)} : FitCall(f, AskBlock(p))
  BY <1>11, FitCalls DEF AskBlock, Query
<1> QED BY ONLY <1>12, <1>13, <1>14, <1>15, <1>16, x \in DacBlockCalls(f) DEF DacBlockCalls

(* A FIFO holds no field.                                                  *)
LEMMA FifoFree ==
  ASSUME NEW f, Descriptor(f), NEW c, AdcChannelOk(f, c)
  PROVE  /\ f.type = FUNC_BLOCK.DAC =>
              FreeFor(f, f.fb_offset + DAC_CHAN.FIFO_START + c * DAC_CHAN.FIFO_SIZE, 4)
         /\ f.type = FUNC_BLOCK.ADIO => FreeFor(f, AdioFifo(f, c), 4)
<1> DEFINE o == <<"fifo", c>>
<1>1. c \in 0 .. f.num_dma_channels - 1
  BY DEF AdcChannelOk
<1>2. f.num_dma_channels \in 0 .. ChannelSlots(f)
  BY DEF Descriptor, WellPlaced
<1>3. ChannelSlots(f) \in Nat
  BY Sizes
<1>4. c \in 0 .. ChannelSlots(f) - 1 /\ c \in Nat
  BY <1>1, <1>2, <1>3
<1>5. f.type # FUNC_BLOCK.EXT_CLOCKING => o \in Owners(f)
  BY <1>4 DEF Owners
<1>6. FreeAt(f, o, 0, 4)
  BY FreeChannelPlaces
<1>7. f.fb_offset \in Nat
  BY Sizes
<1>8. ASSUME f.type = FUNC_BLOCK.DAC
      PROVE  FreeFor(f, f.fb_offset + DAC_CHAN.FIFO_START + c * DAC_CHAN.FIFO_SIZE, 4)
  <2> DEFINE start == f.fb_offset + DAC_CHAN.FIFO_START + c * DAC_CHAN.FIFO_SIZE
  <2>1. o \in Owners(f)
    BY <1>5, <1>8 DEF FUNC_BLOCK
  <2>2. Base(f, o) = f.fb_offset + 132 + 4 * c
    BY <1>8 DEF Base, FUNC_BLOCK
  <2>3. start = Base(f, o) + 0
    BY <1>4, <1>7, <2>2 DEF DAC_CHAN
  <2> HIDE DEF start, o
  <2>4. FreeFor(f, start, 4)
    BY <1>6, <2>1, <2>3, FreePlace
  <2> QED BY <2>4 DEF start
<1>9. ASSUME f.type = FUNC_BLOCK.ADIO
      PROVE  FreeFor(f, AdioFifo(f, c), 4)
  <2> DEFINE start == AdioFifo(f, c)
  <2>1. o \in Owners(f)
    BY <1>5, <1>9 DEF FUNC_BLOCK
  <2>2. Base(f, o) = f.fb_offset + 80 + 4 * c
    BY <1>9 DEF Base, FUNC_BLOCK
  <2>3. start = Base(f, o) + 0
    BY <1>4, <1>7, <2>2 DEF ADIO_CHAN, AdioFifo
  <2> HIDE DEF start, o
  <2>4. FreeFor(f, start, 4)
    BY <1>6, <2>1, <2>3, FreePlace
  <2> QED BY <2>4 DEF start
<1> QED BY <1>8, <1>9

(* And those about a channel of it.                                        *)
LEMMA DacChannelFits ==
  ASSUME NEW f, Descriptor(f), f.type = FUNC_BLOCK.DAC, NEW c \in Nat, NEW x \in DacChannelCalls(f, c)
  PROVE  FitCall(f, x)
<1> DEFINE o == <<"channel", c>>
           F == <<"fe_config", c>>
<1>1. c < NUM_DAC_DMA_CHANNELS => /\ DacFrontEnd(f, c) = Base(f, o) + 0
                                  /\ HalfRow(F, o, 0) \in Layout(f)
  <2> SUFFICES ASSUME c < NUM_DAC_DMA_CHANNELS
               PROVE  DacFrontEnd(f, c) = Base(f, o) + 0 /\ HalfRow(F, o, 0) \in Layout(f)
    OBVIOUS
  <2>1. c \in 0 .. 3 /\ c \in RowChannels(f)
    BY DEF NUM_DAC_DMA_CHANNELS, RowChannels
  <2>2. DacFrontEnd(f, c) = Base(f, o) + 0
    BY <2>1, OnDacChannel, ChannelPlaces DEF DacFrontEnd
  <2>3. HalfRow(F, o, 0) \in Layout(f)
    BY <2>1, InLayout DEF DacChannelRows
  <2> QED BY <2>2, <2>3
<1>2. F[1] \notin Answered[f.type]
  <2>1. F[1] = "fe_config"
    OBVIOUS
  <2> HIDE DEF F
  <2> QED BY <2>1 DEF Answered, FUNC_BLOCK
<1> HIDE DEF F, o
<1>3. ASSUME NEW set, NEW of, NEW v, NEW d, of \cap Width(32) \subseteq Width(16),
             \A b \in Width(16) : /\ b \in d <=> b \in of
                                  /\ b \in of => (b + 16 \in d <=> b \in set)
      PROVE  FitPlan(f, F, set, of, Checked(v /\ c < NUM_DAC_DMA_CHANNELS,
                                            <<Write(DacFrontEnd(f, c), 32, d)>>))
  <2> DEFINE a == Write(DacFrontEnd(f, c), 32, d)
  <2>1. set \cap of \cap Width(32) \subseteq Width(16)
    BY <1>3
  <2>2. c < NUM_DAC_DMA_CHANNELS => Lands(f, F, set, of, a)
    BY <1>1, <1>2, <1>3, <2>1, HalfSet
  <2> HIDE DEF a
  <2>3. c < NUM_DAC_DMA_CHANNELS => Fit(f, F, set, of, <<a>>)
    BY <2>2, FitOne
  <2>4. FitPlan(f, F, set, of, Checked(v /\ c < NUM_DAC_DMA_CHANNELS, <<a>>))
    BY <2>3, FitPlans
  <2> QED BY <2>4 DEF a
<1>4. /\ \A r : FitPlan(f, F, Bits(DAC_FE_CONFIG.ENABLE + r.code), Width(3),
                        Dac_Channel_Setup(f, c, r))
      /\ FitPlan(f, F, {}, Width(16), Dac_Channel_Reset(f, c))
  <2>1. ASSUME NEW r
        PROVE  FitPlan(f, F, Bits(DAC_FE_CONFIG.ENABLE + r.code), Width(3),
                       Dac_Channel_Setup(f, c, r))
    <3> DEFINE mask == Bits(DAC_FE_CONFIG.ENABLE + DAC_FE_CONFIG.GAIN + DAC_FE_CONFIG.POLARITY)
               set == Bits(DAC_FE_CONFIG.ENABLE + r.code)
               d == Get_Maskable(set, mask)
    <3>1. mask = Width(3)
      <4>1. DAC_FE_CONFIG.ENABLE + DAC_FE_CONFIG.GAIN + DAC_FE_CONFIG.POLARITY = 7
        BY DEF DAC_FE_CONFIG
      <4>2. Bits(7) = 0 .. 2
        <5>1. /\ 7 % 2 = 1 /\ (7 \div 2) % 2 = 1 /\ (7 \div 4) % 2 = 1 /\ (7 \div 8) % 2 = 0
              /\ (7 \div 16) % 2 = 0 /\ (7 \div 32) % 2 = 0 /\ (7 \div 64) % 2 = 0
              /\ (7 \div 128) % 2 = 0 /\ 7 \in 0 .. 255
          OBVIOUS
        <5> QED BY <5>1, ByteBits
      <4> QED BY <4>1, <4>2 DEF Width
    <3> HIDE DEF mask, set
    <3>2. \A b \in Width(16) : /\ b \in d <=> b \in Width(3)
                               /\ b \in Width(3) => (b + 16 \in d <=> b \in set)
      BY <3>1, MaskableBits
    <3>3. Width(3) \cap Width(32) \subseteq Width(16)
      BY DEF Width
    <3> DEFINE of == Width(3)
               v == Dac_Validate_Output_Range(r)
    <3> HIDE DEF d, of, v
    <3>4. FitPlan(f, F, set, of, Checked(v /\ c < NUM_DAC_DMA_CHANNELS,
                                         <<Write(DacFrontEnd(f, c), 32, d)>>))
      <4>1. of \cap Width(32) \subseteq Width(16)
        BY <3>3 DEF of
      <4>2. \A b \in Width(16) : /\ b \in d <=> b \in of
                                 /\ b \in of => (b + 16 \in d <=> b \in set)
        BY <3>2 DEF of
      <4> QED BY ONLY <1>3, <4>1, <4>2
    <3> QED BY <3>4 DEF Dac_Channel_Setup, set, mask, d, of, v
  <2>2. FitPlan(f, F, {}, Width(16), Dac_Channel_Reset(f, c))
    <3> DEFINE v == c < NUM_DAC_DMA_CHANNELS
               d == Get_Maskable({}, Width(16))
               s == <<Write(DacFrontEnd(f, c), 32, d)>>
    <3>1. FitPlan(f, F, {}, Width(16), Checked(TRUE /\ v, s))
      <4>1. \A b \in Width(16) : b \in d /\ b + 16 \notin d
        BY MaskableBits
      <4> HIDE DEF d
      <4> QED BY <1>3, <4>1
    <3>2. Checked(TRUE /\ v, s) = Checked(v, s)
      BY DEF Checked
    <3> QED BY <3>1, <3>2 DEF Dac_Channel_Reset
  <2> QED BY <2>1, <2>2
<1>5. \A r : FitCall(f, Ranged(r, OnField("fe_config", c, Bits(DAC_FE_CONFIG.ENABLE + r.code),
                                          Width(3), Dac_Channel_Setup(f, c, r))))
  BY <1>4, FitCalls DEF Ranged, OnField, F
<1>6. FitCall(f, OnField("fe_config", c, {}, Width(16), Dac_Channel_Reset(f, c)))
  BY <1>4, FitCalls DEF OnField, F
<1>7. ASSUME NEW d
      PROVE  FitPlan(f, <<"none">>, {}, {}, Dac_Fifo_Channel_Write(f, c, d))
  <2> DEFINE start == f.fb_offset + DAC_CHAN.FIFO_START + c * DAC_CHAN.FIFO_SIZE
             denied == AdcChannelOk(f, c) /\ ~HasFifo(f)
  <2>1. AdcChannelOk(f, c) => FreeFor(f, start, 4)
    BY FifoFree
  <2>2. Dac_Fifo_Channel_Write(f, c, d)
          = IF denied THEN Rejected("EPERM") ELSE OnChannel(f, c, <<Write(start, 32, d)>>)
    BY DEF Dac_Fifo_Channel_Write
  <2> HIDE DEF start, denied
  <2>3. FitPlan(f, <<"none">>, {}, {}, Rejected("EPERM"))
    <3>1. "EPERM" # "none"
      OBVIOUS
    <3> QED BY <3>1, FitPlans
  <2>4. FitPlan(f, <<"none">>, {}, {}, OnChannel(f, c, <<Write(start, 32, d)>>))
    <3>1. CASE AdcChannelOk(f, c)
      BY <2>1, <3>1, FreePlans, PlainFields
    <3>2. CASE ~AdcChannelOk(f, c)
      BY <3>2, FitPlans
    <3> QED BY <3>1, <3>2
  <2> QED BY <2>2, <2>3, <2>4
<1>8. \A d : FitCall(f, AskFifo(c, Dac_Fifo_Channel_Write(f, c, d)))
  BY <1>7, FitCalls DEF AskFifo, Query
<1> QED BY ONLY <1>5, <1>6, <1>8, x \in DacChannelCalls(f, c) DEF DacChannelCalls

(* And those that do not look at the number of the channel, for one that   *)
(* there is: the value that is converted is not a negative one.            *)
LEMMA DacTrustingFits ==
  ASSUME NEW f, Descriptor(f), f.type = FUNC_BLOCK.DAC, NEW c \in Channels(f),
         NEW x \in DacTrustingCalls(f, c)
  PROVE  FitCall(f, x)
<1> DEFINE o == <<"channel", c>>
           marker == <<"marker_config", c>>
           last == <<"last", c>>
<1>1. c \in DmaChannels(f) /\ c \in 0 .. 3
  <2>1. f.num_dma_channels \in Nat /\ f.num_dma_channels <= 4
    BY Sizes DEF Descriptor, WellPlaced, FUNC_BLOCK
  <2> QED BY <2>1, Arguments DEF DmaChannels
<1>2. o \in Owners(f) /\ \A n \in Nat : DacChannel(f, c, n) = Base(f, o) + n
  BY <1>1, OnDacChannel
<1>3. ByteRow(marker, o, 11) \in Layout(f) /\ WordRow(last, o, 16) \in Layout(f)
  BY <1>1, RowSlots, InLayout DEF DacChannelRows
<1>4. FreeAt(f, o, 10, 1)
  BY FreeChannelPlaces
<1> HIDE DEF o, marker, last
<1>5. /\ DacChannel(f, c, DAC_CHAN.MARKER_ENABLE) = Base(f, o) + 11
      /\ DacChannel(f, c, DAC_CHAN.LAST_CONVERSION) = Base(f, o) + 16
      /\ DacChannel(f, c, DAC_CHAN.MARKER_STATUS) = Base(f, o) + 10
  BY <1>2, ChannelPlaces
<1>6. /\ ByteSet(f, marker, DacChannel(f, c, DAC_CHAN.MARKER_ENABLE))
      /\ WordSet(f, last, DacChannel(f, c, DAC_CHAN.LAST_CONVERSION))
  BY <1>3, <1>5, SetPlaces
<1>7. FreeFor(f, DacChannel(f, c, DAC_CHAN.MARKER_STATUS), 1)
  BY <1>2, <1>4, <1>5, FreePlace
<1>8. \A d : FitPlan(f, marker, d, Width(8), Dac_Channel_Set_Marker_Config(f, c, d))
  BY <1>6, BytePlans DEF Dac_Channel_Set_Marker_Config
<1>9. \A s : FitPlan(f, <<"none">>, {}, {}, Dac_Channel_Clear_Marker_Status(f, c, s))
  BY <1>7, FreePlans, PlainFields DEF Dac_Channel_Clear_Marker_Status
<1>10. FitPlan(f, <<"none">>, {}, {}, Dac_Channel_Get_Marker_Status(f, c))
  BY ReadPlans, PlainFields DEF Dac_Channel_Get_Marker_Status
<1>11. ASSUME NEW k, NEW d \in Patterns(12)
       PROVE  FitPlan(f, last, Marked(k, d), Width(32), Dac_Set_Last_Conversion(f, c, k, d))
  <2>1. 15 \notin d
    BY DEF Patterns, Width
  <2>2. {b + 24 : b \in k} \cup SignExtended(d) = Marked(k, d)
    BY <2>1 DEF SignExtended, Marked
  <2>3. Dac_Set_Last_Conversion(f, c, k, d)
          = Request(<<Write(DacChannel(f, c, DAC_CHAN.LAST_CONVERSION), 32, Marked(k, d))>>)
    BY <2>2 DEF Dac_Set_Last_Conversion
  <2> QED BY <1>6, <2>3, WordPlans
<1>12. \A d : FitCall(f, OnField("marker_config", c, d, Width(8),
                                 Dac_Channel_Set_Marker_Config(f, c, d)))
  BY <1>8, FitCalls DEF OnField, marker
<1>13. \A s : FitCall(f, AskChannel(c, Dac_Channel_Clear_Marker_Status(f, c, s)))
  BY <1>9, FitCalls DEF AskChannel, Query
<1>14. FitCall(f, AskChannel(c, Dac_Channel_Get_Marker_Status(f, c)))
  BY <1>10, FitCalls DEF AskChannel, Query
<1>15. \A k, d : d \in Patterns(12) =>
          FitCall(f, OnField("last", c, Marked(k, d), Width(32), Dac_Set_Last_Conversion(f, c, k, d)))
  BY <1>11, FitCalls DEF OnField, last
<1> QED BY ONLY <1>12, <1>13, <1>14, <1>15, x \in DacTrustingCalls(f, c) DEF DacTrustingCalls

(* The call about a channel that there is not is a single access.          *)
LEMMA UncheckedFits ==
  ASSUME NEW f, Descriptor(f)
  PROVE  FitCall(f, Asking("unchecked", AskChannel(150, Dac_Set_Last_Conversion(f, 150, {0}, {0}))))
<1> DEFINE plan == Dac_Set_Last_Conversion(f, 150, {0}, {0})
           c == Asking("unchecked", AskChannel(150, plan))
<1>1. c.asks = "unchecked" /\ c.field = <<"none">> /\ c.plan = plan
  BY DEF Asking, AskChannel, Query, Call
<1>2. Len(plan.accesses) = 1
  BY DEF Dac_Set_Last_Conversion, Request
<1> HIDE DEF c, plan
<1>3. c.field[1] \notin Known(f)
  BY <1>1, PlainFields
<1>4. FitCall(f, c)
  BY <1>1, <1>2, <1>3 DEF FitCall
<1> QED BY <1>4 DEF c, plan

(* The calls about the block of an ADIO fit: it answers no divider, clock  *)
(* source or trigger.                                                      *)
LEMMA AdioBlockFits ==
  ASSUME NEW f, Descriptor(f), f.type = FUNC_BLOCK.ADIO, NEW x \in AdioBlockCalls(f)
  PROVE  FitCall(f, x)
<1> DEFINE o == <<"block">>
<1>1. o \in Owners(f) /\ \A n : AdioReg(f, n) = Base(f, o) + n
  BY BlockStarts
<1>2. AdioBlockRows \subseteq Layout(f)
  BY InLayout
<1>3. \A b \in Buses : ByteRow(<<"bus", b>>, o, 34 + (b - 2)) \in Layout(f)
  BY <1>2 DEF AdioBlockRows, BusRows
<1>4. /\ FreeAt(f, o, 0, 1) /\ FreeAt(f, o, 1, 1) /\ FreeAt(f, o, 2, 1) /\ FreeAt(f, o, 3, 1)
      /\ FreeAt(f, o, 12, 4) /\ FreeAt(f, o, 16, 4)
  BY FreeBlockPlaces
<1> HIDE DEF o
<1>20. WordSet(f, <<"clk_div">>, AdioReg(f, ADIO.CLK_DIV))
  <2>1. WordRow(<<"clk_div">>, o, 4) \in Layout(f)
    BY <1>2 DEF AdioBlockRows, o
  <2> QED BY <1>1, <2>1, BlockPlaces, SetPlaces
<1>5. \A b \in Buses : ByteSet(f, <<"bus", b>>, AdioReg(f, BusRegister(ADIO.CLK_BUS2, b)))
  BY <1>1, <1>3, BlockPlaces, SetPlaces DEF BusRegister
<1>6. /\ FreeFor(f, AdioReg(f, ADIO.MODE_STATUS), 1)
      /\ FreeFor(f, AdioReg(f, ADIO.CLK_SRC), 1)
      /\ FreeFor(f, AdioReg(f, ADIO.START_TRIG), 1)
      /\ FreeFor(f, AdioReg(f, ADIO.STOP_TRIG), 1)
      /\ FreeFor(f, AdioReg(f, ADIO.PRE_CAPT_COUNT), 4)
      /\ FreeFor(f, AdioReg(f, ADIO.POST_CAPT_COUNT), 4)
  BY <1>1, <1>4, BlockPlaces, FreePlace
<1>7. <<"clock_src">>[1] \notin Known(f)
  <2> DEFINE F == <<"clock_src">>
  <2>1. F[1] = "clock_src"
    OBVIOUS
  <2> HIDE DEF F
  <2>2. F[1] \notin Known(f)
    BY <2>1, NotKnown
  <2> QED BY <2>2 DEF F
<1>8. \A k, set, of : FitPlan(f, <<"clock_src">>, set, of, Adio_Set_Clock_Src(f, k))
  BY <1>6, <1>7, FreePlans DEF Adio_Set_Clock_Src
<1>9. \A d : FitPlan(f, <<"clk_div">>, d, Width(32), Adio_Set_Clk_Divider(f, d))
  BY <1>20, WordPlans DEF Adio_Set_Clk_Divider
<1>10. \A k : /\ FitPlan(f, <<"none">>, {}, {}, Adio_Set_Start_Trigger(f, k))
              /\ FitPlan(f, <<"none">>, {}, {}, Adio_Set_Stop_Trigger(f, k))
              /\ FitPlan(f, <<"none">>, {}, {}, AdioMode(f, k))
  <2>1. \A k : FitPlan(f, <<"none">>, {}, {}, Adio_Set_Start_Trigger(f, k))
    BY <1>6, FreePlans, PlainFields DEF Adio_Set_Start_Trigger
  <2>2. \A k : FitPlan(f, <<"none">>, {}, {}, Adio_Set_Stop_Trigger(f, k))
    BY <1>6, FreePlans, PlainFields DEF Adio_Set_Stop_Trigger
  <2>3. \A k : FitPlan(f, <<"none">>, {}, {}, AdioMode(f, k))
    BY <1>6, FreePlans, PlainFields DEF AdioMode
  <2> QED BY <2>1, <2>2, <2>3
<1>11. \A k : FitPlan(f, <<"none">>, {}, {}, Adio_Set_Pre_Trigger_Samples(f, k))
  BY <1>6, FreePlans, PlainFields DEF Adio_Set_Pre_Trigger_Samples
<1>12. \A d : FitPlan(f, <<"none">>, {}, {}, Adio_Set_Post_Stop_Samples(f, d))
  BY <1>6, FreePlans, PlainFields DEF Adio_Set_Post_Stop_Samples
<1>13. \A b, k : FitPlan(f, <<"bus", b>>, Bits(k), Width(8), Adio_Set_Clock_Source_Global(f, b, k))
  <2> SUFFICES ASSUME NEW b, NEW k
               PROVE  FitPlan(f, <<"bus", b>>, Bits(k), Width(8), Adio_Set_Clock_Source_Global(f, b, k))
    OBVIOUS
  <2>1. CASE b \in Buses
    BY <1>5, <2>1, BytePlans DEF Adio_Set_Clock_Source_Global
  <2>2. CASE b \notin Buses
    BY <2>2, FitPlans DEF Adio_Set_Clock_Source_Global, Adio_Validate_Clock_Global_Source
  <2> QED BY <2>1, <2>2
<1>14. \A p \in {Adio_Start(f), Adio_Start_Rearm(f), Adio_Reset(f), Adio_Pause(f),
                 Adio_Uninitialize(f)} : FitPlan(f, <<"none">>, {}, {}, p)
  BY <1>10 DEF Adio_Start, Adio_Start_Rearm, Adio_Reset, Adio_Pause, Adio_Uninitialize
<1>15. \A k : FitCall(f, OfBlock("clock_src", Bits(k), Adio_Set_Clock_Src(f, k)))
  BY <1>8, FitCalls DEF OfBlock
<1>16. \A d : FitCall(f, OfBlock("clk_div", d, Adio_Set_Clk_Divider(f, d)))
  BY <1>9, FitCalls DEF OfBlock
<1>17. \A k : /\ FitCall(f, AskBlock(Adio_Set_Start_Trigger(f, k)))
              /\ FitCall(f, AskBlock(Adio_Set_Stop_Trigger(f, k)))
              /\ FitCall(f, AskBlock(Adio_Set_Pre_Trigger_Samples(f, k)))
              /\ FitCall(f, AskBlock(Adio_Set_Post_Stop_Samples(f, k)))
  BY <1>10, <1>11, <1>12, FitCalls DEF AskBlock, Query
<1>18. \A b, k : FitCall(f, OnBusField("bus", b, Bits(k), Adio_Set_Clock_Source_Global(f, b, k)))
  BY <1>13, FitCalls DEF OnBusField
<1>19. \A p \in {Adio_Start(f), Adio_Start_Rearm(f), Adio_Reset(f), Adio_Pause(f),
                 Adio_Uninitialize(f)} : FitCall(f, AskBlock(p))
  BY <1>14, FitCalls DEF AskBlock, Query
<1> QED BY ONLY <1>15, <1>16, <1>17, <1>18, <1>19, x \in AdioBlockCalls(f) DEF AdioBlockCalls

(* Those about its pins.                                                   *)
LEMMA AdioPinsFit ==
  ASSUME NEW f, Descriptor(f), f.type = FUNC_BLOCK.ADIO, NEW x \in AdioPinCalls(f)
  PROVE  FitCall(f, x)
<1> DEFINE o == <<"pins">>
<1>1. \A n \in Nat : AdioPins(f, n) = Base(f, o) + n
  BY BlockStarts
<1>2. AdioPinRows \subseteq Layout(f)
  BY InLayout
<1>3. /\ WordRow(<<"output">>, o, 4) \in Layout(f) /\ WordRow(<<"direction">>, o, 8) \in Layout(f)
      /\ ByteRow(<<"adv_int_mode">>, o, 12) \in Layout(f)
      /\ WordRow(<<"adv_int_mask">>, o, 16) \in Layout(f)
      /\ WordRow(<<"adv_int_comp">>, o, 20) \in Layout(f)
      /\ WordRow(<<"adv_int_capt">>, o, 24) \in Layout(f)
      /\ ByteRow(<<"p_bus">>, o, 28) \in Layout(f)
      /\ ByteRow(<<"p_bus_ready">>, o, 29) \in Layout(f)
  BY <1>2 DEF AdioPinRows
<1> HIDE DEF o
<1>4. /\ WordSet(f, <<"output">>, AdioPins(f, ADIO_CHAN.OUTPUT_VAL))
      /\ WordSet(f, <<"direction">>, AdioPins(f, ADIO_CHAN.DIRECTION))
      /\ ByteSet(f, <<"adv_int_mode">>, AdioPins(f, ADIO_CHAN.ADV_INT_MODE))
      /\ WordSet(f, <<"adv_int_mask">>, AdioPins(f, ADIO_CHAN.ADV_INT_MASK))
      /\ WordSet(f, <<"adv_int_comp">>, AdioPins(f, ADIO_CHAN.ADV_INT_COMP))
      /\ WordSet(f, <<"adv_int_capt">>, AdioPins(f, ADIO_CHAN.ADV_INT_CAPT))
      /\ ByteSet(f, <<"p_bus">>, AdioPins(f, ADIO_CHAN.P_BUS_ENABLE))
      /\ ByteSet(f, <<"p_bus_ready">>, AdioPins(f, ADIO_CHAN.P_BUS_READY_ENABLE))
  BY <1>1, <1>3, AdioPinPlaces, SetPlaces
<1>5. \A d : FitPlan(f, <<"output">>, d, Width(32), Adio_Set_Output_Value(f, d))
  BY <1>4, WordPlans DEF Adio_Set_Output_Value
<1>6. \A d : FitPlan(f, <<"direction">>, d, Width(32), Adio_Set_Direction(f, d))
  BY <1>4, WordPlans DEF Adio_Set_Direction
<1>7. \A k : FitPlan(f, <<"adv_int_mode">>, Bits(k), Width(32), Adio_Set_Adv_Int_Mode(f, k))
  <2>1. \A k : Validate_Adv_Interrupt_Mode(k) => k \in 0 .. 255
    BY DEF Validate_Adv_Interrupt_Mode
  <2> QED BY <1>4, <2>1, BytePlans DEF Adio_Set_Adv_Int_Mode
<1>8. \A d : FitPlan(f, <<"adv_int_mask">>, d, Width(32), Adio_Set_Adv_Int_Mask(f, d))
  BY <1>4, WordPlans DEF Adio_Set_Adv_Int_Mask
<1>9. \A d : FitPlan(f, <<"adv_int_comp">>, d, Width(32), Adio_Set_Adv_Int_Comp(f, d))
  BY <1>4, WordPlans DEF Adio_Set_Adv_Int_Comp
<1>10. \A d : FitPlan(f, <<"adv_int_capt">>, d, Width(32), Adio_Set_Adv_Int_Capt(f, d))
  BY <1>4, WordPlans DEF Adio_Set_Adv_Int_Capt
<1>11. \A e : Flag(e) \subseteq Width(8)
  BY DEF Flag, Width
<1>12. \A e : FitPlan(f, <<"p_bus">>, Flag(e), Width(32), Adio_Set_P_Bus_Enable(f, e))
  BY <1>4, <1>11, BytePlans DEF Adio_Set_P_Bus_Enable
<1>13. \A e : FitPlan(f, <<"p_bus_ready">>, Flag(e), Width(32), Adio_Set_P_Bus_Ready_Enable(f, e))
  BY <1>4, <1>11, BytePlans DEF Adio_Set_P_Bus_Ready_Enable
<1>14. \A field, data, plan : FitPlan(f, <<field>>, data, Width(32), plan) =>
          FitCall(f, OnPinField(field, data, plan))
  BY FitCalls DEF OnPinField
<1>15. \A d : /\ FitCall(f, OnPinField("output", d, Adio_Set_Output_Value(f, d)))
              /\ FitCall(f, OnPinField("direction", d, Adio_Set_Direction(f, d)))
  BY <1>5, <1>6, <1>14
<1>16. \A d : /\ FitCall(f, OnPinField("adv_int_mask", d, Adio_Set_Adv_Int_Mask(f, d)))
              /\ FitCall(f, OnPinField("adv_int_comp", d, Adio_Set_Adv_Int_Comp(f, d)))
              /\ FitCall(f, OnPinField("adv_int_capt", d, Adio_Set_Adv_Int_Capt(f, d)))
  BY <1>8, <1>9, <1>10, <1>14
<1>17. \A k : FitCall(f, OnPinField("adv_int_mode", Bits(k), Adio_Set_Adv_Int_Mode(f, k)))
  BY <1>7, <1>14
<1>18. \A e : /\ FitCall(f, OnPinField("p_bus", Flag(e), Adio_Set_P_Bus_Enable(f, e)))
              /\ FitCall(f, OnPinField("p_bus_ready", Flag(e), Adio_Set_P_Bus_Ready_Enable(f, e)))
  BY <1>12, <1>13, <1>14
<1>19. /\ \A d \in Patterns(32) : /\ FitCall(f, OnPinField("output", d, Adio_Set_Output_Value(f, d)))
                                  /\ FitCall(f, OnPinField("direction", d, Adio_Set_Direction(f, d)))
       /\ \A e \in BOOLEAN :
            /\ FitCall(f, OnPinField("p_bus", Flag(e), Adio_Set_P_Bus_Enable(f, e)))
            /\ FitCall(f, OnPinField("p_bus_ready", Flag(e), Adio_Set_P_Bus_Ready_Enable(f, e)))
  BY <1>15, <1>18
<1> DEFINE enables == {OnPinField("p_bus", Flag(e), Adio_Set_P_Bus_Enable(f, e)) : e \in BOOLEAN}
             \cup {OnPinField("p_bus_ready", Flag(e), Adio_Set_P_Bus_Ready_Enable(f, e)) :
                     e \in BOOLEAN}
<1>20. \A y \in enables : FitCall(f, y)
  BY ONLY <1>19
<1>21. \/ \E d : x \in {OnPinField("output", d, Adio_Set_Output_Value(f, d)),
                        OnPinField("direction", d, Adio_Set_Direction(f, d)),
                        OnPinField("adv_int_mask", d, Adio_Set_Adv_Int_Mask(f, d)),
                        OnPinField("adv_int_comp", d, Adio_Set_Adv_Int_Comp(f, d)),
                        OnPinField("adv_int_capt", d, Adio_Set_Adv_Int_Capt(f, d))}
       \/ \E k : x = OnPinField("adv_int_mode", Bits(k), Adio_Set_Adv_Int_Mode(f, k))
       \/ x \in enables
  BY ONLY x \in AdioPinCalls(f) DEF AdioPinCalls, enables
<1> HIDE DEF enables
<1> QED BY ONLY <1>15, <1>16, <1>17, <1>20, <1>21

(* And those about a FIFO of it.                                           *)
LEMMA AdioFifoFits ==
  ASSUME NEW f, Descriptor(f), f.type = FUNC_BLOCK.ADIO, NEW c
  PROVE  /\ FitCall(f, AskFifo(c, Adio_Fifo_Channel_Read(f, c)))
         /\ \A d : FitCall(f, AskFifo(c, Adio_Fifo_Channel_Write(f, c, d)))
<1> DEFINE start == AdioFifo(f, c)
           denied == AdcChannelOk(f, c) /\ ~HasFifo(f)
           F == <<"none">>
<1>1. AdcChannelOk(f, c) => FreeFor(f, start, 4)
  BY FifoFree
<1>2. /\ \/ Adio_Fifo_Channel_Read(f, c) = Rejected("EPERM")
         \/ Adio_Fifo_Channel_Read(f, c) = OnChannel(f, c, <<Read(start, 32)>>)
      /\ \A d : \/ Adio_Fifo_Channel_Write(f, c, d) = Rejected("EPERM")
                \/ Adio_Fifo_Channel_Write(f, c, d) = OnChannel(f, c, <<Write(start, 32, d)>>)
  BY DEF Adio_Fifo_Channel_Read, Adio_Fifo_Channel_Write
<1>3. F[1] \notin Known(f)
  BY PlainFields
<1> HIDE DEF start, denied, F
<1>4. FitPlan(f, F, {}, {}, Rejected("EPERM"))
  <2>1. "EPERM" # "none"
    OBVIOUS
  <2> QED BY <2>1, FitPlans
<1>5. FitPlan(f, F, {}, {}, OnChannel(f, c, <<Read(start, 32)>>))
  BY <1>3, ReadPlans
<1>6. ASSUME NEW d
      PROVE  FitPlan(f, F, {}, {}, OnChannel(f, c, <<Write(start, 32, d)>>))
  <2>1. CASE AdcChannelOk(f, c)
    BY <1>1, <1>3, <2>1, FreePlans
  <2>2. CASE ~AdcChannelOk(f, c)
    BY <2>2, FitPlans
  <2> QED BY <2>1, <2>2
<1>7. FitPlan(f, F, {}, {}, Adio_Fifo_Channel_Read(f, c))
  BY <1>2, <1>4, <1>5
<1>8. \A d : FitPlan(f, F, {}, {}, Adio_Fifo_Channel_Write(f, c, d))
  BY <1>2, <1>4, <1>6
<1> QED BY <1>7, <1>8, FitCalls DEF AskFifo, Query, F

(* The calls about the external clocking fit.                              *)
LEMMA ExtFits ==
  ASSUME NEW f, Descriptor(f), f.type = FUNC_BLOCK.EXT_CLOCKING, NEW x \in ExtCalls(f)
  PROVE  FitCall(f, x)
<1> DEFINE o == <<"block">>
<1>1. \A n : ExtReg(f, n) = Base(f, o) + n
  BY BlockStarts
<1>2. ExtRows \subseteq Layout(f)
  BY InLayout
<1>3. /\ ByteRow(<<"dir">>, o, 2) \in Layout(f) /\ ByteRow(<<"edge">>, o, 3) \in Layout(f)
      /\ \A b \in Buses : /\ ByteRow(<<"width", b>>, o, 4 + (b - 2)) \in Layout(f)
                          /\ ByteRow(<<"method", b>>, o, 10 + (b - 2)) \in Layout(f)
  BY <1>2 DEF ExtRows, BusRows
<1> HIDE DEF o
<1>4. /\ EXT_CLOCKING.DIR = 2 /\ EXT_CLOCKING.EDGE = 3 /\ EXT_CLOCKING.PW2 = 4
      /\ EXT_CLOCKING.SETUP_GBL2 = 10
  BY DEF EXT_CLOCKING
<1>5. /\ ByteSet(f, <<"dir">>, ExtReg(f, EXT_CLOCKING.DIR))
      /\ ByteSet(f, <<"edge">>, ExtReg(f, EXT_CLOCKING.EDGE))
  BY <1>1, <1>3, <1>4, SetPlaces
<1>6. \A b \in Buses :
        /\ ByteSet(f, <<"width", b>>, ExtReg(f, BusRegister(EXT_CLOCKING.PW2, b)))
        /\ ByteSet(f, <<"method", b>>, ExtReg(f, BusRegister(EXT_CLOCKING.SETUP_GBL2, b)))
  BY <1>1, <1>3, <1>4, SetPlaces DEF BusRegister
<1>7. \A d \in Patterns(8) : d \subseteq Width(8)
  BY DEF Patterns, Width
<1>8. \A d \in Patterns(8) : /\ FitPlan(f, <<"dir">>, d, Width(32), Ext_Clocking_Set_Dir(f, d))
                             /\ FitPlan(f, <<"edge">>, d, Width(32), Ext_Clocking_Set_Edge(f, d))
  BY <1>5, <1>7, BytePlans DEF Ext_Clocking_Set_Dir, Ext_Clocking_Set_Edge
<1>9. \A b, first, d : b \notin Buses => OnBus(f, b, Write(first, 8, d)) = Rejected("EINVAL")
  BY DEF OnBus, Checked
<1>10. "EINVAL" # "none"
  OBVIOUS
<1>11. \A b, d : FitPlan(f, <<"width", b>>, d, Width(8), Ext_Clocking_Set_Pulse_Width(f, b, d))
  <2> SUFFICES ASSUME NEW b, NEW d
               PROVE  FitPlan(f, <<"width", b>>, d, Width(8), Ext_Clocking_Set_Pulse_Width(f, b, d))
    OBVIOUS
  <2>1. CASE b \in Buses
    <3>1. Ext_Clocking_Set_Pulse_Width(f, b, d)
            = Request(<<Write(ExtReg(f, BusRegister(EXT_CLOCKING.PW2, b)), 8, d)>>)
      BY <2>1, BusAccess DEF Ext_Clocking_Set_Pulse_Width
    <3> QED BY <1>6, <2>1, <3>1, BytePlans
  <2>2. CASE b \notin Buses
    BY <1>9, <1>10, <2>2, FitPlans DEF Ext_Clocking_Set_Pulse_Width
  <2> QED BY <2>1, <2>2
<1>12. \A b, k : FitPlan(f, <<"method", b>>, Bits(k), Width(8), Ext_Clocking_Set_Method(f, b, k))
  <2> SUFFICES ASSUME NEW b, NEW k
               PROVE  FitPlan(f, <<"method", b>>, Bits(k), Width(8), Ext_Clocking_Set_Method(f, b, k))
    OBVIOUS
  <2>1. CASE b \in Buses /\ k \in ClockingMethods
    <3>1. Ext_Clocking_Set_Method(f, b, k)
            = Request(<<Write(ExtReg(f, BusRegister(EXT_CLOCKING.SETUP_GBL2, b)), 8, Bits(k))>>)
      BY <2>1, BusAccess DEF Ext_Clocking_Set_Method
    <3> QED BY <1>6, <2>1, <3>1, BytePlans
  <2>2. CASE ~(b \in Buses /\ k \in ClockingMethods)
    <3>1. Ext_Clocking_Set_Method(f, b, k) = Rejected("EINVAL")
      BY <1>9, <2>2 DEF Ext_Clocking_Set_Method
    <3> QED BY <1>10, <3>1, FitPlans
  <2> QED BY <2>1, <2>2
<1>13. \A d \in Patterns(8) : /\ FitCall(f, OfBlock("dir", d, Ext_Clocking_Set_Dir(f, d)))
                              /\ FitCall(f, OfBlock("edge", d, Ext_Clocking_Set_Edge(f, d)))
  BY <1>8, FitCalls DEF OfBlock
<1>14. \A b, d : FitCall(f, OnBusField("width", b, d, Ext_Clocking_Set_Pulse_Width(f, b, d)))
  BY <1>11, FitCalls DEF OnBusField
<1>15. \A b, k : FitCall(f, OnBusField("method", b, Bits(k), Ext_Clocking_Set_Method(f, b, k)))
  BY <1>12, FitCalls DEF OnBusField
<1> QED BY ONLY <1>13, <1>14, <1>15, x \in ExtCalls(f) DEF ExtCalls

(* The calls about the board access the other region.                      *)
LEMMA BoardFits ==
  ASSUME NEW f, Descriptor(f), NEW x \in GbcCalls
  PROVE  FitCall(f, x)
<1> DEFINE F == <<"none">>
<1>1. \A op, offset, size, data :
        Lands(f, F, {}, {}, Access(op, "GBC", offset, size, data, {}))
  <2> SUFFICES ASSUME NEW op, NEW offset, NEW size, NEW data
               PROVE  Lands(f, F, {}, {}, Access(op, "GBC", offset, size, data, {}))
    OBVIOUS
  <2> DEFINE a == Access(op, "GBC", offset, size, data, {})
  <2>1. a.region = "GBC"
    BY DEF Access
  <2> HIDE DEF a
  <2>2. Misses(f, a)
    BY <2>1, ReadMisses
  <2>3. F[1] \notin Known(f)
    BY PlainFields
  <2> HIDE DEF F
  <2>4. Lands(f, F, {}, {}, a)
    BY <2>2, <2>3 DEF Lands
  <2> QED BY <2>4 DEF a, F
<1> HIDE DEF F
<1>2. \A op, offset, size, data :
        FitPlan(f, F, {}, {}, Request(<<Access(op, "GBC", offset, size, data, {})>>))
  BY <1>1, FitOne, FitPlans
<1>3. /\ FitPlan(f, F, {}, {}, Gbc_Board_Reset)
      /\ FitPlan(f, F, {}, {}, Gbc_Ack_Interrupt)
      /\ FitPlan(f, F, {}, {}, Gbc_Get_Format)
      /\ FitPlan(f, F, {}, {}, Gbc_Get_Revision)
      /\ FitPlan(f, F, {}, {}, Gbc_Get_Pdp_Number)
      /\ FitPlan(f, F, {}, {}, Gbc_Get_Fpga_Build)
  BY <1>2 DEF Gbc_Board_Reset, Gbc_Ack_Interrupt, Gbc_Get_Format, Gbc_Get_Revision,
              Gbc_Get_Pdp_Number, Gbc_Get_Fpga_Build, GbcWrite, GbcRead
<1>4. \A p : FitPlan(f, F, {}, {}, p) => FitCall(f, Query(<<"board">>, p))
  BY FitCalls DEF Query, F
<1> QED BY <1>3, <1>4 DEF GbcCalls

(* What the functions of the DMA library access that clear the status of a *)
(* channel or ask for it.                                                  *)
LEMMA DmaQueries ==
  ASSUME NEW f, NEW c, AdcChannelOk(f, c), NEW Q,
         \A n \in 0 .. 15, size \in {8, 16, 32} : Read(DmaReg(f, c, n), size) \in Q,
         \A n \in {2, 3, 12, 13, 14} : Write(DmaReg(f, c, n), 8, {}) \in Q,
         NEW p, p \in {Dma_Clear_Interrupt(f, c, {"overflow", "underflow", "used", "invalid",
                                                  "complete"}),
                       Dma_Status(f, c, {"buffer", "count", "action", "overflow", "used",
                                         "complete"}),
                       Dma_Get_Fifo_Counts(f, c, {"write", "read"})}
  PROVE  p.errno = "none" => p.accesses \in Seq(Q) /\ p.accesses # <<>>
<1>1. /\ DMA.ACTION = 0 /\ DMA.SETUP = 1 /\ DMA.STAT_OVERFLOW = 2 /\ DMA.STAT_UNDERFLOW = 3
      /\ DMA.CURRENT_COUNT = 4 /\ DMA.WR_FIFO_CNT = 8 /\ DMA.RD_FIFO_CNT = 10
      /\ DMA.STAT_USED = 12 /\ DMA.STAT_INVALID = 13 /\ DMA.STAT_COMPLETE = 14
  BY DEF DMA
<1>2. \A s : OnChannel(f, c, s) = Request(s)
  BY DEF OnChannel, Checked
<1>3. ASSUME NEW s \in Seq(Q), s # <<>>, NEW wanted,
             p = Request(s) \/ p = Asked(wanted, Request(s))
      PROVE  p.errno = "none" => p.accesses \in Seq(Q) /\ p.accesses # <<>>
  BY <1>3 DEF Asked, Request, Rejected
<1>4. CASE p = Dma_Clear_Interrupt(f, c, {"overflow", "underflow", "used", "invalid", "complete"})
  <2> DEFINE zero(n) == Write(DmaReg(f, c, n), 8, {})
             s == <<zero(DMA.STAT_OVERFLOW)>> \o <<zero(DMA.STAT_UNDERFLOW)>>
                    \o <<zero(DMA.STAT_USED)>> \o <<zero(DMA.STAT_INVALID)>>
                    \o <<zero(DMA.STAT_COMPLETE)>>
  <2>1. p = OnChannel(f, c, s)
    BY <1>4 DEF Dma_Clear_Interrupt, When
  <2>2. /\ zero(DMA.STAT_OVERFLOW) \in Q /\ zero(DMA.STAT_UNDERFLOW) \in Q
        /\ zero(DMA.STAT_USED) \in Q /\ zero(DMA.STAT_INVALID) \in Q
        /\ zero(DMA.STAT_COMPLETE) \in Q
    BY <1>1
  <2> HIDE DEF zero
  <2>3. s \in Seq(Q) /\ s # <<>>
    BY <2>2
  <2> HIDE DEF s
  <2> QED BY <1>2, <1>3, <2>1, <2>3
<1>5. CASE p = Dma_Status(f, c, {"buffer", "count", "action", "overflow", "used", "complete"})
  <2> DEFINE wanted == {"buffer", "count", "action", "overflow", "used", "complete"}
             errors == wanted \cap {"overflow", "underflow", "used", "invalid"}
             r == <<Read(DmaReg(f, c, DMA.STAT_OVERFLOW), 16)>>
                    \o <<Read(DmaReg(f, c, DMA.STAT_USED), 16)>>
             errs == Dma_Get_Errors(f, c, errors).accesses
             front == <<Read(DmaReg(f, c, DMA.CURRENT_COUNT), 32)>>
                        \o <<Read(DmaReg(f, c, DMA.ACTION), 8)>>
             last == <<Read(DmaReg(f, c, DMA.STAT_COMPLETE), 8)>>
             s == (front \o errs) \o last
  <2>1. "overflow" \in errors /\ "used" \in errors
    OBVIOUS
  <2>2. errors \cap {"overflow", "underflow"} # {} /\ errors \cap {"used", "invalid"} # {}
        /\ errors # {}
    BY <2>1
  <2>3. wanted \cap {"buffer", "count"} # {} /\ "action" \in wanted /\ "complete" \in wanted
    OBVIOUS
  <2>4. p = Asked(wanted, OnChannel(f, c, s))
    <3>1. p = Dma_Status(f, c, wanted)
      BY <1>5
    <3> HIDE DEF wanted
    <3> QED BY <2>2, <2>3, <3>1 DEF Dma_Status, When
  <2> HIDE DEF wanted, errors
  <2>5. errs = r
    BY <2>2 DEF Dma_Get_Errors, When, Asked, OnChannel, Checked, Request
  <2>6. /\ r \in Seq(Q) /\ front \in Seq(Q)
        /\ last \in Seq(Q) /\ Len(last) = 1
    BY <1>1
  <2> DEFINE most == front \o errs
  <2>7. most \in Seq(Q)
    <3> HIDE DEF r, errs, front
    <3> QED BY <2>5, <2>6
  <2> HIDE DEF most, r, errs, front, last
  <2>8. most \o last \in Seq(Q) /\ Len(most \o last) = Len(most) + Len(last)
    BY <2>6, <2>7, ConcatProperties
  <2>9. Len(most) \in Nat /\ Len(last) = 1
    BY <2>6, <2>7
  <2>10. most \o last # <<>>
    BY <2>8, <2>9, EmptySeq
  <2>11. p = Asked(wanted, Request(most \o last))
    BY <1>2, <2>4 DEF most
  <2> QED BY <1>3, <2>8, <2>10, <2>11
<1>6. CASE p = Dma_Get_Fifo_Counts(f, c, {"write", "read"})
  <2> DEFINE wanted == {"write", "read"}
             s == <<Read(DmaReg(f, c, DMA.WR_FIFO_CNT), 16)>>
                    \o <<Read(DmaReg(f, c, DMA.RD_FIFO_CNT), 16)>>
  <2>1. p = Asked(wanted, OnChannel(f, c, s))
    BY <1>6 DEF Dma_Get_Fifo_Counts, When
  <2>2. s \in Seq(Q) /\ s # <<>>
    BY <1>1
  <2> HIDE DEF s, wanted
  <2> QED BY <1>2, <1>3, <2>1, <2>2
<1> QED BY <1>4, <1>5, <1>6

(* The calls about a DMA channel fit: two bits of its setup are answered,  *)
(* and the calls that set the others leave them.                           *)
LEMMA DmaChannelFits ==
  ASSUME NEW f, Descriptor(f), NEW c, NEW x \in DmaChannelCalls(f, c)
  PROVE  FitCall(f, x)
<1> DEFINE o == <<"dma", c>>
           F == <<"dma_setup", c>>
           r == Row(F, o, 1, 1, 0, {0, 1}, {0, 1})
           plans == {Dma_Clear_Interrupt(f, c, {"overflow", "underflow", "used", "invalid",
                                                "complete"}),
                     Dma_Status(f, c, {"buffer", "count", "action", "overflow", "used",
                                       "complete"}),
                     Dma_Get_Fifo_Counts(f, c, {"write", "read"})}
<1>1. /\ r.field = F /\ r.owner = o /\ r.low = 1 /\ r.wide = 1 /\ r.shift = 0
      /\ r.slots = {0, 1} /\ r.of = {0, 1}
  BY DEF Row
<1>2. \A n : DmaReg(f, c, n) = Base(f, o) + n
  BY DEF DmaReg, Base
<1>3. AdcChannelOk(f, c) => r \in Layout(f) /\ o \in Owners(f)
  <2>1. AdcChannelOk(f, c) => c \in DmaChannels(f)
    BY DEF AdcChannelOk, DmaChannels
  <2>2. c \in DmaChannels(f) => o \in Owners(f)
    BY DEF Owners, DmaChannels
  <2>3. c \in DmaChannels(f) => DmaRows(c) \subseteq Layout(f)
    BY InLayout
  <2> QED BY <2>1, <2>2, <2>3 DEF DmaRows
<1>4. \A n \in {2, 3, 12, 13, 14} : FreeAt(f, o, n, 1)
  BY FreeChannelPlaces
<1> HIDE DEF o, F, r
<1>5. ASSUME NEW data, NEW mask, NEW set, NEW of,
             \A b \in {0, 1} : /\ b \in Bits(mask) <=> b \in of
                               /\ b \in of => (b \in Bits(data) <=> b \in set)
      PROVE  FitPlan(f, F, set, of, OnChannel(f, c, Setup(f, c, data, mask)))
  <2> DEFINE a == Modify(DmaReg(f, c, DMA.SETUP), 8, Bits(data), Bits(mask))
  <2>1. DmaReg(f, c, DMA.SETUP) = At(f, r)
    BY <1>1, <1>2 DEF DMA, At
  <2>2. AdcChannelOk(f, c) => Lands(f, r.field, set, of, a)
    <3> SUFFICES ASSUME AdcChannelOk(f, c)
                 PROVE  Lands(f, r.field, set, of, a)
      OBVIOUS
    <3> DEFINE start == DmaReg(f, c, DMA.SETUP)
               bits == Bits(data)
               masked == Bits(mask)
    <3>1. /\ r \in Layout(f) /\ r.shift = 0 /\ start = At(f, r) /\ 8 = 8 * r.wide
          /\ set \cap of \cap r.of \subseteq r.slots
          /\ \A b \in r.slots : /\ b \in masked <=> b \in of
                                /\ b \in of => (b \in bits <=> b \in set)
      BY <1>1, <1>3, <1>5, <2>1
    <3> HIDE DEF start, bits, masked
    <3>2. Lands(f, r.field, set, of, Modify(start, 8, bits, masked))
      BY <3>1, ModifySet
    <3> QED BY <3>2 DEF start, bits, masked
  <2>3. Setup(f, c, data, mask) = <<a>>
    BY DEF Setup
  <2> HIDE DEF a
  <2>4. AdcChannelOk(f, c) => Fit(f, F, set, of, <<a>>)
    BY <1>1, <2>2, FitOne
  <2>5. FitPlan(f, F, set, of, OnChannel(f, c, <<a>>))
    BY <2>4, FitPlans
  <2> QED BY <2>3, <2>5
<1>6. \A u : Choose(u, 8) \in {0, 8} /\ Choose(u, 1) \in {0, 1}
  BY DEF Choose
<1>7. Bits(4) = {2} /\ Bits(8) = {3} /\ Bits(12) = {2, 3} /\ Bits(3) = {0, 1}
  BY CodeBits
<1>8. "none_set" # "none"
  OBVIOUS
<1>9. ASSUME NEW u
      PROVE  FitPlan(f, F, Bits(4) \cup Bits(Choose(u, 8)), {2, 3}, Dma_Setup(f, c, 4, u))
  <2> DEFINE set == Bits(4) \cup Bits(Choose(u, 8))
             of == {2, 3}
  <2>1. \A data : FitPlan(f, F, set, of, OnChannel(f, c, Setup(f, c, data, 12)))
    <3>1. \A b \in {0, 1} : b \notin Bits(12) /\ b \notin of
      BY <1>7
    <3> HIDE DEF set, of
    <3> QED BY <1>5, <3>1
  <2>2. DMA_SETUP.IGNORE_USED + DMA_SETUP.DIRECTION = 12
    BY DEF DMA_SETUP
  <2>3. FitPlan(f, F, set, of, Rejected("none_set"))
    BY <1>8, FitPlans
  <2> HIDE DEF set, of
  <2>4. FitPlan(f, F, set, of, Dma_Setup(f, c, 4, u))
    BY <2>1, <2>2, <2>3 DEF Dma_Setup
  <2> QED BY <2>4 DEF set, of
<1>10. ASSUME NEW d
       PROVE  FitPlan(f, F, Bits(d), {2}, Dma_Setup_Set_Direction(f, c, d))
  <2> DEFINE of == {2}
  <2>1. FitPlan(f, F, Bits(d), of, OnChannel(f, c, Setup(f, c, d, 4)))
    <3>1. \A b \in {0, 1} : b \notin Bits(4) /\ b \notin of
      BY <1>7
    <3> HIDE DEF of
    <3> QED BY <1>5, <3>1
  <2>2. DMA_SETUP.DIRECTION = 4
    BY DEF DMA_SETUP
  <2>3. FitPlan(f, F, Bits(d), of, Rejected("none_set"))
    BY <1>8, FitPlans
  <2> HIDE DEF of
  <2>4. FitPlan(f, F, Bits(d), of, Dma_Setup_Set_Direction(f, c, d))
    BY <2>1, <2>2, <2>3 DEF Dma_Setup_Set_Direction
  <2> QED BY <2>4 DEF of
<1>11. ASSUME NEW u
       PROVE  FitPlan(f, F, Bits(Choose(u, 8)), {3}, Dma_Setup_Set_Used(f, c, u))
  <2> DEFINE of == {3}
             set == Bits(Choose(u, 8))
  <2>1. \A data : FitPlan(f, F, set, of, OnChannel(f, c, Setup(f, c, data, 8)))
    <3>1. \A b \in {0, 1} : b \notin Bits(8) /\ b \notin of
      BY <1>7
    <3> HIDE DEF of, set
    <3> QED BY <1>5, <3>1
  <2>2. DMA_SETUP.IGNORE_USED = 8
    BY DEF DMA_SETUP
  <2> HIDE DEF of, set
  <2>3. FitPlan(f, F, set, of, Dma_Setup_Set_Used(f, c, u))
    BY <2>1, <2>2 DEF Dma_Setup_Set_Used
  <2> QED BY <2>3 DEF of, set
<1>12. ASSUME NEW e
       PROVE  FitPlan(f, F, Bits(Choose(e, 1) + 2), {0, 1}, Dma_Configure_Interrupts(f, c, e, TRUE))
  <2> DEFINE of == {0, 1}
             n == Choose(e, 1) + 2
  <2>1. Bits(3) = of
    BY <1>7
  <2>2. FitPlan(f, F, Bits(n), of, OnChannel(f, c, Setup(f, c, n, 3)))
    <3> HIDE DEF of, n
    <3> QED BY <1>5, <2>1
  <2>3. Dma_Configure_Interrupts(f, c, e, TRUE) = OnChannel(f, c, Setup(f, c, n, 3))
    <3>1. DMA_SETUP.INT = 1 /\ DMA_SETUP.ERR_INT = 2 /\ 1 + 2 = 3 /\ Choose(TRUE, 2) = 2
      BY DEF DMA_SETUP, Choose
    <3> QED BY <3>1 DEF Dma_Configure_Interrupts
  <2> QED BY <2>2, <2>3
<1>13. ASSUME NEW p \in plans
       PROVE  FitPlan(f, <<"none">>, {}, {}, p)
  <2> DEFINE G == <<"none">>
  <2>1. G[1] \notin Known(f)
    BY PlainFields
  <2> HIDE DEF G
  <2>2. ASSUME AdcChannelOk(f, c)
        PROVE  FitPlan(f, G, {}, {}, p)
    <3> DEFINE reads == {Read(DmaReg(f, c, n), size) : n \in 0 .. 15, size \in {8, 16, 32}}
               zeros == {Write(DmaReg(f, c, n), 8, {}) : n \in {2, 3, 12, 13, 14}}
               Q == reads \cup zeros
    <3>1. \A a \in reads : Misses(f, a)
      BY ReadMisses
    <3>2. \A a \in zeros : Misses(f, a)
      <4>1. ASSUME NEW n \in {2, 3, 12, 13, 14}, NEW a, a = Write(DmaReg(f, c, n), 8, {})
            PROVE  Misses(f, a)
        <5>1. a.offset = Base(f, o) + n /\ a.size = 8 * 1
          BY <1>2, <4>1 DEF Write, Access
        <5>2. n \in Nat /\ FreeAt(f, o, n, 1) /\ o \in Owners(f)
          BY <1>3, <1>4, <2>2
        <5> QED BY <5>1, <5>2, FreeMisses
      <4> QED BY <4>1
    <3>3. /\ \A n \in 0 .. 15, size \in {8, 16, 32} : Read(DmaReg(f, c, n), size) \in Q
          /\ \A n \in {2, 3, 12, 13, 14} : Write(DmaReg(f, c, n), 8, {}) \in Q
      OBVIOUS
    <3>4. \A a \in Q : Misses(f, a)
      BY <3>1, <3>2
    <3> HIDE DEF Q
    <3>5. p.errno = "none" => p.accesses \in Seq(Q) /\ p.accesses # <<>>
      BY <1>13, <2>2, <3>3, DmaQueries
    <3>6. p.errno = "none" => Fit(f, G, {}, {}, p.accesses)
      BY <2>1, <3>4, <3>5, FitNone
    <3> QED BY <3>6 DEF FitPlan
  <2>3. ASSUME ~AdcChannelOk(f, c)
        PROVE  FitPlan(f, G, {}, {}, p)
    <3>1. \A s : OnChannel(f, c, s) = Rejected("EINVAL")
      BY <2>3 DEF OnChannel, Checked
    <3>2. \A wanted : Asked(wanted, Rejected("EINVAL")) = Rejected("EINVAL")
      <4>1. Rejected("EINVAL").errno # "none"
        BY DEF Rejected
      <4> QED BY <4>1 DEF Asked
    <3>3. p = Rejected("EINVAL")
      BY <1>13, <3>1, <3>2 DEF Dma_Clear_Interrupt, Dma_Status, Dma_Get_Fifo_Counts
    <3>4. "EINVAL" # "none"
      OBVIOUS
    <3> QED BY <3>3, <3>4, FitPlans
  <2>4. FitPlan(f, G, {}, {}, p)
    BY <2>2, <2>3
  <2> QED BY <2>4 DEF G
<1> DEFINE setups == {OnDmaField(c, Bits(4) \cup Bits(Choose(u, 8)), {2, 3}, Dma_Setup(f, c, 4, u)) :
                        u \in BOOLEAN}
           used == {OnDmaField(c, Bits(Choose(u, 8)), {3}, Dma_Setup_Set_Used(f, c, u)) :
                      u \in BOOLEAN}
           interrupts == {OnDmaField(c, Bits(Choose(e, 1) + 2), {0, 1},
                                     Dma_Configure_Interrupts(f, c, e, TRUE)) : e \in BOOLEAN}
           directions == {OnDmaField(c, Bits(d), {2}, Dma_Setup_Set_Direction(f, c, d)) :
                            d \in {0, 3, 4}}
           asked == {AskDma(c, p) : p \in plans}
<1>14. \A set, of, plan : FitPlan(f, F, set, of, plan) => FitCall(f, OnDmaField(c, set, of, plan))
  BY FitCalls DEF OnDmaField, F
<1>15. \A plan : FitPlan(f, <<"none">>, {}, {}, plan) => FitCall(f, AskDma(c, plan))
  BY FitCalls DEF AskDma, Query
<1>16. /\ \A y \in setups : FitCall(f, y)
       /\ \A y \in used : FitCall(f, y)
       /\ \A y \in interrupts : FitCall(f, y)
       /\ \A y \in directions : FitCall(f, y)
  <2>1. \A u \in BOOLEAN : FitCall(f, OnDmaField(c, Bits(4) \cup Bits(Choose(u, 8)), {2, 3},
                                                 Dma_Setup(f, c, 4, u)))
    BY <1>9, <1>14
  <2>2. \A u \in BOOLEAN : FitCall(f, OnDmaField(c, Bits(Choose(u, 8)), {3},
                                                 Dma_Setup_Set_Used(f, c, u)))
    BY <1>11, <1>14
  <2>3. \A e \in BOOLEAN : FitCall(f, OnDmaField(c, Bits(Choose(e, 1) + 2), {0, 1},
                                                 Dma_Configure_Interrupts(f, c, e, TRUE)))
    BY <1>12, <1>14
  <2>4. \A d \in {0, 3, 4} :
          FitCall(f, OnDmaField(c, Bits(d), {2}, Dma_Setup_Set_Direction(f, c, d)))
    BY <1>10, <1>14
  <2>5. \A y \in setups : FitCall(f, y)
    BY <2>1
  <2>6. \A y \in used : FitCall(f, y)
    BY <2>2
  <2>7. \A y \in interrupts : FitCall(f, y)
    BY <2>3
  <2>8. \A y \in directions : FitCall(f, y)
    BY <2>4
  <2> QED BY <2>5, <2>6, <2>7, <2>8
<1>17. \A y \in asked : FitCall(f, y)
  <2> HIDE DEF plans
  <2>1. \A p \in plans : FitCall(f, AskDma(c, p))
    BY <1>13, <1>15
  <2> QED BY <2>1
<1>18. x \in setups \/ x \in directions \/ x \in used \/ x \in interrupts \/ x \in asked
  BY x \in DmaChannelCalls(f, c) DEF DmaChannelCalls
<1> HIDE DEF setups, directions, used, interrupts, asked
<1> QED BY <1>16, <1>17, <1>18

(* And those about a buffer: its control byte is written, of its size the  *)
(* 24 bits that a size may have.                                           *)
LEMMA DmaBufferFits ==
  ASSUME NEW f, Descriptor(f), NEW c, NEW b, NEW x \in DmaBufferCalls(f, c, b)
  PROVE  FitCall(f, x)
<1> DEFINE o == <<"buffer", c, b>>
           F == <<"buffer_ctrl", c, b>>
           G == <<"buffer_size", c, b>>
           q == Row(F, o, 3, 1, 0, Width(8), Width(8))
           r == Row(G, o, 4, 4, 0, Width(24), Width(24))
<1>1. /\ q.field = F /\ q.owner = o /\ q.low = 3 /\ q.wide = 1 /\ q.shift = 0
      /\ q.slots = Width(8) /\ q.of = Width(8)
      /\ r.field = G /\ r.owner = o /\ r.low = 4 /\ r.wide = 4 /\ r.shift = 0
      /\ r.slots = Width(24) /\ r.of = Width(24)
  BY DEF Row
<1>2. \A n : DmaBufferReg(f, c, b, n) = Base(f, o) + n
  BY DEF DmaBufferReg, Base
<1>3. BufferOk(f, c, b) => q \in Layout(f) /\ r \in Layout(f) /\ o \in Owners(f)
  <2>1. BufferOk(f, c, b) => c \in DmaChannels(f) /\ b \in DmaBuffersOf(f)
    BY DEF BufferOk, AdcChannelOk, DmaChannels, DmaBuffersOf
  <2>2. c \in DmaChannels(f) /\ b \in DmaBuffersOf(f) => o \in Owners(f)
    BY DEF Owners, DmaChannels, DmaBuffersOf
  <2>3. c \in DmaChannels(f) /\ b \in DmaBuffersOf(f) => BufferRows(c, b) \subseteq Layout(f)
    BY InLayout
  <2> QED BY <2>1, <2>2, <2>3 DEF BufferRows
<1>4. FreeAt(f, o, 2, 1)
  BY FreeChannelPlaces
<1>5. DMA_BUFFER.STAT = 2 /\ DMA_BUFFER.CTRL = 3 /\ DMA_BUFFER.SIZE = 4
  BY DEF DMA_BUFFER
<1> HIDE DEF o, F, G, q, r
<1>6. \A d \in Patterns(5) : FitPlan(f, F, d, Width(32), Dma_Buffer_Setup(f, c, b, d))
  <2> SUFFICES ASSUME NEW d \in Patterns(5)
               PROVE  FitPlan(f, F, d, Width(32), Dma_Buffer_Setup(f, c, b, d))
    OBVIOUS
  <2> DEFINE a == Write(DmaBufferReg(f, c, b, DMA_BUFFER.CTRL), 8, d)
  <2>1. a.region = "FB" /\ a.offset = At(f, q) /\ a.size = 8 * q.wide /\ a.op = "write"
        /\ a.data = d
    BY <1>1, <1>2, <1>5 DEF Write, Access, At
  <2>2. d \subseteq q.slots /\ q.slots \subseteq Width(32)
    BY <1>1 DEF Patterns, Width
  <2>3. Dma_Buffer_Setup(f, c, b, d) = Checked(BufferOk(f, c, b), <<a>>)
    BY DEF Dma_Buffer_Setup
  <2> HIDE DEF a
  <2>4. Sets(f, q, a, d, Width(32))
    <3> HIDE DEF q
    <3> DEFINE of == Width(32)
    <3>1. q.slots \subseteq of /\ q.shift = 0
      BY <1>1, <2>2
    <3> HIDE DEF of
    <3>2. Sets(f, q, a, d, of)
      BY <2>1, <2>2, <3>1 DEF Sets
    <3> QED BY <3>2 DEF of
  <2>5. BufferOk(f, c, b) => Lands(f, F, d, Width(32), a)
    BY <1>1, <1>3, <2>4 DEF Lands
  <2>6. BufferOk(f, c, b) => Fit(f, F, d, Width(32), <<a>>)
    BY <2>5, FitOne
  <2> QED BY <2>3, <2>6, FitPlans
<1>7. \A d : FitPlan(f, G, d, Width(32), Dma_Buffer_Set_Size(f, c, b, d))
  <2> SUFFICES ASSUME NEW d
               PROVE  FitPlan(f, G, d, Width(32), Dma_Buffer_Set_Size(f, c, b, d))
    OBVIOUS
  <2> DEFINE start == DmaBufferReg(f, c, b, DMA_BUFFER.SIZE)
             a == Modify(start, 32, d, Width(24))
             good == BufferOk(f, c, b) /\ d \cap {0, 1} = {} /\ d \subseteq Width(24)
             of == Width(32)
             mask == Width(24)
  <2>1. start = At(f, r) /\ 32 = 8 * r.wide
    BY <1>1, <1>2, <1>5 DEF At
  <2>2. r.slots = mask /\ r.of = mask /\ mask \subseteq of
    BY <1>1 DEF Width
  <2>3. Dma_Buffer_Set_Size(f, c, b, d) = Checked(good, <<a>>)
    BY DEF Dma_Buffer_Set_Size
  <2>4. good => BufferOk(f, c, b)
    OBVIOUS
  <2> HIDE DEF good, of, mask, start
  <2>5. BufferOk(f, c, b) => Lands(f, G, d, of, a)
    <3> SUFFICES ASSUME BufferOk(f, c, b) PROVE Lands(f, G, d, of, a)
      OBVIOUS
    <3>1. r \in Layout(f) /\ r.shift = 0 /\ r.field = G
      BY <1>1, <1>3
    <3>2. /\ d \cap of \cap r.of \subseteq r.slots
          /\ \A k \in r.slots : k \in mask <=> k \in of
      BY <2>2
    <3>3. Lands(f, r.field, d, of, Modify(start, 32, d, mask))
      BY <2>1, <3>1, <3>2, ModifySet
    <3> QED BY <3>1, <3>3 DEF mask
  <2> HIDE DEF a
  <2>6. good => Fit(f, G, d, of, <<a>>)
    BY <2>4, <2>5, FitOne
  <2>7. FitPlan(f, G, d, of, Checked(good, <<a>>))
    BY <2>6, FitPlans
  <2> QED BY <2>3, <2>7 DEF of
<1>8. FitPlan(f, <<"none">>, {}, {}, Dma_Reset_Buffer(f, c, b))
  <2> DEFINE H == <<"none">>
             start == DmaBufferReg(f, c, b, DMA_BUFFER.STAT)
  <2>1. H[1] \notin Known(f)
    BY PlainFields
  <2> HIDE DEF H
  <2>2. start = Base(f, o) + 2
    BY <1>2, <1>5
  <2>3. Dma_Reset_Buffer(f, c, b) = Checked(BufferOk(f, c, b), <<Write(start, 8, {})>>)
    BY DEF Dma_Reset_Buffer
  <2> HIDE DEF start
  <2>4. BufferOk(f, c, b) => FreeFor(f, start, 1)
    <3> SUFFICES ASSUME BufferOk(f, c, b) PROVE FreeFor(f, start, 1)
      OBVIOUS
    <3>1. o \in Owners(f) /\ 2 \in Nat /\ 1 \in {1, 2, 4}
      BY <1>3
    <3> QED BY <1>4, <2>2, <3>1, FreePlace
  <2>5. BufferOk(f, c, b) => Lands(f, H, {}, {}, Write(start, 8, {}))
    <3>1. 8 = 8 * 1
      OBVIOUS
    <3> QED BY <2>1, <2>4, <3>1 DEF FreeFor
  <2>6. BufferOk(f, c, b) => Fit(f, H, {}, {}, <<Write(start, 8, {})>>)
    BY <2>5, FitOne
  <2>7. FitPlan(f, H, {}, {}, Dma_Reset_Buffer(f, c, b))
    BY <2>3, <2>6, FitPlans
  <2> QED BY <2>7 DEF H
<1>9. \A d \in Patterns(5) :
        FitCall(f, OnBufferField(c, b, "buffer_ctrl", d, Dma_Buffer_Setup(f, c, b, d)))
  BY <1>6, FitCalls DEF OnBufferField, F
<1>10. \A d \in {{1}, 2 .. 23, 2 .. 24} :
        FitCall(f, OnBufferField(c, b, "buffer_size", d, Dma_Buffer_Set_Size(f, c, b, d)))
  BY <1>7, FitCalls DEF OnBufferField, G
<1>11. FitCall(f, AskBuffer(c, b, Dma_Reset_Buffer(f, c, b)))
  BY <1>8, FitCalls DEF AskBuffer, Query
<1> QED BY ONLY <1>9, <1>10, <1>11, x \in DmaBufferCalls(f, c, b) DEF DmaBufferCalls

(* Whatever a thread calls fits: its last access sets the bits that it is  *)
(* to set and no others of any field, and those before set none.           *)
LEMMA EveryCallFits ==
  ASSUME NEW f, Descriptor(f), NEW m, NEW x \in Calls(m, f)
  PROVE  FitCall(f, x)
<1>1. ASSUME NEW y \in GbcCalls
      PROVE  FitCall(f, y)
  BY BoardFits
<1>2. ASSUME NEW y \in DmaCalls(f)
      PROVE  FitCall(f, y)
  <2>1. \A c, b : /\ \A z \in DmaChannelCalls(f, c) : FitCall(f, z)
                  /\ \A z \in DmaBufferCalls(f, c, b) : FitCall(f, z)
    BY DmaChannelFits, DmaBufferFits
  <2> QED BY <2>1 DEF DmaCalls
<1>3. ASSUME f.type = FUNC_BLOCK.ADC, NEW y \in AdcCalls(m, f)
      PROVE  FitCall(f, y)
  <2>1. \A z \in AdcBlockCalls(f) \cup AdcRates(m, f) \cup AdcInterrupts(f) : FitCall(f, z)
    <3>1. f.type # FUNC_BLOCK.EXT_CLOCKING
      BY <1>3 DEF FUNC_BLOCK
    <3>2. /\ \A z \in AdcBlockCalls(f) : FitCall(f, z)
          /\ \A z \in AdcRates(m, f) : FitCall(f, z)
          /\ \A z \in AdcInterrupts(f) : FitCall(f, z)
      BY <1>3, <3>1, AdcBlockFits, RatesFit, InterruptsFit
    <3> QED BY <3>2
  <2>2. \A c : \A z \in AdcChannelCalls(f, c) : FitCall(f, z)
    BY <1>3, AdcChannelFits
  <2>3. \A c \in Channels(f) : FitCall(f, AskChannel(c, Adc_Channel_Get_Last_Sample(f, c)))
    <3> DEFINE F == <<"none">>
    <3>1. F[1] \notin Known(f)
      BY PlainFields
    <3> HIDE DEF F
    <3>2. \A c : FitPlan(f, F, {}, {}, Adc_Channel_Get_Last_Sample(f, c))
      BY <3>1, ReadPlans DEF Adc_Channel_Get_Last_Sample
    <3> QED BY <3>2, FitCalls DEF AskChannel, Query, F
  <2>4. \/ y \in AdcBlockCalls(f) \cup AdcRates(m, f) \cup AdcInterrupts(f)
        \/ \E c : y \in AdcChannelCalls(f, c)
        \/ \E c \in Channels(f) : y = AskChannel(c, Adc_Channel_Get_Last_Sample(f, c))
    BY <1>3 DEF AdcCalls
  <2> QED BY ONLY <2>1, <2>2, <2>3, <2>4
<1>4. ASSUME f.type = FUNC_BLOCK.DAC, NEW y \in DacCalls(m, f)
      PROVE  FitCall(f, y)
  <2>1. \A z \in DacBlockCalls(f) \cup DacRates(m, f) \cup DacInterrupts(f) : FitCall(f, z)
    <3>1. f.type # FUNC_BLOCK.EXT_CLOCKING
      BY <1>4 DEF FUNC_BLOCK
    <3>2. /\ \A z \in DacBlockCalls(f) : FitCall(f, z)
          /\ \A z \in DacRates(m, f) : FitCall(f, z)
          /\ \A z \in DacInterrupts(f) : FitCall(f, z)
      BY <1>4, <3>1, DacBlockFits, RatesFit, InterruptsFit
    <3> QED BY <3>2
  <2>2. \A c \in ChannelArgs(f) : \A z \in DacChannelCalls(f, c) : FitCall(f, z)
    BY <1>4, Arguments, DacChannelFits
  <2>3. \A c \in Channels(f) : \A z \in DacTrustingCalls(f, c) : FitCall(f, z)
    BY <1>4, DacTrustingFits
  <2>4. FitCall(f, Asking("unchecked", AskChannel(150, Dac_Set_Last_Conversion(f, 150, {0}, {0}))))
    BY <1>4, UncheckedFits
  <2>5. \/ y \in DacBlockCalls(f) \cup DacRates(m, f) \cup DacInterrupts(f)
        \/ \E c \in ChannelArgs(f) : y \in DacChannelCalls(f, c)
        \/ \E c \in Channels(f) : y \in DacTrustingCalls(f, c)
        \/ y = Asking("unchecked", AskChannel(150, Dac_Set_Last_Conversion(f, 150, {0}, {0})))
    BY <1>4 DEF DacCalls
  <2> QED BY ONLY <2>1, <2>2, <2>3, <2>4, <2>5
<1>5. ASSUME f.type = FUNC_BLOCK.ADIO, NEW y \in AdioCalls(m, f)
      PROVE  FitCall(f, y)
  <2>1. \A z \in AdioBlockCalls(f) \cup AdioRates(m, f) \cup AdioInterrupts(f)
                    \cup AdioPinCalls(f) : FitCall(f, z)
    <3>1. f.type # FUNC_BLOCK.EXT_CLOCKING
      BY <1>5 DEF FUNC_BLOCK
    <3>2. /\ \A z \in AdioBlockCalls(f) : FitCall(f, z)
          /\ \A z \in AdioPinCalls(f) : FitCall(f, z)
          /\ \A z \in AdioRates(m, f) : FitCall(f, z)
          /\ \A z \in AdioInterrupts(f) : FitCall(f, z)
      BY <1>5, <3>1, AdioBlockFits, AdioPinsFit, RatesFit, InterruptsFit
    <3> QED BY <3>2
  <2>2. \A c : /\ FitCall(f, AskFifo(c, Adio_Fifo_Channel_Read(f, c)))
               /\ \A d \in Patterns(32) : FitCall(f, AskFifo(c, Adio_Fifo_Channel_Write(f, c, d)))
    BY <1>5, AdioFifoFits
  <2>3. \/ y \in AdioBlockCalls(f) \cup AdioRates(m, f) \cup AdioInterrupts(f) \cup AdioPinCalls(f)
        \/ \E c : y = AskFifo(c, Adio_Fifo_Channel_Read(f, c))
        \/ \E c : \E d \in Patterns(32) : y = AskFifo(c, Adio_Fifo_Channel_Write(f, c, d))
    BY <1>5 DEF AdioCalls
  <2> QED BY ONLY <2>1, <2>2, <2>3
<1>6. ASSUME f.type = FUNC_BLOCK.EXT_CLOCKING, NEW y \in ExtCalls(f)
      PROVE  FitCall(f, y)
  BY <1>6, ExtFits
<1>7. ASSUME NEW y \in KindCalls(m, f)
      PROVE  FitCall(f, y)
  <2>1. /\ f.type = FUNC_BLOCK.ADC => KindCalls(m, f) = AdcCalls(m, f)
        /\ f.type = FUNC_BLOCK.DAC => KindCalls(m, f) = DacCalls(m, f)
        /\ f.type = FUNC_BLOCK.ADIO => KindCalls(m, f) = AdioCalls(m, f)
        /\ f.type = FUNC_BLOCK.EXT_CLOCKING => KindCalls(m, f) = ExtCalls(f)
    BY DEF KindCalls, FUNC_BLOCK
  <2>2. f.type \in Blocks4
    BY DEF Descriptor
  <2> QED BY <1>3, <1>4, <1>5, <1>6, <1>7, <2>1, <2>2 DEF Blocks4
<1> QED BY <1>1, <1>2, <1>7 DEF Calls
-----------------------------------------------------------------------------
(* What the fields hold.                                                   *)

(* Each recorded field is in the table, and holds what is recorded of it.  *)
Agreed(f, m, recorded) ==
  \A F \in DOMAIN recorded :
    /\ F[1] \in Answered[f.type]
    /\ \E r \in Layout(f) : r.field = F /\ HeldIn(f, m, r) = recorded[F] \cap r.of

(* What is left of a call that is under way fits.                          *)
Fitting(f, w) ==
  IF w.call.asks = "unchecked" THEN Len(w.accesses) = 1
  ELSE Fit(f, w.call.field, w.call.set, w.call.of, w.accesses)

(* The inductive invariant, beside that of the registers.                  *)
FieldsInv ==
  \/ fb = None /\ DOMAIN shadow = {}
  \/ /\ Descriptor(fb) /\ Agreed(fb, mem, shadow)
     /\ \A t \in Callers : todo[t] # Idle => Fitting(fb, todo[t])

(* The first access of what is left, and what is left after it.            *)
LEMMA FitRest ==
  ASSUME NEW f, NEW F, NEW set, NEW of, NEW S, NEW s \in Seq(S), Fit(f, F, set, of, s)
  PROVE  /\ Tail(s) # <<>> => Misses(f, Head(s)) /\ Fit(f, F, set, of, Tail(s))
         /\ Tail(s) = <<>> => Lands(f, F, set, of, Head(s))
<1> DEFINE n == Len(s)
           rest == Tail(s)
<1>1. /\ s # <<>> /\ \A i \in 1 .. n - 1 : Misses(f, s[i])
      /\ Lands(f, F, set, of, s[n])
  BY DEF Fit
<1>2. /\ n \in Nat /\ n # 0 /\ Head(s) = s[1] /\ rest \in Seq(S) /\ Len(rest) = n - 1
      /\ \A i \in 1 .. n - 1 : rest[i] = s[i + 1]
  BY <1>1
<1>3. rest = <<>> <=> n = 1
  BY <1>2, EmptySeq
<1> HIDE DEF n, rest
<1>4. ASSUME rest # <<>>
      PROVE  Misses(f, Head(s)) /\ Fit(f, F, set, of, rest)
  <2>1. n - 1 \in Nat \ {0} /\ 1 \in 1 .. n - 1
    BY <1>2, <1>3, <1>4
  <2>2. Misses(f, Head(s))
    BY <1>1, <1>2, <2>1
  <2>3. \A i \in 1 .. (n - 1) - 1 : i + 1 \in 1 .. n - 1 /\ i \in 1 .. n - 1
    BY <2>1
  <2>4. \A i \in 1 .. Len(rest) - 1 : Misses(f, rest[i])
    BY <1>1, <1>2, <2>3
  <2>5. rest[Len(rest)] = s[n]
    <3>1. n - 1 \in 1 .. n - 1 /\ (n - 1) + 1 = n
      BY <1>2, <2>1
    <3> QED BY <1>2, <3>1
  <2> QED BY <1>1, <1>4, <2>2, <2>4, <2>5 DEF Fit
<1>5. rest = <<>> => Lands(f, F, set, of, Head(s))
  BY <1>1, <1>2, <1>3
<1> QED BY <1>4, <1>5 DEF rest

(* An access that touches no field leaves them as recorded.                *)
LEMMA MissKeeps ==
  ASSUME NEW f, Descriptor(f), NEW m, InRegions(m), NEW a \in Requests, Misses(f, a),
         NEW recorded, Agreed(f, m, recorded)
  PROVE  Agreed(f, Perform(f, m, a), recorded)
<1>1. \A r \in Layout(f) : HeldIn(f, Perform(f, m, a), r) = HeldIn(f, m, r)
  BY ClearKeeps DEF Misses
<1> QED BY <1>1 DEF Agreed

(* The last access of a call does to the fields what is recorded of it.    *)
LEMMA LandSets ==
  ASSUME NEW f, Descriptor(f), NEW m, InRegions(m), NEW a \in Requests, Allowed(a),
         NEW F, NEW set, NEW of, Lands(f, F, set, of, a),
         NEW recorded, Agreed(f, m, recorded), NEW after,
         after = IF F \in DOMAIN recorded
                   THEN [recorded EXCEPT ![F] = (@ \ of) \cup (set \cap of)]
                   ELSE recorded
  PROVE  Agreed(f, Perform(f, m, a), after)
<1> DEFINE n == Perform(f, m, a)
<1>1. CASE F[1] \notin Known(f) /\ Misses(f, a)
  <2>1. F \notin DOMAIN recorded
    BY <1>1 DEF Agreed, Known
  <2> QED BY <1>1, <2>1, MissKeeps
<1>3. CASE F[1] \notin Answered[f.type] /\ \E r \in Layout(f) : r.field = F /\ Stores(f, r, a, set, of)
  <2>1. PICK r \in Layout(f) : r.field = F /\ Stores(f, r, a, set, of)
    BY <1>3
  <2>2. after = recorded
    BY <1>3 DEF Agreed
  <2>3. \A s \in Layout(f) : s.field[1] \in Answered[f.type] => HeldIn(f, n, s) = HeldIn(f, m, s)
    <3> SUFFICES ASSUME NEW s \in Layout(f), s.field[1] \in Answered[f.type]
                 PROVE  HeldIn(f, n, s) = HeldIn(f, m, s)
      OBVIOUS
    <3>1. s # r
      BY <1>3, <2>1
    <3>2. Clear(f, s, a)
      BY <2>1, <3>1, SetsOne
    <3> QED BY <3>2, ClearKeeps
  <2> HIDE DEF n
  <2>4. Agreed(f, n, recorded)
    BY <2>3 DEF Agreed
  <2> QED BY <2>2, <2>4 DEF n
<1>2. CASE \E r \in Layout(f) : r.field = F /\ Sets(f, r, a, set, of)
  <2>1. PICK r \in Layout(f) : r.field = F /\ Sets(f, r, a, set, of)
    BY <1>2
  <2>2. HeldIn(f, n, r) = (HeldIn(f, m, r) \ of) \cup (set \cap of \cap r.of)
    BY <2>1, SetsField
  <2>3. \A s \in Layout(f) : s.field # F => HeldIn(f, n, s) = HeldIn(f, m, s)
    <3> SUFFICES ASSUME NEW s \in Layout(f), s.field # F
                 PROVE  HeldIn(f, n, s) = HeldIn(f, m, s)
      OBVIOUS
    <3>1. Clear(f, s, a)
      BY <2>1, SetsOne
    <3> QED BY <3>1, ClearKeeps
  <2>4. \A s \in Layout(f) : s.field = F => s = r
    BY <2>1, RowsApart
  <2>5. DOMAIN after = DOMAIN recorded
    OBVIOUS
  <2> HIDE DEF n
  <2>6. ASSUME NEW G \in DOMAIN after
        PROVE  /\ G[1] \in Answered[f.type]
               /\ \E s \in Layout(f) : s.field = G /\ HeldIn(f, n, s) = after[G] \cap s.of
    <3>1. G \in DOMAIN recorded
      BY <2>5
    <3>2. PICK s \in Layout(f) : s.field = G /\ HeldIn(f, m, s) = recorded[G] \cap s.of
      BY <3>1 DEF Agreed
    <3>3. G[1] \in Answered[f.type]
      BY <3>1 DEF Agreed
    <3>4. CASE G = F
      <4>1. after[G] = (recorded[G] \ of) \cup (set \cap of)
        BY <3>1, <3>4
      <4>2. HeldIn(f, m, r) = recorded[G] \cap r.of
        BY <2>4, <3>2, <3>4
      <4>3. HeldIn(f, n, r) = after[G] \cap r.of
        BY <2>2, <4>1, <4>2
      <4> QED BY <2>1, <3>3, <3>4, <4>3
    <3>5. CASE G # F
      <4>1. after[G] = recorded[G]
        BY <3>1, <3>5
      <4>2. HeldIn(f, n, s) = HeldIn(f, m, s)
        BY <2>3, <3>2, <3>5
      <4> QED BY <3>2, <3>3, <4>1, <4>2
    <3> QED BY <3>4, <3>5
  <2> QED BY <2>6 DEF Agreed, n
<1> QED BY <1>1, <1>2, <1>3 DEF Lands

(* What is read of the fields is what they hold.                           *)
LEMMA ReadAgrees ==
  ASSUME NEW f, Descriptor(f), NEW m, NEW recorded,
         \A F \in DOMAIN recorded :
           /\ F[1] \in Answered[f.type]
           /\ \E r \in Layout(f) : r.field = F
           /\ recorded[F] = Answer(m, ViewOf(f, F))
  PROVE  Agreed(f, m, recorded)
<1> SUFFICES ASSUME NEW F \in DOMAIN recorded
             PROVE  /\ F[1] \in Answered[f.type]
                    /\ \E r \in Layout(f) :
                         r.field = F /\ HeldIn(f, m, r) = recorded[F] \cap r.of
  BY DEF Agreed
<1>1. PICK r \in Layout(f) : r.field = F
  OBVIOUS
<1>2. recorded[F] = HeldIn(f, m, r)
  BY <1>1, EveryView
<1>3. r.slots \subseteq r.of
  BY RowFacts DEF Shaped
<1>4. HeldIn(f, m, r) \subseteq r.of
  BY <1>3 DEF HeldIn
<1> QED BY <1>1, <1>2, <1>4

(* An event of the board sets no bit of a field.                           *)
LEMMA EventKeeps ==
  ASSUME NEW f, Descriptor(f), NEW m, InRegions(m), NEW b \in StatusBits(f),
         NEW n, n = [m EXCEPT !["FB"] = @ \cup {b}], NEW recorded, Agreed(f, m, recorded)
  PROVE  Agreed(f, n, recorded)
<1>1. n["FB"] = m["FB"] \cup {b}
  BY DEF InRegions
<1>2. ASSUME NEW r \in Layout(f)
      PROVE  HeldIn(f, n, r) = HeldIn(f, m, r)
  <2>1. b < 8 * At(f, r) \/ b >= 8 * (At(f, r) + r.wide)
    BY RowsAndSpecial
  <2>2. /\ At(f, r) \in Nat /\ r.wide \in {1, 4} /\ r.shift \in {0, 16}
        /\ \A k \in r.slots : k \in Nat /\ r.shift + k < 8 * r.wide
    BY RowFacts DEF Shaped
  <2>3. \A k \in r.slots : 8 * At(f, r) + r.shift + k # b
    BY <2>1, <2>2
  <2> QED BY <1>1, <2>3 DEF HeldIn
<1> QED BY <1>2 DEF Agreed
-----------------------------------------------------------------------------
(* Nothing is recorded before a block is open.                             *)
LEMMA FieldsInit == Init => FieldsInv
BY DEF Init, FieldsInv

(* What is recorded at the opening is what the fields hold.                *)
LEMMA FieldsOpen == IInv /\ Open => FieldsInv'
<1> SUFFICES ASSUME IInv, Open PROVE FieldsInv'
  OBVIOUS
<1>1. /\ mem \in Images /\ todo = [t \in Callers |-> Idle]
      /\ UNCHANGED <<mem, todo, setup, rate, refused, fresh, calls, events>>
      /\ shadow' = [field \in Fields(mem, fb') |-> Answer(mem, ViewOf(fb', field))]
  BY DEF IInv, Open
<1>2. Descriptor(fb')
  BY <1>1, OpenedDescriptor DEF Open
<1> DEFINE f == fb'
           fields == Fields(mem, f)
<1> HIDE DEF f
<1>3. ASSUME NEW F \in fields
      PROVE  F[1] \in Answered[f.type] /\ \E r \in Layout(f) : r.field = F
  <2>1. PICK c \in Calls(mem, f) : c.plan.errno = "none" /\ c.field[1] \in Answered[f.type]
                                   /\ F = c.field
    BY DEF Fields
  <2>2. FitCall(f, c)
    BY <1>2, EveryCallFits DEF f
  <2>3. Fit(f, F, c.set, c.of, c.plan.accesses)
    BY <2>1, <2>2 DEF FitCall, FitPlan, Known
  <2>4. \E a : Lands(f, F, c.set, c.of, a)
    BY <2>3 DEF Fit
  <2> QED BY <2>1, <2>4 DEF Lands, Known
<1>4. Agreed(f, mem, shadow')
  <2>1. DOMAIN shadow' = fields /\ \A F \in fields : shadow'[F] = Answer(mem, ViewOf(f, F))
    BY <1>1 DEF f
  <2> HIDE DEF fields
  <2> QED BY <1>2, <1>3, <2>1, ReadAgrees DEF f
<1>5. Agreed(fb', mem', shadow')
  BY <1>1, <1>4 DEF f
<1>6. \A t \in Callers : todo'[t] = Idle
  BY <1>1
<1> QED BY <1>2, <1>5, <1>6 DEF FieldsInv

(* An event of the board changes neither the fields nor a call.            *)
LEMMA FieldsEvent == IInv /\ FieldsInv /\ BoardEvent => FieldsInv'
<1> SUFFICES ASSUME IInv, FieldsInv, BoardEvent PROVE FieldsInv'
  OBVIOUS
<1>1. /\ fb # None /\ Descriptor(fb) /\ InRegions(mem)
      /\ UNCHANGED <<fb, todo, shadow>>
      /\ \E b \in StatusBits(fb) : mem' = [mem EXCEPT !["FB"] = @ \cup {b}]
  BY DEF BoardEvent, IInv
<1>2. Agreed(fb, mem, shadow) /\ \A t \in Callers : todo[t] # Idle => Fitting(fb, todo[t])
  BY <1>1 DEF FieldsInv
<1>3. Agreed(fb, mem', shadow)
  BY <1>1, <1>2, EventKeeps
<1> QED BY <1>1, <1>2, <1>3 DEF FieldsInv

(* A call that begins fits.                                                *)
LEMMA FieldsBegin ==
  ASSUME NEW t \in Callers
  PROVE  IInv /\ FieldsInv /\ Begin(t) => FieldsInv'
<1> SUFFICES ASSUME IInv, FieldsInv, Begin(t) PROVE FieldsInv'
  OBVIOUS
<1>1. /\ fb # None /\ Descriptor(fb) /\ UNCHANGED <<mem, fb, shadow>>
      /\ Agreed(fb, mem, shadow) /\ \A u \in Callers : todo[u] # Idle => Fitting(fb, todo[u])
  BY DEF Begin, IInv, FieldsInv
<1>2. PICK c \in Calls(mem, fb) :
        todo' = [todo EXCEPT ![t] = IF c.plan.errno = "none"
                                     THEN [accesses |-> c.plan.accesses, call |-> c]
                                     ELSE Idle]
  BY DEF Begin
<1>3. FitCall(fb, c)
  BY <1>1, EveryCallFits
<1>4. /\ todo'[t] = IF c.plan.errno = "none" THEN [accesses |-> c.plan.accesses, call |-> c]
                                             ELSE Idle
      /\ \A u \in Callers : u # t => todo'[u] = todo[u]
  BY <1>2 DEF IInv
<1>5. todo'[t] # Idle => Fitting(fb, todo'[t])
  <2> DEFINE w == [accesses |-> c.plan.accesses, call |-> c]
  <2>1. w.accesses = c.plan.accesses /\ w.call = c
    OBVIOUS
  <2> HIDE DEF w
  <2>2. c.plan.errno = "none" => Fitting(fb, w)
    BY <1>3, <2>1 DEF Fitting, FitCall, FitPlan
  <2> QED BY <1>4, <2>2 DEF w
<1>6. \A u \in Callers : todo'[u] # Idle => Fitting(fb, todo'[u])
  BY <1>1, <1>4, <1>5
<1> QED BY <1>1, <1>6 DEF FieldsInv

(* A step of a call sets the field that the call is about, if it is the    *)
(* last one, and otherwise none.                                           *)
LEMMA FieldsContinue ==
  ASSUME NEW t \in Callers
  PROVE  IInv /\ FieldsInv /\ Continue(t) => FieldsInv'
<1> SUFFICES ASSUME IInv, FieldsInv, Continue(t) PROVE FieldsInv'
  OBVIOUS
<1> DEFINE s == todo[t].accesses
           c == todo[t].call
           a == Head(s)
           rest == Tail(s)
<1>1. /\ Descriptor(fb) /\ InRegions(mem) /\ Underway(fb, mem, fresh[t], todo[t])
      /\ a \in GoodAccesses(fb, c) /\ mem' = Perform(fb, mem, a)
      /\ \A u \in Callers : u # t => todo'[u] = todo[u]
      /\ UNCHANGED <<fb, fresh, calls, events>>
  BY Continued
<1>2. a \in Requests /\ (Allowed(a) \/ c.asks = "unchecked")
  <2>1. Allowed(a) \/ c.asks = "unchecked"
    BY <1>1, Performed
  <2> QED BY <1>1, <2>1 DEF GoodAccesses
<1>3. /\ Agreed(fb, mem, shadow)
      /\ \A u \in Callers : todo[u] # Idle => Fitting(fb, todo[u])
      /\ Fitting(fb, todo[t])
  <2>1. todo[t] # Idle /\ fb # None
    BY DEF Continue, IInv
  <2> QED BY <2>1 DEF FieldsInv
<1>4. Step(t, c, a, rest)
  BY DEF Continue
<1>5. /\ todo' = [todo EXCEPT ![t] = IF rest = <<>> THEN Idle
                                     ELSE [accesses |-> rest, call |-> c]]
      /\ shadow' = IF rest = <<>> THEN Recorded(c) ELSE shadow
  BY <1>4 DEF Step
<1>6. s \in Seq(GoodAccesses(fb, c)) /\ s # <<>>
  BY <1>1 DEF Underway
<1>7. IF c.asks = "unchecked" THEN Len(s) = 1 ELSE Fit(fb, c.field, c.set, c.of, s)
  BY <1>3 DEF Fitting
<1>8. c.asks = "unchecked" => rest = <<>>
  <2> HIDE DEF s, c
  <2> QED BY <1>6, <1>7
<1>9. c.asks # "unchecked" =>
        /\ rest # <<>> => Misses(fb, a) /\ Fit(fb, c.field, c.set, c.of, rest)
        /\ rest = <<>> => Lands(fb, c.field, c.set, c.of, a)
  <2> HIDE DEF s, c
  <2> QED BY <1>6, <1>7, FitRest
<1> HIDE DEF s, c, a, rest
<1>10. Agreed(fb, mem', shadow')
  <2>1. CASE c.asks = "unchecked"
    <3>1. shadow' = [field \in DOMAIN shadow |-> Answer(mem', ViewOf(fb, field))]
      BY <1>5, <1>8, <2>1 DEF Recorded
    <3>2. DOMAIN shadow' = DOMAIN shadow
          /\ \A F \in DOMAIN shadow : shadow'[F] = Answer(mem', ViewOf(fb, F))
      BY <3>1
    <3>3. \A F \in DOMAIN shadow : F[1] \in Answered[fb.type] /\ \E r \in Layout(fb) : r.field = F
      BY <1>3 DEF Agreed
    <3> QED BY <1>1, <3>2, <3>3, ReadAgrees
  <2>2. CASE c.asks # "unchecked" /\ rest # <<>>
    <3>1. shadow' = shadow /\ Misses(fb, a)
      BY <1>5, <1>9, <2>2
    <3> QED BY <1>1, <1>2, <1>3, <3>1, MissKeeps
  <2>3. CASE c.asks # "unchecked" /\ rest = <<>>
    <3>1. Lands(fb, c.field, c.set, c.of, a) /\ Allowed(a)
      BY <1>2, <1>9, <2>3
    <3>2. shadow' = IF c.field \in DOMAIN shadow
                      THEN [shadow EXCEPT ![c.field] = (@ \ c.of) \cup (c.set \cap c.of)]
                      ELSE shadow
      BY <1>5, <2>3 DEF Recorded
    <3> QED BY <1>1, <1>2, <1>3, <3>1, <3>2, LandSets
  <2> QED BY <2>1, <2>2, <2>3
<1>11. todo'[t] = IF rest = <<>> THEN Idle ELSE [accesses |-> rest, call |-> c]
  BY <1>5 DEF IInv
<1>12. todo'[t] # Idle => Fitting(fb, todo'[t])
  <2> DEFINE w == [accesses |-> rest, call |-> c]
  <2>1. w.accesses = rest /\ w.call = c
    OBVIOUS
  <2> HIDE DEF w
  <2>2. rest # <<>> => Fitting(fb, w)
    BY <1>8, <1>9, <2>1 DEF Fitting
  <2> QED BY <1>11, <2>2 DEF w
<1>13. \A u \in Callers : todo'[u] # Idle => Fitting(fb, todo'[u])
  BY <1>1, <1>3, <1>12
<1> QED BY <1>1, <1>10, <1>13 DEF FieldsInv

(* The fields hold what is recorded of them in every state.                *)
LEMMA FieldsInvariant == Spec => []FieldsInv
<1>1. IInv /\ FieldsInv /\ [Next]_vars => FieldsInv'
  <2> SUFFICES ASSUME IInv, FieldsInv, [Next]_vars PROVE FieldsInv'
    OBVIOUS
  <2>1. CASE Open
    BY <2>1, FieldsOpen
  <2>2. CASE BoardEvent
    BY <2>2, FieldsEvent
  <2>3. ASSUME NEW t \in Callers, Begin(t) PROVE FieldsInv'
    BY <2>3, FieldsBegin
  <2>4. ASSUME NEW t \in Callers, Continue(t) PROVE FieldsInv'
    BY <2>4, FieldsContinue
  <2>5. CASE UNCHANGED vars
    BY <2>5 DEF vars, FieldsInv
  <2> QED BY <2>1, <2>2, <2>3, <2>4, <2>5 DEF Next
<1> QED BY <1>1, FieldsInit, RegistersInvariant, PTL DEF Spec

(* GettersAgree, for a board of any layout: whatever calls the threads are *)
(* in the middle of, a function of a library that asks for a setting       *)
(* answers what the last calls that set it have set, or else what was      *)
(* there at the opening.                                                   *)
THEOREM GettersAlwaysAgree == Spec => []GettersAgree
<1>1. IInv /\ FieldsInv => GettersAgree
  <2> SUFFICES ASSUME IInv, FieldsInv, NEW F \in DOMAIN shadow
               PROVE  Answer(mem, ViewOf(fb, F)) = shadow[F] \cap ViewOf(fb, F).of
    BY DEF GettersAgree
  <2>1. Descriptor(fb) /\ Agreed(fb, mem, shadow)
    BY DEF FieldsInv
  <2>2. F[1] \in Answered[fb.type]
    BY <2>1 DEF Agreed
  <2>3. PICK r \in Layout(fb) : r.field = F /\ HeldIn(fb, mem, r) = shadow[F] \cap r.of
    BY <2>1 DEF Agreed
  <2> QED BY <2>1, <2>2, <2>3, EveryView
<1> QED BY <1>1, FieldsInvariant, RegistersInvariant, PTL

(***************************************************************************)
(* UnitsAgree.  What a call says of the clock, or of the range of a        *)
(* channel, is what its one access writes.                                 *)
(***************************************************************************)
Clock(m) == Gbc_Get_Sys_Clock_Freq(m).freq

(* What the functions make of a rate is less than the clock in hertz.      *)
Dividers == {d \in Nat : d < 100000000}

(* A call on the divider that answers a rate: the register holds one less  *)
(* than the number by which the rate divides the clock.                    *)
Timed(f, m, c, s) ==
  /\ Len(s) = 1 /\ f.type # FUNC_BLOCK.EXT_CLOCKING
  /\ c.field = <<"clk_div">> /\ c.of = Width(32)
  /\ c.rate # 0 => \E d \in Dividers : c.set = Bits(d) /\ c.rate = Clock(m) \div (d + 1)

(* A call on the front end of a channel that sets it up for a range.       *)
Ranging(f, c, s) ==
  /\ Len(s) = 1 /\ f.type \in Analog
  /\ c.field = <<"fe_config", c.field[2]>>
  /\ c.range # None =>
       IF f.type = FUNC_BLOCK.ADC
         THEN c.range \in InputRanges /\ c.of = Width(8) /\ c.set = Bits(224 + c.range.code)
         ELSE c.range \in OutputRanges /\ c.of = Width(3) /\ c.set = Bits(4 + c.range.code)

(* What is left of a call, the accesses s.                                 *)
Telling(f, m, c, s) ==
  /\ c.asks = "unchecked" =>
       f.type = FUNC_BLOCK.DAC /\ c.owner = <<"channel", 150>> /\ c.field = <<"none">>
  /\ c.field[1] = "clk_div" => Timed(f, m, c, s)
  /\ c.field[1] = "fe_config" => Ranging(f, c, s)

(* Most calls are about neither.                                           *)
Silent(c) == c.field[1] \notin {"clk_div", "fe_config"} /\ c.asks # "unchecked"

(* A call that is about neither the clock nor a range has nothing to tell. *)
LEMMA SilentTells ==
  ASSUME NEW f, NEW m, NEW c, Silent(c), NEW s
  PROVE  Telling(f, m, c, s)
BY DEF Silent, Telling

(* The ways in which the calls are put together.                           *)
LEMMA SilentForms ==
  ASSUME NEW field, field \notin {"clk_div", "fe_config"}
  PROVE  /\ \A d, p : Silent(OfBlock(field, d, p)) /\ Silent(OnPinField(field, d, p))
         /\ \A b, d, p : Silent(OnBusField(field, b, d, p))
         /\ \A c, d, of, p : Silent(OnField(field, c, d, of, p))
         /\ \A c, b, d, p : Silent(OnBufferField(c, b, field, d, p))
         /\ \A c, d, of, p : Silent(OnDmaField(c, d, of, p))
         /\ \A s, e, p : Silent(OnIntConfig(s, e, p))
         /\ \A o, p : Silent(Query(o, p))
         /\ \A p : Silent(AskBlock(p))
         /\ \A c, p : Silent(AskChannel(c, p)) /\ Silent(AskFifo(c, p)) /\ Silent(AskDma(c, p))
         /\ \A c, b, p : Silent(AskBuffer(c, b, p))
         /\ \A c, p : Silent(Asking("filter", AskChannel(c, p)))
<1>1. \A o, F, d, of, p : F[1] \notin {"clk_div", "fe_config"} => Silent(Call(o, F, d, of, p))
  BY DEF Call, Silent
<1>2. /\ \A d, p : Silent(OfBlock(field, d, p)) /\ Silent(OnPinField(field, d, p))
      /\ \A b, d, p : Silent(OnBusField(field, b, d, p))
  BY <1>1 DEF OfBlock, OnPinField, OnBusField
<1>3. /\ \A c, d, of, p : Silent(OnField(field, c, d, of, p))
      /\ \A c, b, d, p : Silent(OnBufferField(c, b, field, d, p))
  BY <1>1 DEF OnField, OnBufferField
<1>4. /\ \A c, d, of, p : Silent(OnDmaField(c, d, of, p))
      /\ \A s, e, p : Silent(OnIntConfig(s, e, p))
  BY <1>1 DEF OnDmaField, OnIntConfig
<1>5. \A o, p : Silent(Query(o, p))
  BY <1>1 DEF Query
<1>6. /\ \A p : Silent(AskBlock(p))
      /\ \A c, p : Silent(AskChannel(c, p)) /\ Silent(AskFifo(c, p)) /\ Silent(AskDma(c, p))
      /\ \A c, b, p : Silent(AskBuffer(c, b, p))
  BY <1>5 DEF AskBlock, AskChannel, AskFifo, AskDma, AskBuffer
<1>7. \A c, p : Silent(Asking("filter", AskChannel(c, p)))
  <2> SUFFICES ASSUME NEW c, NEW p
               PROVE  Silent(Asking("filter", AskChannel(c, p)))
    OBVIOUS
  <2> DEFINE x == Asking("filter", AskChannel(c, p))
  <2>1. x.field = <<"none">> /\ x.asks = "filter"
    BY DEF Asking, AskChannel, Query, Call
  <2> HIDE DEF x
  <2>2. Silent(x)
    BY <2>1 DEF Silent
  <2> QED BY <2>2 DEF x
<1> QED BY <1>2, <1>3, <1>4, <1>5, <1>6, <1>7

(* The calls about the board, the DMA, the pins, the interrupts and the    *)
(* external clocks.                                                        *)
LEMMA SilentParts ==
  ASSUME NEW f
  PROVE  /\ \A x \in GbcCalls \cup DmaCalls(f) \cup AdioPinCalls(f) \cup ExtCalls(f) : Silent(x)
         /\ \A x \in AdcInterrupts(f) \cup DacInterrupts(f) \cup AdioInterrupts(f) : Silent(x)
<1>1. \A x \in GbcCalls : Silent(x)
  BY SilentForms DEF GbcCalls
<1>2. ASSUME NEW x \in DmaCalls(f)
      PROVE  Silent(x)
  <2>1. PICK c, b : x \in DmaChannelCalls(f, c) \/ x \in DmaBufferCalls(f, c, b)
    BY DEF DmaCalls
  <2>2. CASE x \in DmaChannelCalls(f, c)
    <3>1. /\ \A d, of, p : Silent(OnDmaField(c, d, of, p))
          /\ \A p : Silent(AskDma(c, p))
      BY SilentForms
    <3> QED BY ONLY <2>2, <3>1 DEF DmaChannelCalls
  <2>3. CASE x \in DmaBufferCalls(f, c, b)
    <3>1. /\ \A d, p : Silent(OnBufferField(c, b, "buffer_ctrl", d, p))
          /\ \A d, p : Silent(OnBufferField(c, b, "buffer_size", d, p))
          /\ \A p : Silent(AskBuffer(c, b, p))
      BY SilentForms
    <3> QED BY ONLY <2>3, <3>1 DEF DmaBufferCalls
  <2> QED BY <2>1, <2>2, <2>3
<1>3. ASSUME NEW x \in AdioPinCalls(f)
      PROVE  Silent(x)
  <2>1. \A field \in {"output", "direction", "adv_int_mode", "adv_int_mask", "adv_int_comp",
                      "adv_int_capt", "p_bus", "p_bus_ready"} :
          \A d, p : Silent(OnPinField(field, d, p))
    BY SilentForms
  <2>2. PICK field \in {"output", "direction", "adv_int_mode", "adv_int_mask", "adv_int_comp",
                        "adv_int_capt", "p_bus", "p_bus_ready"} :
          \E d, p : x = OnPinField(field, d, p)
    BY ONLY <1>3 DEF AdioPinCalls
  <2> QED BY <2>1, <2>2
<1>4. ASSUME NEW x \in ExtCalls(f)
      PROVE  Silent(x)
  <2>1. /\ \A field \in {"dir", "edge"} : \A d, p : Silent(OfBlock(field, d, p))
        /\ \A field \in {"width", "method"} : \A b, d, p : Silent(OnBusField(field, b, d, p))
    BY SilentForms
  <2> QED BY ONLY <1>4, <2>1 DEF ExtCalls
<1>5. \A x \in AdcInterrupts(f) \cup DacInterrupts(f) \cup AdioInterrupts(f) : Silent(x)
  <2>1. /\ \A s, e, p : Silent(OnIntConfig(s, e, p))
        /\ \A p : Silent(AskBlock(p))
    BY SilentForms
  <2> QED BY ONLY <2>1 DEF AdcInterrupts, DacInterrupts, AdioInterrupts, IntConfig
<1> QED BY <1>1, <1>2, <1>3, <1>4, <1>5

(* The calls that are accepted tell what they do.                          *)
Tells(f, m, c) == c.plan.errno = "none" => Telling(f, m, c, c.plan.accesses)

(* A divider that is given as it is: no rate is answered.                  *)
LEMMA DividerTells ==
  ASSUME NEW f, f.type # FUNC_BLOCK.EXT_CLOCKING, NEW m, NEW d, NEW a
  PROVE  Tells(f, m, OfBlock("clk_div", d, Request(<<a>>)))
<1> DEFINE x == OfBlock("clk_div", d, Request(<<a>>))
<1>1. /\ x.field = <<"clk_div">> /\ x.of = Width(32) /\ x.rate = 0 /\ x.asks = ""
      /\ x.plan.accesses = <<a>>
  BY DEF OfBlock, Call, Request
<1> HIDE DEF x
<1>2. Telling(f, m, x, x.plan.accesses)
  <2>1. Len(x.plan.accesses) = 1 /\ x.field[1] = "clk_div"
    <3>1. Len(<<a>>) = 1 /\ <<"clk_div">>[1] = "clk_div"
      OBVIOUS
    <3> QED BY ONLY <1>1, <3>1
  <2>2. Timed(f, m, x, x.plan.accesses)
    BY <1>1, <2>1 DEF Timed
  <2> QED BY <1>1, <2>1, <2>2 DEF Telling
<1> QED BY <1>2 DEF Tells, x

(* The calls about a block.                                                *)
LEMMA BlocksTell ==
  ASSUME NEW f, NEW m
  PROVE  /\ f.type = FUNC_BLOCK.ADC => \A x \in AdcBlockCalls(f) : Tells(f, m, x)
         /\ f.type = FUNC_BLOCK.DAC => \A x \in DacBlockCalls(f) : Tells(f, m, x)
         /\ f.type = FUNC_BLOCK.ADIO => \A x \in AdioBlockCalls(f) : Tells(f, m, x)
<1>1. /\ \A field \in {"start_trigger", "stop_trigger", "clock_src", "pre", "post"} :
           \A d, p : Silent(OfBlock(field, d, p))
      /\ \A b, d, p : Silent(OnBusField("bus", b, d, p))
      /\ \A p : Silent(AskBlock(p))
  BY SilentForms
<1>2. \A x : Silent(x) => Tells(f, m, x)
  BY SilentTells DEF Tells
<1>3. f.type # FUNC_BLOCK.EXT_CLOCKING =>
        \A d, p : (\E a : p = Request(<<a>>)) => Tells(f, m, OfBlock("clk_div", d, p))
  BY DividerTells
<1>4. ASSUME f.type = FUNC_BLOCK.ADC, NEW x \in AdcBlockCalls(f)
      PROVE  Tells(f, m, x)
  <2>1. \A d : Tells(f, m, OfBlock("clk_div", d, Adc_Set_Clk_Divider(f, d)))
    <3>1. f.type # FUNC_BLOCK.EXT_CLOCKING
      BY <1>4 DEF FUNC_BLOCK
    <3>2. \A d : \E a : Adc_Set_Clk_Divider(f, d) = Request(<<a>>)
      BY DEF Adc_Set_Clk_Divider
    <3> QED BY <1>3, <3>1, <3>2
  <2>2. Silent(x) \/ \E d : x = OfBlock("clk_div", d, Adc_Set_Clk_Divider(f, d))
    BY ONLY <1>1, <1>4 DEF AdcBlockCalls
  <2> QED BY <1>2, <2>1, <2>2
<1>5. ASSUME f.type = FUNC_BLOCK.DAC, NEW x \in DacBlockCalls(f)
      PROVE  Tells(f, m, x)
  <2>1. \A d : Tells(f, m, OfBlock("clk_div", d, Dac_Set_Clock_Div(f, d)))
    <3>1. f.type # FUNC_BLOCK.EXT_CLOCKING
      BY <1>5 DEF FUNC_BLOCK
    <3>2. \A d : \E a : Dac_Set_Clock_Div(f, d) = Request(<<a>>)
      BY DEF Dac_Set_Clock_Div
    <3> QED BY <1>3, <3>1, <3>2
  <2>2. Silent(x) \/ \E d : x = OfBlock("clk_div", d, Dac_Set_Clock_Div(f, d))
    BY ONLY <1>1, <1>5 DEF DacBlockCalls
  <2> QED BY <1>2, <2>1, <2>2
<1>6. ASSUME f.type = FUNC_BLOCK.ADIO, NEW x \in AdioBlockCalls(f)
      PROVE  Tells(f, m, x)
  <2>1. \A d : Tells(f, m, OfBlock("clk_div", d, Adio_Set_Clk_Divider(f, d)))
    <3>1. f.type # FUNC_BLOCK.EXT_CLOCKING
      BY <1>6 DEF FUNC_BLOCK
    <3>2. \A d : \E a : Adio_Set_Clk_Divider(f, d) = Request(<<a>>)
      BY DEF Adio_Set_Clk_Divider
    <3> QED BY <1>3, <3>1, <3>2
  <2>2. Silent(x) \/ \E d : x = OfBlock("clk_div", d, Adio_Set_Clk_Divider(f, d))
    BY ONLY <1>1, <1>6 DEF AdioBlockCalls
  <2> QED BY <1>2, <2>1, <2>2
<1> QED BY <1>4, <1>5, <1>6

(* A function that sets the range of a channel, or that resets it, makes   *)
(* one access.                                                             *)
LEMMA OneAccess ==
  ASSUME NEW v, NEW a, NEW p, p = Checked(v, <<a>>), p.errno = "none"
  PROVE  Len(p.accesses) = 1 /\ v
<1>1. CASE v
  BY <1>1 DEF Checked, Request
<1>2. CASE ~v
  <2>1. p.errno = "EINVAL"
    BY <1>2 DEF Checked, Rejected
  <2> QED BY <2>1
<1> QED BY <1>1, <1>2

(* A checked write of a front end, by a call that sets the channel up for  *)
(* a range or by one that does not.                                        *)
LEMMA FrontEndTells ==
  ASSUME NEW f, f.type \in Analog, NEW m, NEW c, NEW v, NEW a, NEW d, NEW of,
         NEW plan, plan = Checked(v, <<a>>)
  PROVE  /\ Tells(f, m, OnField("fe_config", c, d, of, plan))
         /\ \A r : (IF f.type = FUNC_BLOCK.ADC
                      THEN r \in InputRanges /\ of = Width(8) /\ d = Bits(224 + r.code)
                      ELSE r \in OutputRanges /\ of = Width(3) /\ d = Bits(4 + r.code))
                   => Tells(f, m, Ranged(r, OnField("fe_config", c, d, of, plan)))
<1> DEFINE F == <<"fe_config", c>>
<1>1. plan.errno = "none" => Len(plan.accesses) = 1
  BY OneAccess
<1>2. F[1] = "fe_config" /\ F = <<"fe_config", F[2]>>
  OBVIOUS
<1> HIDE DEF F
<1>3. ASSUME NEW x, x.field = F, x.plan = plan, x.asks = "", x.plan.errno = "none",
             x.range # None =>
               IF f.type = FUNC_BLOCK.ADC
                 THEN x.range \in InputRanges /\ x.of = Width(8) /\ x.set = Bits(224 + x.range.code)
                 ELSE x.range \in OutputRanges /\ x.of = Width(3) /\ x.set = Bits(4 + x.range.code)
      PROVE  Telling(f, m, x, x.plan.accesses)
  <2>1. Ranging(f, x, x.plan.accesses)
    BY <1>1, <1>2, <1>3 DEF Ranging
  <2> QED BY <1>2, <1>3, <2>1 DEF Telling
<1>4. Tells(f, m, OnField("fe_config", c, d, of, plan))
  <2> DEFINE x == OnField("fe_config", c, d, of, plan)
  <2>1. x.field = F /\ x.plan = plan /\ x.asks = "" /\ x.range = None
    BY DEF OnField, Call, F
  <2> HIDE DEF x
  <2>2. Tells(f, m, x)
    BY <1>3, <2>1 DEF Tells
  <2> QED BY <2>2 DEF x
<1>5. ASSUME NEW r,
             IF f.type = FUNC_BLOCK.ADC
               THEN r \in InputRanges /\ of = Width(8) /\ d = Bits(224 + r.code)
               ELSE r \in OutputRanges /\ of = Width(3) /\ d = Bits(4 + r.code)
      PROVE  Tells(f, m, Ranged(r, OnField("fe_config", c, d, of, plan)))
  <2> DEFINE x == Ranged(r, OnField("fe_config", c, d, of, plan))
  <2>1. /\ x.field = F /\ x.plan = plan /\ x.asks = "" /\ x.range = r
        /\ x.of = of /\ x.set = d
    BY DEF Ranged, OnField, Call, F
  <2> HIDE DEF x
  <2>2. Tells(f, m, x)
    BY <1>3, <1>5, <2>1 DEF Tells
  <2> QED BY <2>2 DEF x
<1> QED BY <1>4, <1>5

(* The calls about the channels of an ADC, and of a DAC.                   *)
LEMMA ChannelsTell ==
  ASSUME NEW f, NEW m, NEW c
  PROVE  /\ f.type = FUNC_BLOCK.ADC => \A x \in AdcChannelCalls(f, c) : Tells(f, m, x)
         /\ f.type = FUNC_BLOCK.DAC =>
              \A x \in DacChannelCalls(f, c) \cup DacTrustingCalls(f, c) : Tells(f, m, x)
<1>1. /\ \A field \in {"chan_int", "filter", "low", "high", "marker_config", "last"} :
           \A d, of, p : Silent(OnField(field, c, d, of, p))
      /\ \A p : Silent(AskChannel(c, p)) /\ Silent(AskFifo(c, p))
      /\ \A p : Silent(Asking("filter", AskChannel(c, p)))
  BY SilentForms
<1>2. \A x : Silent(x) => Tells(f, m, x)
  BY SilentTells DEF Tells
<1>3. ASSUME f.type = FUNC_BLOCK.ADC, NEW x \in AdcChannelCalls(f, c)
      PROVE  Tells(f, m, x)
  <2>1. f.type \in Analog
    BY <1>3 DEF Analog
  <2>2. ASSUME NEW r \in InputRanges
        PROVE  Tells(f, m, Ranged(r, OnField("fe_config", c, Bits(64 * 3 + r.code + ADC_FE_CONFIG.ENABLE),
                                             Width(8), Adc_Channel_Setup(f, c, 3, r, "single_ended"))))
    <3>1. 64 * 3 + r.code + ADC_FE_CONFIG.ENABLE = 224 + r.code
      BY DEF ADC_FE_CONFIG, InputRanges
    <3>2. PICK v, a : Adc_Channel_Setup(f, c, 3, r, "single_ended") = Checked(v, <<a>>)
      BY DEF Adc_Channel_Setup
    <3> QED BY <1>3, <2>1, <3>1, <3>2, FrontEndTells
  <2>3. Tells(f, m, OnField("fe_config", c, {}, Width(16), Adc_Channel_Reset(f, c)))
    <3>1. PICK v, a : Adc_Channel_Reset(f, c) = Checked(v, <<a>>)
      BY DEF Adc_Channel_Reset, OnChannel
    <3> QED BY <2>1, <3>1, FrontEndTells
  <2>4. \/ Silent(x)
        \/ \E r \in InputRanges :
             x = Ranged(r, OnField("fe_config", c, Bits(64 * 3 + r.code + ADC_FE_CONFIG.ENABLE),
                                   Width(8), Adc_Channel_Setup(f, c, 3, r, "single_ended")))
        \/ x = OnField("fe_config", c, {}, Width(16), Adc_Channel_Reset(f, c))
    BY ONLY <1>1, <1>3 DEF AdcChannelCalls
  <2> QED BY <1>2, <2>2, <2>3, <2>4
<1>4. ASSUME f.type = FUNC_BLOCK.DAC, NEW x \in DacChannelCalls(f, c)
      PROVE  Tells(f, m, x)
  <2>1. f.type \in Analog /\ f.type # FUNC_BLOCK.ADC
    BY <1>4 DEF Analog, FUNC_BLOCK
  <2>2. ASSUME NEW r \in OutputRanges
        PROVE  Tells(f, m, Ranged(r, OnField("fe_config", c, Bits(DAC_FE_CONFIG.ENABLE + r.code),
                                             Width(3), Dac_Channel_Setup(f, c, r))))
    <3>1. DAC_FE_CONFIG.ENABLE + r.code = 4 + r.code
      BY DEF DAC_FE_CONFIG
    <3>2. PICK v, a : Dac_Channel_Setup(f, c, r) = Checked(v, <<a>>)
      BY DEF Dac_Channel_Setup
    <3> QED BY <2>1, <3>1, <3>2, FrontEndTells
  <2>3. Tells(f, m, OnField("fe_config", c, {}, Width(16), Dac_Channel_Reset(f, c)))
    <3>1. PICK v, a : Dac_Channel_Reset(f, c) = Checked(v, <<a>>)
      BY DEF Dac_Channel_Reset
    <3> QED BY <2>1, <3>1, FrontEndTells
  <2>4. \/ Silent(x)
        \/ \E r \in OutputRanges :
             x = Ranged(r, OnField("fe_config", c, Bits(DAC_FE_CONFIG.ENABLE + r.code),
                                   Width(3), Dac_Channel_Setup(f, c, r)))
        \/ x = OnField("fe_config", c, {}, Width(16), Dac_Channel_Reset(f, c))
    BY ONLY <1>1, <1>4 DEF DacChannelCalls
  <2> QED BY <1>2, <2>2, <2>3, <2>4
<1>5. ASSUME NEW x \in DacTrustingCalls(f, c)
      PROVE  Tells(f, m, x)
  <2>1. Silent(x)
    BY ONLY <1>1, <1>5 DEF DacTrustingCalls
  <2> QED BY <1>2, <2>1
<1> QED BY <1>3, <1>4, <1>5

(* The clock divided by a rate that a function accepts.                    *)
LEMMA RateQuotient ==
  ASSUME NEW clock \in Nat, clock >= 40000000, clock <= 100000000,
         NEW r \in Nat, r > 0, r <= 4000000
  PROVE  clock \div r \in Nat /\ clock \div r >= 10 /\ clock \div r <= 100000000
<1> DEFINE q == clock \div r
<1>1. q \in Nat /\ q * r <= clock /\ clock < (q + 1) * r
  BY SMT
<1> HIDE DEF q
<1>2. q >= 10
  <2> SUFFICES ASSUME q <= 9 PROVE FALSE
    BY <1>1
  <2>1. (q + 1) * r <= 10 * r
    BY <1>1, SMT
  <2> QED BY <1>1, <2>1, SMT
<1>3. q <= 100000000
  <2>1. q <= q * r
    BY <1>1, SMT
  <2> QED BY <1>1, <2>1, SMT
<1> QED BY <1>1, <1>2, <1>3 DEF q

(* The divider that an ADC is given, and that a DAC or an ADIO is given.   *)
LEMMA RateDividers ==
  ASSUME NEW clock \in Nat, clock >= 40000000, clock <= 100000000, NEW r \in Nat, r > 0
  PROVE  /\ r <= ADC_MAX_RATE =>
              /\ AdcDivider(clock, r) - 1 \in Dividers
              /\ AdcActualRate(clock, r) = clock \div ((AdcDivider(clock, r) - 1) + 1)
         /\ r <= ADIO_MAX_FREQ =>
              /\ PacerDivider(clock \div r) \in Dividers
              /\ PacerActualRate(clock, r) = clock \div (PacerDivider(clock \div r) + 1)
<1> DEFINE q == clock \div r
<1>1. r <= 4000000 => q \in Nat /\ q >= 10 /\ q <= 100000000
  BY RateQuotient
<1>2. ADC_MAX_RATE <= ADIO_MAX_FREQ /\ ADIO_MAX_FREQ = 4000000 /\ ADC_MAX_RATE = 1250000
  BY SMT DEF ADC_MAX_RATE, ADIO_MAX_FREQ
<1>3. r <= ADC_MAX_RATE => r <= 4000000
  BY <1>2, SMT
<1>4. PacerActualRate(clock, r) = clock \div q
  BY DEF PacerActualRate
<1>5. AdcDivider(clock, r) = Max({q, 1}) /\ AdcActualRate(clock, r) = clock \div AdcDivider(clock, r)
  BY DEF AdcDivider, AdcActualRate
<1> HIDE DEF q
<1>6. ASSUME r <= 4000000
      PROVE  /\ Max({q, 1}) = q
             /\ q - 1 \in Dividers /\ (q - 1) + 1 = q
             /\ PacerDivider(q) = q - 1
  <2>1. Max({q, 1}) = q
    <3>1. \A x \in {q, 1} : (\A y \in {q, 1} : x >= y) <=> x = q
      BY <1>1, <1>6, SMT
    <3> QED BY <3>1 DEF Max
  <2>2. q - 1 \in Dividers /\ (q - 1) + 1 = q
    <3>1. q \in Nat /\ q >= 10 /\ q <= 100000000
      BY <1>1, <1>6
    <3>2. (q - 1) + 1 = q
      BY <3>1, SMT
    <3>3. \A n \in Nat : n >= 10 /\ n <= 100000000 => n - 1 \in {d \in Nat : d < 100000000}
      BY SMT
    <3> QED BY <3>1, <3>2, <3>3, SMT DEF Dividers
  <2>3. PacerDivider(q) = q - 1
    BY <1>1, <1>6, SMT DEF PacerDivider
  <2> QED BY <2>1, <2>2, <2>3
<1>7. ASSUME r <= ADC_MAX_RATE
      PROVE  /\ AdcDivider(clock, r) - 1 \in Dividers
             /\ AdcActualRate(clock, r) = clock \div ((AdcDivider(clock, r) - 1) + 1)
  <2>1. AdcDivider(clock, r) = q /\ q - 1 \in Dividers /\ (q - 1) + 1 = q
    BY <1>3, <1>5, <1>6, <1>7
  <2> QED BY <1>5, <2>1
<1>8. ASSUME r <= ADIO_MAX_FREQ
      PROVE  /\ PacerDivider(q) \in Dividers
             /\ PacerActualRate(clock, r) = clock \div (PacerDivider(q) + 1)
  BY <1>2, <1>4, <1>6, <1>8
<1> QED BY <1>7, <1>8 DEF q

(* A call on the divider that answers the rate that it makes.              *)
LEMMA RatedTells ==
  ASSUME NEW f, f.type # FUNC_BLOCK.EXT_CLOCKING, NEW m, NEW d \in Dividers, NEW start,
         NEW n, n = Clock(m) \div (d + 1), NEW plan, plan = Request(<<Write(start, 32, Bits(d))>>)
  PROVE  Tells(f, m, Rated("clk_div", m, plan, n))
<1> DEFINE x == Rated("clk_div", m, plan, n)
           a == Write(start, 32, Bits(d))
<1>1. a.data = Bits(d)
  BY DEF Write, Access
<1>2. plan.accesses = <<a>>
  BY DEF Request
<1> HIDE DEF a
<1>3. Len(<<a>>) = 1 /\ <<a>>[1] = a /\ <<"clk_div">>[1] = "clk_div"
  OBVIOUS
<1>4. /\ x.field = <<"clk_div">> /\ x.of = Width(32) /\ x.rate = n /\ x.asks = ""
      /\ x.plan = plan /\ x.set = plan.accesses[1].data
  BY DEF Rated, OfBlock, Call
<1> HIDE DEF x
<1>5. x.set = Bits(d) /\ Len(x.plan.accesses) = 1 /\ x.field[1] = "clk_div"
  BY ONLY <1>1, <1>2, <1>3, <1>4
<1>6. Timed(f, m, x, x.plan.accesses)
  BY <1>4, <1>5 DEF Timed
<1>7. Telling(f, m, x, x.plan.accesses)
  BY <1>4, <1>5, <1>6 DEF Telling
<1> QED BY <1>7 DEF Tells, x

(* The functions that compute a divider from a rate tell what it is.       *)
LEMMA RatesTell ==
  ASSUME NEW f, NEW m
  PROVE  /\ f.type = FUNC_BLOCK.ADC => \A x \in AdcRates(m, f) : Tells(f, m, x)
         /\ f.type = FUNC_BLOCK.DAC => \A x \in DacRates(m, f) : Tells(f, m, x)
         /\ f.type = FUNC_BLOCK.ADIO => \A x \in AdioRates(m, f) : Tells(f, m, x)
<1> DEFINE clock == Clock(m)
           std == Gbc_Get_Sys_Clock_Freq(m).is_std_clk
<1>1. std => clock \in Nat /\ clock >= 40000000 /\ clock <= 100000000
  BY StandardClock DEF Clock
<1>2. "EINVAL" # "none" /\ "ENODEV" # "none"
  OBVIOUS
<1>3. \A errno : Rejected(errno).errno = errno
  BY DEF Rejected
<1>4. \A plan : Tells(f, m, AskBlock(plan))
  <2>1. \A plan : Silent(AskBlock(plan))
    BY SilentForms
  <2> QED BY <2>1, SilentTells DEF Tells
<1> HIDE DEF clock, std
<1>5. ASSUME f.type = FUNC_BLOCK.ADC, NEW r \in Nat, Adc_Set_Sample_Rate(m, f, r).errno = "none"
      PROVE  Tells(f, m, Rated("clk_div", m, Adc_Set_Sample_Rate(m, f, r), AdcActualRate(clock, r)))
  <2> DEFINE plan == Adc_Set_Sample_Rate(m, f, r)
             d == AdcDivider(clock, r) - 1
             start == AdcReg(f, ADC.CLK_DIV)
  <2>1. r \in 1 .. ADC_MAX_RATE /\ std
    <3>1. CASE r \notin 1 .. ADC_MAX_RATE
      <4>1. plan = Rejected("EINVAL")
        BY <3>1 DEF Adc_Set_Sample_Rate
      <4> QED BY <1>2, <1>3, <1>5, <4>1
    <3>2. CASE r \in 1 .. ADC_MAX_RATE /\ ~std
      <4>1. plan = Rejected("ENODEV")
        BY <3>2 DEF Adc_Set_Sample_Rate, std
      <4> QED BY <1>2, <1>3, <1>5, <4>1
    <3> QED BY <3>1, <3>2
  <2>2. plan = Request(<<Write(start, 32, Bits(d))>>)
    BY <2>1 DEF Adc_Set_Sample_Rate, Adc_Set_Clk_Divider, std, clock, Clock
  <2>3. r > 0 /\ r <= ADC_MAX_RATE
    BY <2>1
  <2>4. d \in Dividers /\ AdcActualRate(clock, r) = clock \div (d + 1)
    BY <1>1, <2>1, <2>3, RateDividers
  <2>5. f.type # FUNC_BLOCK.EXT_CLOCKING
    BY <1>5 DEF FUNC_BLOCK
  <2> HIDE DEF plan, d, start
  <2>6. Tells(f, m, Rated("clk_div", m, plan, AdcActualRate(clock, r)))
    BY <2>2, <2>4, <2>5, RatedTells DEF clock
  <2> QED BY <2>6 DEF plan
<1>6. ASSUME f.type # FUNC_BLOCK.EXT_CLOCKING, NEW r \in Nat, NEW max \in Nat,
             max <= ADIO_MAX_FREQ, NEW start, NEW plan, plan = PacerRate(m, r, max, start),
             plan.errno = "none"
      PROVE  Tells(f, m, Rated("clk_div", m, plan, PacerActualRate(clock, r)))
  <2> DEFINE d == PacerDivider(clock \div r)
  <2>1. r \in 1 .. max /\ std
    <3>1. CASE r \notin 1 .. max
      <4>1. plan = Rejected("EINVAL")
        BY <1>6, <3>1 DEF PacerRate
      <4> QED BY <1>2, <1>3, <1>6, <4>1
    <3>2. CASE r \in 1 .. max /\ ~std
      <4>1. plan = Rejected("ENODEV")
        BY <1>6, <3>2 DEF PacerRate, std
      <4> QED BY <1>2, <1>3, <1>6, <4>1
    <3> QED BY <3>1, <3>2
  <2>2. plan = Request(<<Write(start, 32, Bits(d))>>)
    BY <1>6, <2>1 DEF PacerRate, std, clock, Clock
  <2>3. r > 0 /\ r <= ADIO_MAX_FREQ
    BY <1>6, <2>1 DEF ADIO_MAX_FREQ
  <2>4. d \in Dividers /\ PacerActualRate(clock, r) = clock \div (d + 1)
    BY <1>1, <2>1, <2>3, RateDividers
  <2> HIDE DEF d
  <2> QED BY <1>6, <2>2, <2>4, RatedTells DEF clock
<1>7. /\ \A r \in Rates(ADC_MAX_RATE) \cup Rates(DAC_MAX_RATE) \cup Rates(ADIO_MAX_FREQ) : r \in Nat
      /\ DAC_MAX_RATE \in Nat /\ ADIO_MAX_FREQ \in Nat /\ DAC_MAX_RATE <= ADIO_MAX_FREQ
  BY SMT DEF Rates, ADC_MAX_RATE, DAC_MAX_RATE, ADIO_MAX_FREQ
<1>8. ASSUME f.type = FUNC_BLOCK.ADC, NEW x \in AdcRates(m, f)
      PROVE  Tells(f, m, x)
  <2>1. \/ \E plan : x = AskBlock(plan)
        \/ \E r \in Rates(ADC_MAX_RATE) :
             /\ Adc_Set_Sample_Rate(m, f, r).errno = "none"
             /\ x = Rated("clk_div", m, Adc_Set_Sample_Rate(m, f, r), AdcActualRate(clock, r))
    BY ONLY <1>8 DEF AdcRates, RateCalls, clock, Clock
  <2> QED BY <1>4, <1>5, <1>7, <1>8, <2>1
<1>9. ASSUME f.type = FUNC_BLOCK.DAC, NEW x \in DacRates(m, f)
      PROVE  Tells(f, m, x)
  <2>1. \/ \E plan : x = AskBlock(plan)
        \/ \E r \in Rates(DAC_MAX_RATE) :
             /\ Dac_Set_Conversion_Rate(m, f, r).errno = "none"
             /\ x = Rated("clk_div", m, Dac_Set_Conversion_Rate(m, f, r), PacerActualRate(clock, r))
    BY ONLY <1>9 DEF DacRates, RateCalls, clock, Clock
  <2>2. f.type # FUNC_BLOCK.EXT_CLOCKING
    BY <1>9 DEF FUNC_BLOCK
  <2>3. \A r : Dac_Set_Conversion_Rate(m, f, r) = PacerRate(m, r, DAC_MAX_RATE, DacReg(f, DAC.CLK_DIV))
    BY DEF Dac_Set_Conversion_Rate
  <2> QED BY <1>4, <1>6, <1>7, <2>1, <2>2, <2>3
<1>10. ASSUME f.type = FUNC_BLOCK.ADIO, NEW x \in AdioRates(m, f)
       PROVE  Tells(f, m, x)
  <2>1. \/ \E plan : x = AskBlock(plan)
        \/ \E r \in Rates(ADIO_MAX_FREQ) :
             /\ Adio_Set_Pacer_Clk_Rate(m, f, r).errno = "none"
             /\ x = Rated("clk_div", m, Adio_Set_Pacer_Clk_Rate(m, f, r), PacerActualRate(clock, r))
    BY ONLY <1>10 DEF AdioRates, RateCalls, clock, Clock
  <2>2. f.type # FUNC_BLOCK.EXT_CLOCKING
    BY <1>10 DEF FUNC_BLOCK
  <2>3. \A r : Adio_Set_Pacer_Clk_Rate(m, f, r)
                = PacerRate(m, r, ADIO_MAX_FREQ, AdioReg(f, ADIO.CLK_DIV))
    BY DEF Adio_Set_Pacer_Clk_Rate
  <2>4. ADIO_MAX_FREQ <= ADIO_MAX_FREQ
    BY <1>7
  <2> HIDE DEF clock
  <2> QED BY <1>4, <1>6, <1>7, <2>1, <2>2, <2>3, <2>4
<1> QED BY <1>8, <1>9, <1>10

(* The call that is given a channel that there is not.                     *)
LEMMA UncheckedTells ==
  ASSUME NEW f, f.type = FUNC_BLOCK.DAC, NEW m, NEW p
  PROVE  Tells(f, m, Asking("unchecked", AskChannel(150, p)))
<1> DEFINE x == Asking("unchecked", AskChannel(150, p))
<1>1. x.field = <<"none">> /\ x.owner = <<"channel", 150>>
  BY DEF Asking, AskChannel, Query, Call
<1>2. <<"none">>[1] = "none"
  OBVIOUS
<1> HIDE DEF x
<1>3. x.field[1] = "none"
  BY ONLY <1>1, <1>2
<1> QED BY <1>1, <1>3 DEF Tells, Telling, x

(* Every call tells what it does.                                          *)
LEMMA EveryCallTells ==
  ASSUME NEW f, Descriptor(f), NEW m, NEW x \in Calls(m, f)
  PROVE  Tells(f, m, x)
<1>1. \A y : Silent(y) => Tells(f, m, y)
  BY SilentTells DEF Tells
<1>2. \A y \in GbcCalls \cup DmaCalls(f) \cup AdioPinCalls(f) \cup ExtCalls(f) : Tells(f, m, y)
  BY <1>1, SilentParts
<1>3. \A y \in AdcInterrupts(f) \cup DacInterrupts(f) \cup AdioInterrupts(f) : Tells(f, m, y)
  BY <1>1, SilentParts
<1>4. \A c, p : Tells(f, m, AskChannel(c, p)) /\ Tells(f, m, AskFifo(c, p))
  <2>1. \A c, p : Silent(AskChannel(c, p)) /\ Silent(AskFifo(c, p))
    BY SilentForms
  <2> QED BY <1>1, <2>1
<1>5. ASSUME f.type = FUNC_BLOCK.ADC, NEW y \in AdcCalls(m, f)
      PROVE  Tells(f, m, y)
  <2>1. /\ \A z \in AdcBlockCalls(f) : Tells(f, m, z)
        /\ \A z \in AdcRates(m, f) : Tells(f, m, z)
        /\ \A c : \A z \in AdcChannelCalls(f, c) : Tells(f, m, z)
    BY <1>5, BlocksTell, RatesTell, ChannelsTell
  <2>2. \/ y \in AdcBlockCalls(f) \/ y \in AdcRates(m, f) \/ y \in AdcInterrupts(f)
        \/ \E c : y \in AdcChannelCalls(f, c)
        \/ \E c, p : y = AskChannel(c, p)
    BY ONLY <1>5 DEF AdcCalls
  <2> QED BY <1>3, <1>4, <2>1, <2>2
<1>6. ASSUME f.type = FUNC_BLOCK.DAC, NEW y \in DacCalls(m, f)
      PROVE  Tells(f, m, y)
  <2>1. /\ \A z \in DacBlockCalls(f) : Tells(f, m, z)
        /\ \A z \in DacRates(m, f) : Tells(f, m, z)
        /\ \A c : \A z \in DacChannelCalls(f, c) \cup DacTrustingCalls(f, c) : Tells(f, m, z)
        /\ \A p : Tells(f, m, Asking("unchecked", AskChannel(150, p)))
    BY <1>6, BlocksTell, RatesTell, ChannelsTell, UncheckedTells
  <2>2. \/ y \in DacBlockCalls(f) \/ y \in DacRates(m, f) \/ y \in DacInterrupts(f)
        \/ \E c : y \in DacChannelCalls(f, c) \cup DacTrustingCalls(f, c)
        \/ \E p : y = Asking("unchecked", AskChannel(150, p))
    BY ONLY <1>6 DEF DacCalls
  <2> QED BY <1>3, <2>1, <2>2
<1>7. ASSUME f.type = FUNC_BLOCK.ADIO, NEW y \in AdioCalls(m, f)
      PROVE  Tells(f, m, y)
  <2>1. /\ \A z \in AdioBlockCalls(f) : Tells(f, m, z)
        /\ \A z \in AdioRates(m, f) : Tells(f, m, z)
    BY <1>7, BlocksTell, RatesTell
  <2>2. \/ y \in AdioBlockCalls(f) \/ y \in AdioRates(m, f) \/ y \in AdioInterrupts(f)
        \/ y \in AdioPinCalls(f)
        \/ \E c, p : y = AskFifo(c, p)
    BY ONLY <1>7 DEF AdioCalls
  <2> QED BY <1>2, <1>3, <1>4, <2>1, <2>2
<1>8. ASSUME NEW y \in KindCalls(m, f)
      PROVE  Tells(f, m, y)
  <2>1. /\ f.type = FUNC_BLOCK.ADC => KindCalls(m, f) = AdcCalls(m, f)
        /\ f.type = FUNC_BLOCK.DAC => KindCalls(m, f) = DacCalls(m, f)
        /\ f.type = FUNC_BLOCK.ADIO => KindCalls(m, f) = AdioCalls(m, f)
        /\ f.type = FUNC_BLOCK.EXT_CLOCKING => KindCalls(m, f) = ExtCalls(f)
    BY DEF KindCalls, FUNC_BLOCK
  <2>2. f.type \in Blocks4
    BY DEF Descriptor
  <2> QED BY <1>2, <1>5, <1>6, <1>7, <1>8, <2>1, <2>2 DEF Blocks4
<1> QED BY <1>2, <1>8 DEF Calls

(* A half without a mask holds what is stored, as far as the access says   *)
(* what that is.                                                           *)
LEMMA StoresField ==
  ASSUME NEW f, Descriptor(f), NEW m, InRegions(m), NEW r \in Layout(f), NEW a \in Requests,
         NEW set, NEW of, Stores(f, r, a, set, of), Allowed(a), of \subseteq r.slots
  PROVE  HeldIn(f, Perform(f, m, a), r) \cap of = set \cap of
<1> DEFINE n == Perform(f, m, a)
           at == At(f, r)
<1>1. /\ at \in Nat /\ r.shift = 16 /\ r.wide = 4 /\ r.slots = Width(16)
  BY RowFacts DEF Shaped, Stores
<1>2. /\ a.region = "FB" /\ a.offset = at /\ a.size = 32 /\ a.op = "write"
      /\ at \notin Maskable(f)
  BY <1>1 DEF Stores
<1>3. at \notin WriteOneToClear(f)
  BY RowsAndSpecial
<1>4. m \in [{"GBC", "FB"} -> SUBSET Int]
  BY DEF InRegions
<1> HIDE DEF at
<1>5. n = [m EXCEPT !["FB"] = region_write(@, at, 32, a.data)]
  <2>1. n = BoardWrite(f, m, a, a.data)
    BY <1>2 DEF Perform
  <2>2. BoardWrite(f, m, a, a.data) = [m EXCEPT !["FB"] = region_write(@, at, 32, a.data)]
    BY <1>2, <1>3 DEF BoardWrite
  <2> QED BY <2>1, <2>2
<1>6. n["FB"] = region_write(m["FB"], at, 32, a.data)
  BY <1>4, <1>5
<1> HIDE DEF n
<1>7. \A i \in Width(32) : 8 * at + i \in region_write(m["FB"], at, 32, a.data) <=> i \in a.data
  BY <1>1, BitsAfterWrite
<1>8. ASSUME NEW b \in of
      PROVE  b \in HeldIn(f, n, r) <=> b \in set
  <2>1. b \in r.slots /\ b \in Nat /\ b + 16 \in Width(32) /\ 8 * at + 16 + b = 8 * at + (b + 16)
    BY <1>1 DEF Width
  <2>2. b + 16 \in a.data <=> b \in set
    BY <2>1 DEF Stores
  <2>3. b \in HeldIn(f, n, r) <=> 8 * at + 16 + b \in n["FB"]
    BY <1>1, <2>1 DEF HeldIn, at
  <2> QED BY <1>6, <1>7, <2>1, <2>2, <2>3
<1> QED BY <1>8 DEF n

(* What the last access of a call does to the settings that are followed:  *)
(* the one that the call is about holds what it sets, the others what they *)
(* held.                                                                   *)
LEMMA LandHolds ==
  ASSUME NEW f, Descriptor(f), NEW m, InRegions(m), NEW a \in Requests, Allowed(a),
         NEW F, NEW set, NEW of, Lands(f, F, set, of, a), NEW r \in Layout(f)
  PROVE  /\ r.field # F => HeldIn(f, Perform(f, m, a), r) = HeldIn(f, m, r)
         /\ r.field = F /\ F[1] \in Known(f) /\ of \subseteq r.slots
              => HeldIn(f, Perform(f, m, a), r) \cap of = set \cap of
<1> DEFINE n == Perform(f, m, a)
<1>1. CASE F[1] \notin Known(f) /\ Misses(f, a)
  BY <1>1, ClearKeeps DEF Misses
<1>2. ASSUME NEW s \in Layout(f), s.field = F, Sets(f, s, a, set, of) \/ Stores(f, s, a, set, of)
      PROVE  /\ r.field # F => HeldIn(f, n, r) = HeldIn(f, m, r)
             /\ r.field = F /\ of \subseteq r.slots => HeldIn(f, n, r) \cap of = set \cap of
  <2>1. ASSUME r.field # F
        PROVE  HeldIn(f, n, r) = HeldIn(f, m, r)
    <3>1. Clear(f, r, a)
      BY <1>2, <2>1, SetsOne
    <3> QED BY <3>1, ClearKeeps
  <2>2. ASSUME r.field = F, of \subseteq r.slots
        PROVE  HeldIn(f, n, r) \cap of = set \cap of
    <3>1. s = r
      BY <1>2, <2>2, RowsApart
    <3>2. r.slots \subseteq r.of
      BY RowFacts DEF Shaped
    <3>3. CASE Sets(f, s, a, set, of)
      <4>1. HeldIn(f, n, r) = (HeldIn(f, m, r) \ of) \cup (set \cap of \cap r.of)
        BY <3>1, <3>3, SetsField
      <4> HIDE DEF n
      <4> QED BY <2>2, <3>2, <4>1
    <3>4. CASE Stores(f, s, a, set, of)
      BY <2>2, <3>1, <3>4, StoresField
    <3> QED BY <1>2, <3>3, <3>4
  <2> QED BY <2>1, <2>2
<1> HIDE DEF n
<1> QED BY <1>1, <1>2 DEF Lands, n

(* The rows of the divider of the clock and of the front end of a channel. *)
ClockRow == WordRow(<<"clk_div">>, <<"block">>, 4)
FrontRow(c) == HalfRow(<<"fe_config", c>>, <<"channel", c>>, 0)

(* What a front end holds when its channel is set up for a range.          *)
Suits(f, range, held) ==
  IF f.type = FUNC_BLOCK.ADC
    THEN range \in InputRanges /\ held \cap Width(8) = Bits(224 + range.code) \cap Width(8)
    ELSE range \in OutputRanges /\ held \cap Width(3) = Bits(4 + range.code) \cap Width(3)

(* The registers hold what makes the rate that was answered, and the ranges*)
(* that the channels were set up for.                                      *)
Timing(f, m, answered) ==
  answered # 0 =>
    /\ f.type # FUNC_BLOCK.EXT_CLOCKING
    /\ \E d \in Dividers : HeldIn(f, m, ClockRow) = Bits(d) /\ answered = Clock(m) \div (d + 1)
Scaling(f, m, ranges) ==
  \A c \in DOMAIN ranges :
    ranges[c] # None =>
      /\ f.type \in Analog /\ FrontRow(c) \in Layout(f)
      /\ Suits(f, ranges[c], HeldIn(f, m, FrontRow(c)))

(* The inductive invariant, beside those of the registers and the fields.  *)
UnitsInv ==
  /\ fb = None => rate = 0 /\ setup = <<>>
  /\ fb # None =>
       /\ Timing(fb, mem, rate) /\ Scaling(fb, mem, setup)
       /\ \A t \in Callers :
            todo[t] # Idle => Telling(fb, mem, todo[t].call, todo[t].accesses)

(* The clock is told by bits that no access changes.                       *)
LEMMA ClockStands ==
  ASSUME NEW m, NEW n, (n["GBC"] \ m["GBC"]) \cup (m["GBC"] \ n["GBC"]) \subseteq 16 .. 31
  PROVE  Clock(n) = Clock(m)
<1>1. region_read(n["GBC"], 12, 16) = region_read(m["GBC"], 12, 16)
  <2>1. \A b \in Width(16) : 8 * 12 + b \notin 16 .. 31
    BY DEF Width
  <2>2. \A b \in Width(16) : 8 * 12 + b \in n["GBC"] <=> 8 * 12 + b \in m["GBC"]
    BY <2>1
  <2> QED BY <2>2 DEF region_read
<1>2. Fetch(n, "GBC", GBC.SYS_CLK_FREQ, 16) = Fetch(m, "GBC", GBC.SYS_CLK_FREQ, 16)
  <2>1. GBC.SYS_CLK_FREQ = 12
    BY DEF GBC
  <2> QED BY <1>1, <2>1 DEF Fetch
<1> QED BY <1>2 DEF Clock, Gbc_Get_Sys_Clock_Freq

(* What a call tells depends on the registers only by the clock.           *)
LEMMA TellingStands ==
  ASSUME NEW f, NEW m, NEW n, Clock(n) = Clock(m), NEW c, NEW s, Telling(f, m, c, s)
  PROVE  Telling(f, n, c, s)
BY DEF Telling, Timed

(* The divider of a block with a clock has a row, the only one of its name.*)
LEMMA ClockRowOf ==
  ASSUME NEW f, Descriptor(f), f.type # FUNC_BLOCK.EXT_CLOCKING
  PROVE  /\ ClockRow \in Layout(f) /\ ClockRow.field = <<"clk_div">>
         /\ ClockRow.slots = Width(32) /\ ClockRow.shift = 0
         /\ ClockRow.owner = <<"block">> /\ ClockRow.low = 4
<1>1. ClockRow \in AdcBlockRows /\ ClockRow \in DacBlockRows /\ ClockRow \in AdioBlockRows
  BY DEF ClockRow, AdcBlockRows, DacBlockRows, AdioBlockRows
<1>2. ClockRow \in Layout(f)
  BY <1>1, InLayout DEF Descriptor, Blocks4
<1> QED BY <1>2, RowParts DEF ClockRow

(* So has the front end of a channel.                                      *)
LEMMA FrontRowOf ==
  ASSUME NEW f, Descriptor(f), NEW c
  PROVE  /\ FrontRow(c).field = <<"fe_config", c>> /\ FrontRow(c).slots = Width(16)
         /\ FrontRow(c).shift = 16 /\ FrontRow(c).owner = <<"channel", c>>
         /\ FrontRow(c).low = 0
         /\ \A r \in Layout(f) : r.field = <<"fe_config", c>> => r = FrontRow(c)
<1>1. /\ FrontRow(c).field = <<"fe_config", c>> /\ FrontRow(c).slots = Width(16)
      /\ FrontRow(c).shift = 16 /\ FrontRow(c).owner = <<"channel", c>>
      /\ FrontRow(c).low = 0
  BY RowParts DEF FrontRow
<1>2. ASSUME NEW r \in Layout(f), r.field = <<"fe_config", c>>
      PROVE  r = FrontRow(c)
  <2>1. r.field[1] = "fe_config" /\ r.field[2] = c
    BY <1>2
  <2>2. OwnerOf(r.field) = <<"channel", c>>
    BY <2>1 DEF OwnerOf
  <2>3. r.owner = <<"channel", c>>
    BY <2>2, RowFacts
  <2>4. r \in ChannelRows(f, c)
    BY <2>3, RowTable
  <2>5. \/ r \in AdcChannelRows(c)
        \/ r \in DacChannelRows(c)
    BY <2>4 DEF ChannelRows
  <2>6. \A o, n : /\ ByteRow(<<"chan_int", c>>, o, n).field[1] # "fe_config"
                  /\ ByteRow(<<"marker_config", c>>, o, n).field[1] # "fe_config"
                  /\ WordRow(<<"low", c>>, o, n).field[1] # "fe_config"
                  /\ WordRow(<<"high", c>>, o, n).field[1] # "fe_config"
                  /\ WordRow(<<"last", c>>, o, n).field[1] # "fe_config"
    BY RowParts
  <2> QED BY <2>1, <2>5, <2>6 DEF AdcChannelRows, DacChannelRows, FrontRow
<1> QED BY <1>1, <1>2

(* An event of the board sets no bit of a setting.                         *)
LEMMA EventHolds ==
  ASSUME NEW f, Descriptor(f), NEW m, InRegions(m), NEW b \in StatusBits(f),
         NEW n, n = [m EXCEPT !["FB"] = @ \cup {b}], NEW r \in Layout(f)
  PROVE  HeldIn(f, n, r) = HeldIn(f, m, r)
<1>1. n["FB"] = m["FB"] \cup {b}
  BY DEF InRegions
<1>2. b < 8 * At(f, r) \/ b >= 8 * (At(f, r) + r.wide)
  BY RowsAndSpecial
<1>3. /\ At(f, r) \in Nat /\ r.wide \in {1, 4} /\ r.shift \in {0, 16}
      /\ \A k \in r.slots : k \in Nat /\ r.shift + k < 8 * r.wide
  BY RowFacts DEF Shaped
<1>4. \A k \in r.slots : 8 * At(f, r) + r.shift + k # b
  BY <1>2, <1>3
<1> QED BY <1>1, <1>4 DEF HeldIn

(* What the two rows hold is all that the answers rest on.                 *)
LEMMA TimingStands ==
  ASSUME NEW f, NEW m, NEW n, Clock(n) = Clock(m), NEW answered, Timing(f, m, answered),
         f.type # FUNC_BLOCK.EXT_CLOCKING => HeldIn(f, n, ClockRow) = HeldIn(f, m, ClockRow)
  PROVE  Timing(f, n, answered)
BY DEF Timing

(* Nor does a range rest on anything but the row of its front end.         *)
LEMMA ScalingStands ==
  ASSUME NEW f, NEW m, NEW n, NEW ranges, Scaling(f, m, ranges),
         \A c \in DOMAIN ranges : FrontRow(c) \in Layout(f) =>
           HeldIn(f, n, FrontRow(c)) = HeldIn(f, m, FrontRow(c))
  PROVE  Scaling(f, n, ranges)
BY DEF Scaling

(* The call that is given a channel that there is not changes registers    *)
(* behind those of the block and of its channels.                          *)
LEMMA FarHolds ==
  ASSUME NEW f, Descriptor(f), f.type = FUNC_BLOCK.DAC, NEW m, NEW n,
         (n["FB"] \ m["FB"]) \cup (m["FB"] \ n["FB"]) \subseteq Extent(f, <<"channel", 150>>),
         NEW r \in Layout(f), r.owner[1] \notin {"dma", "buffer"}
  PROVE  HeldIn(f, n, r) = HeldIn(f, m, r)
<1>1. f.fb_offset \in Nat /\ f.control_offset = f.fb_offset + 8 /\ f.type = 8192
  BY Sizes DEF Descriptor, WellPlaced, FUNC_BLOCK
<1>2. Extent(f, <<"channel", 150>>)
        = 8 * (f.control_offset + 3044) .. 8 * (f.control_offset + 3064) - 1
  <2> DEFINE START == DAC_CHAN.START
             SIZE == DAC_CHAN.SIZE
  <2>1. Extent(f, <<"channel", 150>>)
          = 8 * (f.control_offset + START + 150 * SIZE)
              .. 8 * (f.control_offset + START + 150 * SIZE + SIZE) - 1
    BY DEF Extent, FUNC_BLOCK
  <2>2. START = 44 /\ SIZE = 20
    BY DEF DAC_CHAN
  <2> HIDE DEF START, SIZE
  <2>3. /\ f.control_offset + START + 150 * SIZE = f.control_offset + 3044
        /\ f.control_offset + START + 150 * SIZE + SIZE = f.control_offset + 3064
    BY <1>1, <2>2
  <2> QED BY <2>1, <2>3
<1>3. /\ r.owner \in Owners(f) /\ r.low \in Nat /\ r.low + r.wide <= Room(f, r.owner)
      /\ r.wide \in {1, 4} /\ r.shift \in {0, 16}
      /\ \A k \in r.slots : k \in Nat /\ r.shift + k < 8 * r.wide
  BY RowFacts DEF Shaped
<1>4. \/ Base(f, r.owner) = f.fb_offset + 8 /\ Room(f, r.owner) = 44
      \/ \E c \in 0 .. 3 : Base(f, r.owner) = f.fb_offset + 52 + 20 * c /\ Room(f, r.owner) = 20
      \/ \E c \in 0 .. 3 : Base(f, r.owner) = f.fb_offset + 132 + 4 * c /\ Room(f, r.owner) = 4
  BY <1>1, <1>3, PartsOfBlock
<1>5. Base(f, r.owner) \in Nat /\ Room(f, r.owner) \in Nat
      /\ Base(f, r.owner) + Room(f, r.owner) <= f.fb_offset + 148
  BY <1>1, <1>4
<1>6. ASSUME NEW k \in r.slots
      PROVE  8 * At(f, r) + r.shift + k \notin Extent(f, <<"channel", 150>>)
  <2>1. At(f, r) = Base(f, r.owner) + r.low /\ k \in Nat /\ r.shift + k < 8 * r.wide
    BY <1>3 DEF At
  <2>2. 8 * At(f, r) + r.shift + k < 8 * (f.fb_offset + 148)
    BY <1>1, <1>3, <1>5, <2>1
  <2>3. 8 * At(f, r) + r.shift + k < 8 * (f.control_offset + 3044)
    BY <1>1, <1>3, <1>5, <2>1, <2>2
  <2>4. 8 * At(f, r) + r.shift + k \in Int /\ 8 * (f.control_offset + 3044) \in Int
    BY <1>1, <1>3, <1>5, <2>1
  <2> QED BY <1>2, <2>3, <2>4
<1>7. \A k \in r.slots : 8 * At(f, r) + r.shift + k \in n["FB"] <=> 8 * At(f, r) + r.shift + k \in m["FB"]
  BY <1>6
<1> QED BY <1>7 DEF HeldIn

(* Nothing is answered before a block is open, and at its opening.         *)
LEMMA UnitsInit == Init => UnitsInv
BY DEF Init, UnitsInv

(* When a block is opened no call has answered a rate or set up a channel. *)
LEMMA UnitsOpen == IInv /\ UnitsInv /\ Open => UnitsInv'
<1> SUFFICES ASSUME IInv, UnitsInv, Open PROVE UnitsInv'
  OBVIOUS
<1>1. fb = None /\ UNCHANGED <<mem, todo, setup, rate>> /\ todo = [t \in Callers |-> Idle]
  BY DEF Open, IInv
<1>2. rate' = 0 /\ setup' = <<>>
  BY <1>1 DEF UnitsInv
<1>6. Timing(fb', mem', rate')
  BY <1>2 DEF Timing
<1>7. Scaling(fb', mem', setup')
  <2>1. DOMAIN setup' = {}
    BY <1>2
  <2> QED BY <2>1 DEF Scaling
<1>8. \A t \in Callers : todo'[t] = Idle
  BY <1>1
<1> QED BY <1>2, <1>6, <1>7, <1>8 DEF UnitsInv

(* An event of the board changes neither the settings nor the clock.       *)
LEMMA UnitsEvent == IInv /\ UnitsInv /\ BoardEvent => UnitsInv'
<1> SUFFICES ASSUME IInv, UnitsInv, BoardEvent PROVE UnitsInv'
  OBVIOUS
<1>1. /\ fb # None /\ Descriptor(fb) /\ InRegions(mem)
      /\ UNCHANGED <<fb, todo, setup, rate>>
  BY DEF BoardEvent, IInv
<1>2. PICK b \in StatusBits(fb) : mem' = [mem EXCEPT !["FB"] = @ \cup {b}]
  BY DEF BoardEvent
<1>3. /\ Timing(fb, mem, rate) /\ Scaling(fb, mem, setup)
      /\ \A t \in Callers : todo[t] # Idle => Telling(fb, mem, todo[t].call, todo[t].accesses)
  BY <1>1 DEF UnitsInv
<1>4. \A r \in Layout(fb) : HeldIn(fb, mem', r) = HeldIn(fb, mem, r)
  BY <1>1, <1>2, EventHolds
<1>5. Clock(mem') = Clock(mem)
  <2>1. mem'["GBC"] = mem["GBC"]
    BY <1>1, <1>2 DEF InRegions
  <2> QED BY <2>1, ClockStands
<1>6. Timing(fb, mem', rate)
  BY <1>1, <1>3, <1>4, <1>5, ClockRowOf, TimingStands
<1>7. Scaling(fb, mem', setup)
  BY <1>3, <1>4, ScalingStands
<1>8. \A t \in Callers : todo[t] # Idle => Telling(fb, mem', todo[t].call, todo[t].accesses)
  BY <1>3, <1>5, TellingStands
<1> QED BY <1>1, <1>6, <1>7, <1>8 DEF UnitsInv

(* A call that begins tells what it does.                                  *)
LEMMA UnitsBegin ==
  ASSUME NEW t \in Callers
  PROVE  IInv /\ UnitsInv /\ Begin(t) => UnitsInv'
<1> SUFFICES ASSUME IInv, UnitsInv, Begin(t) PROVE UnitsInv'
  OBVIOUS
<1>1. /\ fb # None /\ Descriptor(fb) /\ UNCHANGED <<mem, fb, setup, rate>>
  BY DEF Begin, IInv
<1>2. /\ Timing(fb, mem, rate) /\ Scaling(fb, mem, setup)
      /\ \A u \in Callers : todo[u] # Idle => Telling(fb, mem, todo[u].call, todo[u].accesses)
  BY <1>1 DEF UnitsInv
<1>3. PICK c \in Calls(mem, fb) :
        todo' = [todo EXCEPT ![t] = IF c.plan.errno = "none"
                                     THEN [accesses |-> c.plan.accesses, call |-> c]
                                     ELSE Idle]
  BY DEF Begin
<1>4. Tells(fb, mem, c)
  BY <1>1, EveryCallTells
<1>5. /\ todo'[t] = IF c.plan.errno = "none" THEN [accesses |-> c.plan.accesses, call |-> c]
                                             ELSE Idle
      /\ \A u \in Callers : u # t => todo'[u] = todo[u]
  BY <1>3 DEF IInv
<1>6. todo'[t] # Idle => Telling(fb, mem, todo'[t].call, todo'[t].accesses)
  <2> DEFINE w == [accesses |-> c.plan.accesses, call |-> c]
  <2>1. w.accesses = c.plan.accesses /\ w.call = c
    OBVIOUS
  <2> HIDE DEF w
  <2>2. c.plan.errno = "none" => Telling(fb, mem, w.call, w.accesses)
    BY <1>4, <2>1 DEF Tells
  <2> QED BY <1>5, <2>2 DEF w
<1>7. \A u \in Callers : todo'[u] # Idle => Telling(fb, mem, todo'[u].call, todo'[u].accesses)
  BY <1>2, <1>5, <1>6
<1> QED BY <1>1, <1>2, <1>7 DEF UnitsInv

(* A call on the divider: the row holds what makes the rate it answers.    *)
LEMMA TimedLands ==
  ASSUME NEW f, Descriptor(f), NEW m, InRegions(m), NEW a \in Requests, Allowed(a),
         NEW c, NEW s, Timed(f, m, c, s), Lands(f, c.field, c.set, c.of, a),
         NEW n, n = Perform(f, m, a), Clock(n) = Clock(m)
  PROVE  Timing(f, n, c.rate)
<1> SUFFICES ASSUME c.rate # 0 PROVE Timing(f, n, c.rate)
  BY DEF Timing
<1>1. PICK d \in Dividers : c.set = Bits(d) /\ c.rate = Clock(m) \div (d + 1)
  BY DEF Timed
<1>2. f.type # FUNC_BLOCK.EXT_CLOCKING /\ c.field = <<"clk_div">> /\ c.of = Width(32)
  BY DEF Timed
<1>3. ClockRow \in Layout(f) /\ ClockRow.field = c.field /\ ClockRow.slots = Width(32)
  BY <1>2, ClockRowOf
<1>4. c.field[1] \in Known(f)
  <2>1. <<"clk_div">>[1] = "clk_div"
    OBVIOUS
  <2>2. c.field[1] = "clk_div"
    BY <1>2, <2>1
  <2> QED BY <2>2 DEF Known
<1>5. HeldIn(f, n, ClockRow) \cap c.of = c.set \cap c.of
  BY <1>2, <1>3, <1>4, LandHolds
<1>6. HeldIn(f, n, ClockRow) \subseteq Width(32)
  BY <1>3 DEF HeldIn
<1>7. Bits(d) \subseteq Width(32)
  BY DEF Bits, Width, Dividers
<1>8. HeldIn(f, n, ClockRow) = Bits(d)
  BY <1>1, <1>2, <1>5, <1>6, <1>7
<1> QED BY <1>1, <1>2, <1>8 DEF Timing

(* A call on a front end: it holds what suits the range.                   *)
LEMMA RangingLands ==
  ASSUME NEW f, Descriptor(f), NEW m, InRegions(m), NEW a \in Requests, Allowed(a),
         NEW c, NEW s, Ranging(f, c, s), Lands(f, c.field, c.set, c.of, a),
         NEW n, n = Perform(f, m, a), c.range # None
  PROVE  /\ f.type \in Analog /\ FrontRow(c.field[2]) \in Layout(f)
         /\ Suits(f, c.range, HeldIn(f, n, FrontRow(c.field[2])))
<1> DEFINE k == c.field[2]
<1>1. f.type \in Analog /\ c.field = <<"fe_config", k>>
  BY DEF Ranging
<1>2. /\ f.type = FUNC_BLOCK.ADC =>
           c.range \in InputRanges /\ c.of = Width(8) /\ c.set = Bits(224 + c.range.code)
      /\ f.type # FUNC_BLOCK.ADC =>
           c.range \in OutputRanges /\ c.of = Width(3) /\ c.set = Bits(4 + c.range.code)
  BY DEF Ranging
<1> HIDE DEF k
<1>3. c.field[1] = "fe_config"
  <2>1. <<"fe_config", k>>[1] = "fe_config"
    OBVIOUS
  <2> QED BY ONLY <1>1, <2>1
<1>4. c.field[1] \in Known(f)
  BY <1>3 DEF Known
<1>5. PICK r \in Layout(f) : r.field = c.field
  BY <1>4 DEF Lands
<1>6. r = FrontRow(k) /\ r.slots = Width(16)
  BY <1>1, <1>5, FrontRowOf
<1>7. c.of \subseteq Width(16)
  BY <1>2 DEF Width
<1>8. HeldIn(f, n, FrontRow(k)) \cap c.of = c.set \cap c.of
  BY <1>4, <1>5, <1>6, <1>7, LandHolds
<1>9. Suits(f, c.range, HeldIn(f, n, FrontRow(k)))
  BY <1>2, <1>8 DEF Suits
<1> QED BY <1>1, <1>5, <1>6, <1>9 DEF k

(* The settings after the last access of a call.                           *)
LEMMA LastHolds ==
  ASSUME NEW f, Descriptor(f), NEW m, InRegions(m), NEW a \in Requests, Allowed(a),
         NEW c, NEW s, Telling(f, m, c, s), Lands(f, c.field, c.set, c.of, a),
         NEW n, n = Perform(f, m, a), Clock(n) = Clock(m),
         NEW before, Timing(f, m, before), NEW ranges, Scaling(f, m, ranges),
         NEW answered, answered = (IF c.field[1] = "clk_div" THEN c.rate ELSE before),
         NEW after,
         c.field[1] # "fe_config" => after = ranges,
         c.field[1] = "fe_config" =>
           \A k \in DOMAIN after :
             \/ k = c.field[2] /\ after[k] = c.range
             \/ k # c.field[2] /\ k \in DOMAIN ranges /\ after[k] = ranges[k]
  PROVE  Timing(f, n, answered) /\ Scaling(f, n, after)
<1>1. \A r \in Layout(f) : r.field # c.field => HeldIn(f, n, r) = HeldIn(f, m, r)
  BY LandHolds
<1>2. c.field[1] = "clk_div" => c.field = <<"clk_div">>
  BY DEF Telling, Timed
<1>3. c.field[1] = "fe_config" => c.field = <<"fe_config", c.field[2]>>
  BY DEF Telling, Ranging
<1>4. <<"clk_div">>[1] = "clk_div" /\ \A k : <<"fe_config", k>>[1] = "fe_config" /\ <<"fe_config", k>>[2] = k
  OBVIOUS
<1>5. Timing(f, n, answered)
  <2>1. CASE c.field[1] = "clk_div"
    <3>1. Timed(f, m, c, s) /\ answered = c.rate
      BY <2>1 DEF Telling
    <3> QED BY <3>1, TimedLands
  <2>2. CASE c.field[1] # "clk_div"
    <3>1. answered = before
      BY <2>2
    <3>2. f.type # FUNC_BLOCK.EXT_CLOCKING => HeldIn(f, n, ClockRow) = HeldIn(f, m, ClockRow)
      BY <1>1, <1>4, <2>2, ClockRowOf
    <3> QED BY <3>1, <3>2, TimingStands
  <2> QED BY <2>1, <2>2
<1>6. ASSUME NEW k, FrontRow(k) \in Layout(f), c.field[1] # "fe_config" \/ c.field[2] # k
      PROVE  HeldIn(f, n, FrontRow(k)) = HeldIn(f, m, FrontRow(k))
  <2>1. FrontRow(k).field = <<"fe_config", k>>
    BY FrontRowOf
  <2>2. FrontRow(k).field # c.field
    BY <1>4, <1>6, <2>1
  <2> QED BY <1>1, <1>6, <2>2
<1>7. Scaling(f, n, after)
  <2>1. CASE c.field[1] # "fe_config"
    <3>1. after = ranges
      BY <2>1
    <3> QED BY <1>6, <2>1, <3>1, ScalingStands
  <2>2. CASE c.field[1] = "fe_config"
    <3> DEFINE k == c.field[2]
    <3>1. Ranging(f, c, s)
      BY <2>2 DEF Telling
    <3>3. \A i \in DOMAIN after :
            \/ i = k /\ after[i] = c.range
            \/ i # k /\ i \in DOMAIN ranges /\ after[i] = ranges[i]
      BY <2>2
    <3> HIDE DEF k
    <3>4. ASSUME NEW i \in DOMAIN after, after[i] # None
          PROVE  /\ f.type \in Analog /\ FrontRow(i) \in Layout(f)
                 /\ Suits(f, after[i], HeldIn(f, n, FrontRow(i)))
      <4>1. CASE i = k
        <5>1. c.range # None /\ after[i] = c.range
          BY <3>3, <3>4, <4>1
        <5> QED BY <3>1, <4>1, <5>1, RangingLands DEF k
      <4>2. CASE i # k
        <5>1. i \in DOMAIN ranges /\ after[i] = ranges[i]
          BY <3>3, <4>2
        <5>2. /\ f.type \in Analog /\ FrontRow(i) \in Layout(f)
              /\ Suits(f, ranges[i], HeldIn(f, m, FrontRow(i)))
          BY <3>4, <5>1 DEF Scaling
        <5>3. HeldIn(f, n, FrontRow(i)) = HeldIn(f, m, FrontRow(i))
          BY <1>6, <4>2, <5>2 DEF k
        <5> QED BY <5>1, <5>2, <5>3
      <4> QED BY <4>1, <4>2
    <3> QED BY <3>4 DEF Scaling
  <2> QED BY <2>1, <2>2
<1> QED BY <1>5, <1>7

(* A step of a call: it touches neither setting, or makes of one what the  *)
(* call answers.                                                           *)
LEMMA UnitsContinue ==
  ASSUME NEW t \in Callers
  PROVE  IInv /\ FieldsInv /\ UnitsInv /\ Continue(t) => UnitsInv'
<1> SUFFICES ASSUME IInv, FieldsInv, UnitsInv, Continue(t) PROVE UnitsInv'
  OBVIOUS
<1> DEFINE s == todo[t].accesses
           c == todo[t].call
           a == Head(s)
           rest == Tail(s)
<1>1. /\ Descriptor(fb) /\ InRegions(mem) /\ Underway(fb, mem, fresh[t], todo[t])
      /\ a \in GoodAccesses(fb, c) /\ mem' = Perform(fb, mem, a)
      /\ \A u \in Callers : u # t => todo'[u] = todo[u]
      /\ UNCHANGED <<fb, fresh, calls, events>>
  BY Continued
<1>2. a \in Requests /\ (Allowed(a) \/ c.asks = "unchecked")
      /\ (mem'["FB"] \ mem["FB"]) \cup (mem["FB"] \ mem'["FB"]) \subseteq Extent(fb, c.owner)
      /\ Clock(mem') = Clock(mem)
  <2>1. /\ Allowed(a) \/ c.asks = "unchecked"
        /\ (mem'["FB"] \ mem["FB"]) \cup (mem["FB"] \ mem'["FB"]) \subseteq Extent(fb, c.owner)
        /\ (mem'["GBC"] \ mem["GBC"]) \cup (mem["GBC"] \ mem'["GBC"])
              \subseteq (IF c.owner[1] = "board" THEN 16 .. 31 ELSE {})
    BY <1>1, Performed
  <2>2. (mem'["GBC"] \ mem["GBC"]) \cup (mem["GBC"] \ mem'["GBC"]) \subseteq 16 .. 31
    BY <2>1
  <2>3. Clock(mem') = Clock(mem)
    BY <2>2, ClockStands
  <2> QED BY <1>1, <2>1, <2>3 DEF GoodAccesses
<1>3. /\ fb # None /\ todo[t] # Idle
      /\ Timing(fb, mem, rate) /\ Scaling(fb, mem, setup)
      /\ \A u \in Callers : todo[u] # Idle => Telling(fb, mem, todo[u].call, todo[u].accesses)
      /\ Telling(fb, mem, c, s) /\ Fitting(fb, todo[t])
  <2>1. todo[t] # Idle /\ fb # None
    BY DEF Continue, IInv
  <2> QED BY <2>1 DEF FieldsInv, UnitsInv
<1>4. Step(t, c, a, rest)
  BY DEF Continue
<1>5. /\ todo' = [todo EXCEPT ![t] = IF rest = <<>> THEN Idle
                                     ELSE [accesses |-> rest, call |-> c]]
      /\ setup' = IF c.field[1] = "fe_config" THEN SetUp(c.field[2], c.range) ELSE setup
      /\ rate' = IF c.field[1] = "clk_div" THEN c.rate ELSE rate
  BY <1>4 DEF Step
<1>6. s \in Seq(GoodAccesses(fb, c)) /\ s # <<>>
  BY <1>1 DEF Underway
<1>7. IF c.asks = "unchecked" THEN Len(s) = 1 ELSE Fit(fb, c.field, c.set, c.of, s)
  BY <1>3 DEF Fitting
<1>8. Len(s) = 1 => rest = <<>>
  <2> HIDE DEF s, c, rest
  <2>1. Len(rest) = Len(s) - 1 /\ rest \in Seq(GoodAccesses(fb, c))
    BY <1>6 DEF rest
  <2> QED BY <2>1, EmptySeq
<1>9. c.asks # "unchecked" =>
        /\ rest # <<>> => Misses(fb, a)
        /\ rest = <<>> => Lands(fb, c.field, c.set, c.of, a)
  <2> HIDE DEF s, c
  <2> QED BY <1>6, <1>7, FitRest
<1> HIDE DEF s, c, a, rest
<1>10. rest # <<>> => c.field[1] \notin {"clk_div", "fe_config"} /\ c.asks # "unchecked"
  BY <1>3, <1>7, <1>8 DEF Telling, Timed, Ranging
<1>11. Timing(fb, mem', rate') /\ Scaling(fb, mem', setup')
  <2>1. ASSUME c.field[1] \notin {"clk_div", "fe_config"},
               fb.type # FUNC_BLOCK.EXT_CLOCKING =>
                 HeldIn(fb, mem', ClockRow) = HeldIn(fb, mem, ClockRow),
               \A k : FrontRow(k) \in Layout(fb) =>
                 HeldIn(fb, mem', FrontRow(k)) = HeldIn(fb, mem, FrontRow(k))
        PROVE  Timing(fb, mem', rate') /\ Scaling(fb, mem', setup')
    <3>1. rate' = rate /\ setup' = setup
      BY <1>5, <2>1
    <3>2. Timing(fb, mem', rate)
      BY <1>2, <1>3, <2>1, TimingStands
    <3>3. Scaling(fb, mem', setup)
      BY <1>3, <2>1, ScalingStands
    <3> QED BY <3>1, <3>2, <3>3
  <2>2. CASE c.asks = "unchecked"
    <3>1. fb.type = FUNC_BLOCK.DAC /\ c.owner = <<"channel", 150>> /\ c.field = <<"none">>
      BY <1>3, <2>2 DEF Telling
    <3>2. c.field[1] = "none"
      <4>1. <<"none">>[1] = "none"
        OBVIOUS
      <4> QED BY ONLY <3>1, <4>1
    <3>3. fb.type # FUNC_BLOCK.EXT_CLOCKING =>
            HeldIn(fb, mem', ClockRow) = HeldIn(fb, mem, ClockRow)
      <4>1. <<"block">>[1] \notin {"dma", "buffer"}
        OBVIOUS
      <4> QED BY <1>1, <1>2, <3>1, <4>1, ClockRowOf, FarHolds
    <3>4. \A k : FrontRow(k) \in Layout(fb) =>
            HeldIn(fb, mem', FrontRow(k)) = HeldIn(fb, mem, FrontRow(k))
      <4>1. \A k : <<"channel", k>>[1] \notin {"dma", "buffer"}
        OBVIOUS
      <4> QED BY <1>1, <1>2, <3>1, <4>1, FrontRowOf, FarHolds
    <3> QED BY <2>1, <3>2, <3>3, <3>4
  <2>3. CASE c.asks # "unchecked" /\ rest # <<>>
    <3>1. \A r \in Layout(fb) : HeldIn(fb, mem', r) = HeldIn(fb, mem, r)
      BY <1>1, <1>2, <1>9, <2>3, ClearKeeps DEF Misses
    <3> QED BY <1>1, <1>10, <2>1, <2>3, <3>1, ClockRowOf
  <2>4. CASE c.asks # "unchecked" /\ rest = <<>>
    <3>1. Lands(fb, c.field, c.set, c.of, a) /\ Allowed(a)
      BY <1>2, <1>9, <2>4
    <3>2. c.field[1] # "fe_config" => setup' = setup
      BY <1>5
    <3>3. c.field[1] = "fe_config" =>
            \A k \in DOMAIN setup' :
              \/ k = c.field[2] /\ setup'[k] = c.range
              \/ k # c.field[2] /\ k \in DOMAIN setup /\ setup'[k] = setup[k]
      BY <1>5 DEF SetUp
    <3>4. rate' = IF c.field[1] = "clk_div" THEN c.rate ELSE rate
      BY <1>5
    <3> QED BY <1>1, <1>2, <1>3, <3>1, <3>2, <3>3, <3>4, LastHolds
  <2> QED BY <2>2, <2>3, <2>4
<1>12. todo'[t] = IF rest = <<>> THEN Idle ELSE [accesses |-> rest, call |-> c]
  BY <1>5 DEF IInv
<1>13. todo'[t] # Idle => Telling(fb, mem', todo'[t].call, todo'[t].accesses)
  <2> DEFINE w == [accesses |-> rest, call |-> c]
  <2>1. w.accesses = rest /\ w.call = c
    OBVIOUS
  <2> HIDE DEF w
  <2>2. rest # <<>> => Telling(fb, mem', w.call, w.accesses)
    BY <1>10, <2>1, SilentTells DEF Silent
  <2> QED BY <1>12, <2>2 DEF w
<1>14. \A u \in Callers : todo'[u] # Idle => Telling(fb, mem', todo'[u].call, todo'[u].accesses)
  <2>1. ASSUME NEW u \in Callers, u # t, todo'[u] # Idle
        PROVE  Telling(fb, mem', todo'[u].call, todo'[u].accesses)
    <3>1. todo'[u] = todo[u] /\ Telling(fb, mem, todo[u].call, todo[u].accesses)
      BY <1>1, <1>3, <2>1
    <3> QED BY <1>2, <3>1, TellingStands
  <2> QED BY <1>13, <2>1
<1> QED BY <1>1, <1>3, <1>11, <1>14 DEF UnitsInv

(* What the answers rest on holds in every state.                          *)
LEMMA UnitsInvariant == Spec => []UnitsInv
<1>1. IInv /\ FieldsInv /\ UnitsInv /\ [Next]_vars => UnitsInv'
  <2> SUFFICES ASSUME IInv, FieldsInv, UnitsInv, [Next]_vars PROVE UnitsInv'
    OBVIOUS
  <2>1. CASE Open
    BY <2>1, UnitsOpen
  <2>2. CASE BoardEvent
    BY <2>2, UnitsEvent
  <2>3. ASSUME NEW t \in Callers, Begin(t) PROVE UnitsInv'
    BY <2>3, UnitsBegin
  <2>4. ASSUME NEW t \in Callers, Continue(t) PROVE UnitsInv'
    BY <2>4, UnitsContinue
  <2>5. CASE UNCHANGED vars
    BY <2>5 DEF vars, UnitsInv
  <2> QED BY <2>1, <2>2, <2>3, <2>4, <2>5 DEF Next
<1> QED BY <1>1, UnitsInit, FieldsInvariant, RegistersInvariant, PTL DEF Spec

(* The weights of the bits of a number.                                    *)
Weights ==
  <<1, 2, 4, 8, 16, 32, 64, 128, 256, 512, 1024, 2048, 4096, 8192, 16384, 32768, 65536, 131072,
  262144, 524288, 1048576, 2097152, 4194304, 8388608, 16777216, 33554432, 67108864, 134217728,
  268435456, 536870912, 1073741824>>

(* They are the powers of two.                                             *)
LEMMA Powers ==
  ASSUME NEW b \in 0 .. 30
  PROVE  2^b = Weights[b + 1]
<1>0. CASE b = 0
  BY <1>0, SMT DEF Weights
<1>1. CASE b = 1
  BY <1>1, SMT DEF Weights
<1>2. CASE b = 2
  BY <1>2, SMT DEF Weights
<1>3. CASE b = 3
  BY <1>3, SMT DEF Weights
<1>4. CASE b = 4
  BY <1>4, SMT DEF Weights
<1>5. CASE b = 5
  BY <1>5, SMT DEF Weights
<1>6. CASE b = 6
  BY <1>6, SMT DEF Weights
<1>7. CASE b = 7
  BY <1>7, SMT DEF Weights
<1>8. CASE b = 8
  BY <1>8, SMT DEF Weights
<1>9. CASE b = 9
  BY <1>9, SMT DEF Weights
<1>10. CASE b = 10
  BY <1>10, SMT DEF Weights
<1>11. CASE b = 11
  BY <1>11, SMT DEF Weights
<1>12. CASE b = 12
  BY <1>12, SMT DEF Weights
<1>13. CASE b = 13
  BY <1>13, SMT DEF Weights
<1>14. CASE b = 14
  BY <1>14, SMT DEF Weights
<1>15. CASE b = 15
  BY <1>15, SMT DEF Weights
<1>16. CASE b = 16
  BY <1>16, SMT DEF Weights
<1>17. CASE b = 17
  BY <1>17, SMT DEF Weights
<1>18. CASE b = 18
  BY <1>18, SMT DEF Weights
<1>19. CASE b = 19
  BY <1>19, SMT DEF Weights
<1>20. CASE b = 20
  BY <1>20, SMT DEF Weights
<1>21. CASE b = 21
  BY <1>21, SMT DEF Weights
<1>22. CASE b = 22
  BY <1>22, SMT DEF Weights
<1>23. CASE b = 23
  BY <1>23, SMT DEF Weights
<1>24. CASE b = 24
  BY <1>24, SMT DEF Weights
<1>25. CASE b = 25
  BY <1>25, SMT DEF Weights
<1>26. CASE b = 26
  BY <1>26, SMT DEF Weights
<1>27. CASE b = 27
  BY <1>27, SMT DEF Weights
<1>28. CASE b = 28
  BY <1>28, SMT DEF Weights
<1>29. CASE b = 29
  BY <1>29, SMT DEF Weights
<1>30. CASE b = 30
  BY <1>30, SMT DEF Weights
<1> QED BY <1>0, <1>1, <1>2, <1>3, <1>4, <1>5, <1>6, <1>7, <1>8, <1>9, <1>10, <1>11, <1>12,
          <1>13, <1>14, <1>15, <1>16, <1>17, <1>18, <1>19, <1>20, <1>21, <1>22, <1>23, <1>24, <1>25,
          <1>26, <1>27, <1>28, <1>29, <1>30, SMT

(* A bit.                                                                  *)
LEMMA BitOf ==
  ASSUME NEW n \in Nat, NEW b \in 0 .. 30
  PROVE  b \in Bits(n) <=> (n \div Weights[b + 1]) % 2 = 1
<1>1. b \in Bits(n) <=> (n \div 2^b) % 2 = 1
  BY DEF Bits
<1> QED BY <1>1, Powers

(* The lowest bits of a number, by division.                               *)
LEMMA LowBits ==
  ASSUME NEW n \in Nat
  PROVE  /\ 0 \in Bits(n) <=> (n \div 1) % 2 = 1
         /\ 1 \in Bits(n) <=> (n \div 2) % 2 = 1
         /\ 2 \in Bits(n) <=> (n \div 4) % 2 = 1
         /\ 3 \in Bits(n) <=> (n \div 8) % 2 = 1
         /\ 4 \in Bits(n) <=> (n \div 16) % 2 = 1
         /\ 5 \in Bits(n) <=> (n \div 32) % 2 = 1
         /\ 6 \in Bits(n) <=> (n \div 64) % 2 = 1
         /\ 7 \in Bits(n) <=> (n \div 128) % 2 = 1
         /\ 8 \in Bits(n) <=> (n \div 256) % 2 = 1
         /\ 9 \in Bits(n) <=> (n \div 512) % 2 = 1
         /\ 10 \in Bits(n) <=> (n \div 1024) % 2 = 1
         /\ 11 \in Bits(n) <=> (n \div 2048) % 2 = 1
         /\ 12 \in Bits(n) <=> (n \div 4096) % 2 = 1
         /\ 13 \in Bits(n) <=> (n \div 8192) % 2 = 1
         /\ 14 \in Bits(n) <=> (n \div 16384) % 2 = 1
         /\ 15 \in Bits(n) <=> (n \div 32768) % 2 = 1
         /\ 16 \in Bits(n) <=> (n \div 65536) % 2 = 1
         /\ 17 \in Bits(n) <=> (n \div 131072) % 2 = 1
         /\ 18 \in Bits(n) <=> (n \div 262144) % 2 = 1
         /\ 19 \in Bits(n) <=> (n \div 524288) % 2 = 1
         /\ 20 \in Bits(n) <=> (n \div 1048576) % 2 = 1
         /\ 21 \in Bits(n) <=> (n \div 2097152) % 2 = 1
         /\ 22 \in Bits(n) <=> (n \div 4194304) % 2 = 1
         /\ 23 \in Bits(n) <=> (n \div 8388608) % 2 = 1
         /\ 24 \in Bits(n) <=> (n \div 16777216) % 2 = 1
         /\ 25 \in Bits(n) <=> (n \div 33554432) % 2 = 1
         /\ 26 \in Bits(n) <=> (n \div 67108864) % 2 = 1
         /\ 27 \in Bits(n) <=> (n \div 134217728) % 2 = 1
         /\ 28 \in Bits(n) <=> (n \div 268435456) % 2 = 1
         /\ 29 \in Bits(n) <=> (n \div 536870912) % 2 = 1
         /\ 30 \in Bits(n) <=> (n \div 1073741824) % 2 = 1
         /\ 31 \notin Bits(n)
<1> DEFINE In(b) == b \in Bits(n)
<1>31. 31 \notin Bits(n)
  BY DEF Bits
<1>0. 0 \in Bits(n) <=> (n \div 1) % 2 = 1
  BY BitOf, SMT DEF Weights
<1>1. 1 \in Bits(n) <=> (n \div 2) % 2 = 1
  BY BitOf, SMT DEF Weights
<1>2. 2 \in Bits(n) <=> (n \div 4) % 2 = 1
  BY BitOf, SMT DEF Weights
<1>3. 3 \in Bits(n) <=> (n \div 8) % 2 = 1
  BY BitOf, SMT DEF Weights
<1>4. 4 \in Bits(n) <=> (n \div 16) % 2 = 1
  BY BitOf, SMT DEF Weights
<1>5. 5 \in Bits(n) <=> (n \div 32) % 2 = 1
  BY BitOf, SMT DEF Weights
<1>6. 6 \in Bits(n) <=> (n \div 64) % 2 = 1
  BY BitOf, SMT DEF Weights
<1>7. 7 \in Bits(n) <=> (n \div 128) % 2 = 1
  BY BitOf, SMT DEF Weights
<1>8. 8 \in Bits(n) <=> (n \div 256) % 2 = 1
  BY BitOf, SMT DEF Weights
<1>9. 9 \in Bits(n) <=> (n \div 512) % 2 = 1
  BY BitOf, SMT DEF Weights
<1>10. 10 \in Bits(n) <=> (n \div 1024) % 2 = 1
  BY BitOf, SMT DEF Weights
<1>11. 11 \in Bits(n) <=> (n \div 2048) % 2 = 1
  BY BitOf, SMT DEF Weights
<1>12. 12 \in Bits(n) <=> (n \div 4096) % 2 = 1
  BY BitOf, SMT DEF Weights
<1>13. 13 \in Bits(n) <=> (n \div 8192) % 2 = 1
  BY BitOf, SMT DEF Weights
<1>14. 14 \in Bits(n) <=> (n \div 16384) % 2 = 1
  BY BitOf, SMT DEF Weights
<1>15. 15 \in Bits(n) <=> (n \div 32768) % 2 = 1
  BY BitOf, SMT DEF Weights
<1>16. 16 \in Bits(n) <=> (n \div 65536) % 2 = 1
  BY BitOf, SMT DEF Weights
<1>17. 17 \in Bits(n) <=> (n \div 131072) % 2 = 1
  BY BitOf, SMT DEF Weights
<1>18. 18 \in Bits(n) <=> (n \div 262144) % 2 = 1
  BY BitOf, SMT DEF Weights
<1>19. 19 \in Bits(n) <=> (n \div 524288) % 2 = 1
  BY BitOf, SMT DEF Weights
<1>20. 20 \in Bits(n) <=> (n \div 1048576) % 2 = 1
  BY BitOf, SMT DEF Weights
<1>21. 21 \in Bits(n) <=> (n \div 2097152) % 2 = 1
  BY BitOf, SMT DEF Weights
<1>22. 22 \in Bits(n) <=> (n \div 4194304) % 2 = 1
  BY BitOf, SMT DEF Weights
<1>23. 23 \in Bits(n) <=> (n \div 8388608) % 2 = 1
  BY BitOf, SMT DEF Weights
<1>24. 24 \in Bits(n) <=> (n \div 16777216) % 2 = 1
  BY BitOf, SMT DEF Weights
<1>25. 25 \in Bits(n) <=> (n \div 33554432) % 2 = 1
  BY BitOf, SMT DEF Weights
<1>26. 26 \in Bits(n) <=> (n \div 67108864) % 2 = 1
  BY BitOf, SMT DEF Weights
<1>27. 27 \in Bits(n) <=> (n \div 134217728) % 2 = 1
  BY BitOf, SMT DEF Weights
<1>28. 28 \in Bits(n) <=> (n \div 268435456) % 2 = 1
  BY BitOf, SMT DEF Weights
<1>29. 29 \in Bits(n) <=> (n \div 536870912) % 2 = 1
  BY BitOf, SMT DEF Weights
<1>30. 30 \in Bits(n) <=> (n \div 1073741824) % 2 = 1
  BY BitOf, SMT DEF Weights
<1> QED BY <1>0, <1>1, <1>2, <1>3, <1>4, <1>5, <1>6, <1>7, <1>8, <1>9, <1>10, <1>11, <1>12,
          <1>13, <1>14, <1>15, <1>16, <1>17, <1>18, <1>19, <1>20, <1>21, <1>22, <1>23, <1>24, <1>25,
          <1>26, <1>27, <1>28, <1>29, <1>30, <1>31, SMT

(* Some of the bits of a number, from the one of the weight p on.          *)
Part(n, p, w) == (n \div p) % w

(* The steps by which bits are put together.                               *)
LEMMA Halves ==
  ASSUME NEW n \in Nat, n < 2147483648
  PROVE  /\ Part(n, 1, 4) = Part(n, 1, 2) + 2 * Part(n, 2, 2)
         /\ Part(n, 4, 4) = Part(n, 4, 2) + 2 * Part(n, 8, 2)
         /\ Part(n, 16, 4) = Part(n, 16, 2) + 2 * Part(n, 32, 2)
         /\ Part(n, 64, 4) = Part(n, 64, 2) + 2 * Part(n, 128, 2)
         /\ Part(n, 256, 4) = Part(n, 256, 2) + 2 * Part(n, 512, 2)
         /\ Part(n, 1024, 4) = Part(n, 1024, 2) + 2 * Part(n, 2048, 2)
         /\ Part(n, 4096, 4) = Part(n, 4096, 2) + 2 * Part(n, 8192, 2)
         /\ Part(n, 16384, 4) = Part(n, 16384, 2) + 2 * Part(n, 32768, 2)
         /\ Part(n, 65536, 4) = Part(n, 65536, 2) + 2 * Part(n, 131072, 2)
         /\ Part(n, 262144, 4) = Part(n, 262144, 2) + 2 * Part(n, 524288, 2)
         /\ Part(n, 1048576, 4) = Part(n, 1048576, 2) + 2 * Part(n, 2097152, 2)
         /\ Part(n, 4194304, 4) = Part(n, 4194304, 2) + 2 * Part(n, 8388608, 2)
         /\ Part(n, 16777216, 4) = Part(n, 16777216, 2) + 2 * Part(n, 33554432, 2)
         /\ Part(n, 67108864, 4) = Part(n, 67108864, 2) + 2 * Part(n, 134217728, 2)
         /\ Part(n, 268435456, 4) = Part(n, 268435456, 2) + 2 * Part(n, 536870912, 2)
         /\ Part(n, 1073741824, 4) = Part(n, 1073741824, 2) + 2 * Part(n, 2147483648, 2)
         /\ Part(n, 1, 16) = Part(n, 1, 4) + 4 * Part(n, 4, 4)
         /\ Part(n, 16, 16) = Part(n, 16, 4) + 4 * Part(n, 64, 4)
         /\ Part(n, 256, 16) = Part(n, 256, 4) + 4 * Part(n, 1024, 4)
         /\ Part(n, 4096, 16) = Part(n, 4096, 4) + 4 * Part(n, 16384, 4)
         /\ Part(n, 65536, 16) = Part(n, 65536, 4) + 4 * Part(n, 262144, 4)
         /\ Part(n, 1048576, 16) = Part(n, 1048576, 4) + 4 * Part(n, 4194304, 4)
         /\ Part(n, 16777216, 16) = Part(n, 16777216, 4) + 4 * Part(n, 67108864, 4)
         /\ Part(n, 268435456, 16) = Part(n, 268435456, 4) + 4 * Part(n, 1073741824, 4)
         /\ Part(n, 1, 256) = Part(n, 1, 16) + 16 * Part(n, 16, 16)
         /\ Part(n, 256, 256) = Part(n, 256, 16) + 16 * Part(n, 4096, 16)
         /\ Part(n, 65536, 256) = Part(n, 65536, 16) + 16 * Part(n, 1048576, 16)
         /\ Part(n, 16777216, 256) = Part(n, 16777216, 16) + 16 * Part(n, 268435456, 16)
         /\ Part(n, 1, 65536) = Part(n, 1, 256) + 256 * Part(n, 256, 256)
         /\ Part(n, 65536, 65536) = Part(n, 65536, 256) + 256 * Part(n, 16777216, 256)
         /\ n = Part(n, 1, 65536) + 65536 * Part(n, 65536, 65536)
<1>0. Part(n, 1, 4) = Part(n, 1, 2) + 2 * Part(n, 2, 2)
  BY SMT DEF Part
<1>1. Part(n, 4, 4) = Part(n, 4, 2) + 2 * Part(n, 8, 2)
  BY SMT DEF Part
<1>2. Part(n, 16, 4) = Part(n, 16, 2) + 2 * Part(n, 32, 2)
  BY SMT DEF Part
<1>3. Part(n, 64, 4) = Part(n, 64, 2) + 2 * Part(n, 128, 2)
  BY SMT DEF Part
<1>4. Part(n, 256, 4) = Part(n, 256, 2) + 2 * Part(n, 512, 2)
  BY SMT DEF Part
<1>5. Part(n, 1024, 4) = Part(n, 1024, 2) + 2 * Part(n, 2048, 2)
  BY SMT DEF Part
<1>6. Part(n, 4096, 4) = Part(n, 4096, 2) + 2 * Part(n, 8192, 2)
  BY SMT DEF Part
<1>7. Part(n, 16384, 4) = Part(n, 16384, 2) + 2 * Part(n, 32768, 2)
  BY SMT DEF Part
<1>8. Part(n, 65536, 4) = Part(n, 65536, 2) + 2 * Part(n, 131072, 2)
  BY SMT DEF Part
<1>9. Part(n, 262144, 4) = Part(n, 262144, 2) + 2 * Part(n, 524288, 2)
  BY SMT DEF Part
<1>10. Part(n, 1048576, 4) = Part(n, 1048576, 2) + 2 * Part(n, 2097152, 2)
  BY SMT DEF Part
<1>11. Part(n, 4194304, 4) = Part(n, 4194304, 2) + 2 * Part(n, 8388608, 2)
  BY SMT DEF Part
<1>12. Part(n, 16777216, 4) = Part(n, 16777216, 2) + 2 * Part(n, 33554432, 2)
  BY SMT DEF Part
<1>13. Part(n, 67108864, 4) = Part(n, 67108864, 2) + 2 * Part(n, 134217728, 2)
  BY SMT DEF Part
<1>14. Part(n, 268435456, 4) = Part(n, 268435456, 2) + 2 * Part(n, 536870912, 2)
  BY SMT DEF Part
<1>15. Part(n, 1073741824, 4) = Part(n, 1073741824, 2) + 2 * Part(n, 2147483648, 2)
  BY SMT DEF Part
<1>16. Part(n, 1, 16) = Part(n, 1, 4) + 4 * Part(n, 4, 4)
  BY SMT DEF Part
<1>17. Part(n, 16, 16) = Part(n, 16, 4) + 4 * Part(n, 64, 4)
  BY SMT DEF Part
<1>18. Part(n, 256, 16) = Part(n, 256, 4) + 4 * Part(n, 1024, 4)
  BY SMT DEF Part
<1>19. Part(n, 4096, 16) = Part(n, 4096, 4) + 4 * Part(n, 16384, 4)
  BY SMT DEF Part
<1>20. Part(n, 65536, 16) = Part(n, 65536, 4) + 4 * Part(n, 262144, 4)
  BY SMT DEF Part
<1>21. Part(n, 1048576, 16) = Part(n, 1048576, 4) + 4 * Part(n, 4194304, 4)
  BY SMT DEF Part
<1>22. Part(n, 16777216, 16) = Part(n, 16777216, 4) + 4 * Part(n, 67108864, 4)
  BY SMT DEF Part
<1>23. Part(n, 268435456, 16) = Part(n, 268435456, 4) + 4 * Part(n, 1073741824, 4)
  BY SMT DEF Part
<1>24. Part(n, 1, 256) = Part(n, 1, 16) + 16 * Part(n, 16, 16)
  BY SMT DEF Part
<1>25. Part(n, 256, 256) = Part(n, 256, 16) + 16 * Part(n, 4096, 16)
  BY SMT DEF Part
<1>26. Part(n, 65536, 256) = Part(n, 65536, 16) + 16 * Part(n, 1048576, 16)
  BY SMT DEF Part
<1>27. Part(n, 16777216, 256) = Part(n, 16777216, 16) + 16 * Part(n, 268435456, 16)
  BY SMT DEF Part
<1>28. Part(n, 1, 65536) = Part(n, 1, 256) + 256 * Part(n, 256, 256)
  BY SMT DEF Part
<1>29. Part(n, 65536, 65536) = Part(n, 65536, 256) + 256 * Part(n, 16777216, 256)
  BY SMT DEF Part
<1>30. n = Part(n, 1, 65536) + 65536 * Part(n, 65536, 65536)
  BY SMT DEF Part
<1> QED BY <1>0, <1>1, <1>2, <1>3, <1>4, <1>5, <1>6, <1>7, <1>8, <1>9, <1>10, <1>11, <1>12,
          <1>13, <1>14, <1>15, <1>16, <1>17, <1>18, <1>19, <1>20, <1>21, <1>22, <1>23, <1>24, <1>25,
          <1>26, <1>27, <1>28, <1>29, <1>30

(* A number is what its bits add up to.                                    *)
LEMMA NumberOfBits ==
  ASSUME NEW n \in Nat, n < 2147483648
  PROVE  Number(Bits(n)) = n
<1> DEFINE bit(b) == IF b \in Bits(n) THEN 1 ELSE 0
           two(b) == bit(b) + 2 * bit(b + 1)
           four(b) == two(b) + 4 * two(b + 2)
           eight(b) == four(b) + 16 * four(b + 4)
           sixteen(b) == eight(b) + 256 * eight(b + 8)
<1>1. Number(Bits(n)) = sixteen(0) + 65536 * sixteen(16)
  BY DEF Number
<1>2. \A p \in Nat \ {0}, w \in Nat \ {0} : Part(n, p, w) \in Nat
  BY SMT DEF Part
<1>3. /\ bit(0) = Part(n, 1, 2)
      /\ bit(1) = Part(n, 2, 2)
      /\ bit(2) = Part(n, 4, 2)
      /\ bit(3) = Part(n, 8, 2)
      /\ bit(4) = Part(n, 16, 2)
      /\ bit(5) = Part(n, 32, 2)
      /\ bit(6) = Part(n, 64, 2)
      /\ bit(7) = Part(n, 128, 2)
      /\ bit(8) = Part(n, 256, 2)
      /\ bit(9) = Part(n, 512, 2)
      /\ bit(10) = Part(n, 1024, 2)
      /\ bit(11) = Part(n, 2048, 2)
      /\ bit(12) = Part(n, 4096, 2)
      /\ bit(13) = Part(n, 8192, 2)
      /\ bit(14) = Part(n, 16384, 2)
      /\ bit(15) = Part(n, 32768, 2)
      /\ bit(16) = Part(n, 65536, 2)
      /\ bit(17) = Part(n, 131072, 2)
      /\ bit(18) = Part(n, 262144, 2)
      /\ bit(19) = Part(n, 524288, 2)
      /\ bit(20) = Part(n, 1048576, 2)
      /\ bit(21) = Part(n, 2097152, 2)
      /\ bit(22) = Part(n, 4194304, 2)
      /\ bit(23) = Part(n, 8388608, 2)
      /\ bit(24) = Part(n, 16777216, 2)
      /\ bit(25) = Part(n, 33554432, 2)
      /\ bit(26) = Part(n, 67108864, 2)
      /\ bit(27) = Part(n, 134217728, 2)
      /\ bit(28) = Part(n, 268435456, 2)
      /\ bit(29) = Part(n, 536870912, 2)
      /\ bit(30) = Part(n, 1073741824, 2)
      /\ bit(31) = Part(n, 2147483648, 2)
  <2>1. bit(0) = Part(n, 1, 2)
    BY LowBits, SMT DEF Part
  <2>2. bit(1) = Part(n, 2, 2)
    BY LowBits, SMT DEF Part
  <2>3. bit(2) = Part(n, 4, 2)
    BY LowBits, SMT DEF Part
  <2>4. bit(3) = Part(n, 8, 2)
    BY LowBits, SMT DEF Part
  <2>5. bit(4) = Part(n, 16, 2)
    BY LowBits, SMT DEF Part
  <2>6. bit(5) = Part(n, 32, 2)
    BY LowBits, SMT DEF Part
  <2>7. bit(6) = Part(n, 64, 2)
    BY LowBits, SMT DEF Part
  <2>8. bit(7) = Part(n, 128, 2)
    BY LowBits, SMT DEF Part
  <2>9. bit(8) = Part(n, 256, 2)
    BY LowBits, SMT DEF Part
  <2>10. bit(9) = Part(n, 512, 2)
    BY LowBits, SMT DEF Part
  <2>11. bit(10) = Part(n, 1024, 2)
    BY LowBits, SMT DEF Part
  <2>12. bit(11) = Part(n, 2048, 2)
    BY LowBits, SMT DEF Part
  <2>13. bit(12) = Part(n, 4096, 2)
    BY LowBits, SMT DEF Part
  <2>14. bit(13) = Part(n, 8192, 2)
    BY LowBits, SMT DEF Part
  <2>15. bit(14) = Part(n, 16384, 2)
    BY LowBits, SMT DEF Part
  <2>16. bit(15) = Part(n, 32768, 2)
    BY LowBits, SMT DEF Part
  <2>17. bit(16) = Part(n, 65536, 2)
    BY LowBits, SMT DEF Part
  <2>18. bit(17) = Part(n, 131072, 2)
    BY LowBits, SMT DEF Part
  <2>19. bit(18) = Part(n, 262144, 2)
    BY LowBits, SMT DEF Part
  <2>20. bit(19) = Part(n, 524288, 2)
    BY LowBits, SMT DEF Part
  <2>21. bit(20) = Part(n, 1048576, 2)
    BY LowBits, SMT DEF Part
  <2>22. bit(21) = Part(n, 2097152, 2)
    BY LowBits, SMT DEF Part
  <2>23. bit(22) = Part(n, 4194304, 2)
    BY LowBits, SMT DEF Part
  <2>24. bit(23) = Part(n, 8388608, 2)
    BY LowBits, SMT DEF Part
  <2>25. bit(24) = Part(n, 16777216, 2)
    BY LowBits, SMT DEF Part
  <2>26. bit(25) = Part(n, 33554432, 2)
    BY LowBits, SMT DEF Part
  <2>27. bit(26) = Part(n, 67108864, 2)
    BY LowBits, SMT DEF Part
  <2>28. bit(27) = Part(n, 134217728, 2)
    BY LowBits, SMT DEF Part
  <2>29. bit(28) = Part(n, 268435456, 2)
    BY LowBits, SMT DEF Part
  <2>30. bit(29) = Part(n, 536870912, 2)
    BY LowBits, SMT DEF Part
  <2>31. bit(30) = Part(n, 1073741824, 2)
    BY LowBits, SMT DEF Part
  <2>32. bit(31) = Part(n, 2147483648, 2)
    BY LowBits, SMT DEF Part
  <2> QED BY <2>1, <2>2, <2>3, <2>4, <2>5, <2>6, <2>7, <2>8, <2>9, <2>10, <2>11, <2>12, <2>13,
          <2>14, <2>15, <2>16, <2>17, <2>18, <2>19, <2>20, <2>21, <2>22, <2>23, <2>24, <2>25,
          <2>26, <2>27, <2>28, <2>29, <2>30, <2>31, <2>32
<1> HIDE DEF bit
<1>4. /\ two(0) = Part(n, 1, 4)
      /\ two(2) = Part(n, 4, 4)
      /\ two(4) = Part(n, 16, 4)
      /\ two(6) = Part(n, 64, 4)
      /\ two(8) = Part(n, 256, 4)
      /\ two(10) = Part(n, 1024, 4)
      /\ two(12) = Part(n, 4096, 4)
      /\ two(14) = Part(n, 16384, 4)
      /\ two(16) = Part(n, 65536, 4)
      /\ two(18) = Part(n, 262144, 4)
      /\ two(20) = Part(n, 1048576, 4)
      /\ two(22) = Part(n, 4194304, 4)
      /\ two(24) = Part(n, 16777216, 4)
      /\ two(26) = Part(n, 67108864, 4)
      /\ two(28) = Part(n, 268435456, 4)
      /\ two(30) = Part(n, 1073741824, 4)
  <2>1. two(0) = bit(0) + 2 * bit(1)
    OBVIOUS
  <2>2. two(2) = bit(2) + 2 * bit(3)
    OBVIOUS
  <2>3. two(4) = bit(4) + 2 * bit(5)
    OBVIOUS
  <2>4. two(6) = bit(6) + 2 * bit(7)
    OBVIOUS
  <2>5. two(8) = bit(8) + 2 * bit(9)
    OBVIOUS
  <2>6. two(10) = bit(10) + 2 * bit(11)
    OBVIOUS
  <2>7. two(12) = bit(12) + 2 * bit(13)
    OBVIOUS
  <2>8. two(14) = bit(14) + 2 * bit(15)
    OBVIOUS
  <2>9. two(16) = bit(16) + 2 * bit(17)
    OBVIOUS
  <2>10. two(18) = bit(18) + 2 * bit(19)
    OBVIOUS
  <2>11. two(20) = bit(20) + 2 * bit(21)
    OBVIOUS
  <2>12. two(22) = bit(22) + 2 * bit(23)
    OBVIOUS
  <2>13. two(24) = bit(24) + 2 * bit(25)
    OBVIOUS
  <2>14. two(26) = bit(26) + 2 * bit(27)
    OBVIOUS
  <2>15. two(28) = bit(28) + 2 * bit(29)
    OBVIOUS
  <2>16. two(30) = bit(30) + 2 * bit(31)
    OBVIOUS
  <2> HIDE DEF two
  <2> QED BY <1>3, Halves, <2>1, <2>2, <2>3, <2>4, <2>5, <2>6, <2>7, <2>8, <2>9, <2>10, <2>11, <2>12, <2>13, <2>14, <2>15, <2>16
<1> HIDE DEF two
<1>5. /\ four(0) = Part(n, 1, 16)
      /\ four(4) = Part(n, 16, 16)
      /\ four(8) = Part(n, 256, 16)
      /\ four(12) = Part(n, 4096, 16)
      /\ four(16) = Part(n, 65536, 16)
      /\ four(20) = Part(n, 1048576, 16)
      /\ four(24) = Part(n, 16777216, 16)
      /\ four(28) = Part(n, 268435456, 16)
  <2>1. four(0) = two(0) + 4 * two(2)
    OBVIOUS
  <2>2. four(4) = two(4) + 4 * two(6)
    OBVIOUS
  <2>3. four(8) = two(8) + 4 * two(10)
    OBVIOUS
  <2>4. four(12) = two(12) + 4 * two(14)
    OBVIOUS
  <2>5. four(16) = two(16) + 4 * two(18)
    OBVIOUS
  <2>6. four(20) = two(20) + 4 * two(22)
    OBVIOUS
  <2>7. four(24) = two(24) + 4 * two(26)
    OBVIOUS
  <2>8. four(28) = two(28) + 4 * two(30)
    OBVIOUS
  <2> HIDE DEF four
  <2> QED BY <1>4, Halves, <2>1, <2>2, <2>3, <2>4, <2>5, <2>6, <2>7, <2>8
<1> HIDE DEF four
<1>6. /\ eight(0) = Part(n, 1, 256)
      /\ eight(8) = Part(n, 256, 256)
      /\ eight(16) = Part(n, 65536, 256)
      /\ eight(24) = Part(n, 16777216, 256)
  <2>1. eight(0) = four(0) + 16 * four(4)
    OBVIOUS
  <2>2. eight(8) = four(8) + 16 * four(12)
    OBVIOUS
  <2>3. eight(16) = four(16) + 16 * four(20)
    OBVIOUS
  <2>4. eight(24) = four(24) + 16 * four(28)
    OBVIOUS
  <2> HIDE DEF eight
  <2> QED BY <1>5, Halves, <2>1, <2>2, <2>3, <2>4
<1> HIDE DEF eight
<1>7. /\ sixteen(0) = Part(n, 1, 65536)
      /\ sixteen(16) = Part(n, 65536, 65536)
  <2>1. sixteen(0) = eight(0) + 256 * eight(8)
    OBVIOUS
  <2>2. sixteen(16) = eight(16) + 256 * eight(24)
    OBVIOUS
  <2> HIDE DEF sixteen
  <2> QED BY <1>6, Halves, <2>1, <2>2
<1> HIDE DEF sixteen
<1> QED BY <1>1, <1>7, Halves

(* The lowest bits of a number that bits make up.                          *)
LEMMA LowNumber ==
  ASSUME NEW bits
  PROVE  LET bit(b) == IF b \in bits THEN 1 ELSE 0
         IN  \E k \in Nat :
               Number(bits) = bit(0) + 2 * bit(1) + 4 * bit(2) + 8 * bit(3) + 16 * bit(4) + 32 * k
<1> DEFINE bit(b) == IF b \in bits THEN 1 ELSE 0
           two(b) == bit(b) + 2 * bit(b + 1)
           four(b) == two(b) + 4 * two(b + 2)
           eight(b) == four(b) + 16 * four(b + 4)
           sixteen(b) == eight(b) + 256 * eight(b + 8)
<1>1. Number(bits) = sixteen(0) + 65536 * sixteen(16)
  BY DEF Number
<1>2. \A b : bit(b) \in Nat
  OBVIOUS
<1> HIDE DEF bit
<1>3. \A b : two(b) \in Nat
  BY <1>2
<1>4. two(0) = bit(0) + 2 * bit(1) /\ two(2) = bit(2) + 2 * bit(3)
      /\ two(4) = bit(4) + 2 * bit(5)
  OBVIOUS
<1> HIDE DEF two
<1>5. \A b : four(b) \in Nat
  BY <1>3
<1>6. four(0) = two(0) + 4 * two(2) /\ four(4) = two(4) + 4 * two(6)
  OBVIOUS
<1> HIDE DEF four
<1>7. \A b : eight(b) \in Nat
  BY <1>5
<1>8. eight(0) = four(0) + 16 * four(4)
  OBVIOUS
<1> HIDE DEF eight
<1>9. \A b : sixteen(b) \in Nat
  BY <1>7
<1>10. sixteen(0) = eight(0) + 256 * eight(8)
  OBVIOUS
<1> HIDE DEF sixteen
<1> DEFINE k == bit(5) + 2 * two(6) + 8 * eight(8) + 2048 * sixteen(16)
<1>11. k \in Nat
  BY <1>2, <1>3, <1>7, <1>9
<1>12. Number(bits) = bit(0) + 2 * bit(1) + 4 * bit(2) + 8 * bit(3) + 16 * bit(4) + 32 * k
  <2>1. /\ bit(0) \in Nat /\ bit(1) \in Nat /\ bit(2) \in Nat /\ bit(3) \in Nat /\ bit(4) \in Nat
        /\ bit(5) \in Nat /\ two(6) \in Nat /\ eight(8) \in Nat /\ sixteen(16) \in Nat
    BY <1>2, <1>3, <1>7, <1>9
  <2> QED BY <1>1, <1>4, <1>6, <1>8, <1>10, <2>1, SMT
<1> QED BY <1>11, <1>12 DEF bit

(* What a front end's low bits make of the number that it holds.           *)
LEMMA LowFields ==
  ASSUME NEW bits, NEW n, n = Number(bits)
  PROVE  LET bit(b) == IF b \in bits THEN 1 ELSE 0
         IN  /\ (n \div 4) % 8 = bit(2) + 2 * bit(3) + 4 * bit(4)
             /\ (n \div 2) % 2 = bit(1)
             /\ n % 2 = bit(0)
<1> DEFINE bit(b) == IF b \in bits THEN 1 ELSE 0
<1>1. PICK k \in Nat : n = bit(0) + 2 * bit(1) + 4 * bit(2) + 8 * bit(3) + 16 * bit(4) + 32 * k
  BY LowNumber
<1>2. /\ bit(0) \in {0, 1} /\ bit(1) \in {0, 1} /\ bit(2) \in {0, 1}
      /\ bit(3) \in {0, 1} /\ bit(4) \in {0, 1}
  OBVIOUS
<1> HIDE DEF bit
<1>3. n % 2 = bit(0)
  BY <1>1, <1>2
<1>4. (n \div 2) % 2 = bit(1)
  <2>1. n \div 2 = bit(1) + 2 * (bit(2) + 2 * bit(3) + 4 * bit(4) + 8 * k)
    BY <1>1, <1>2
  <2> QED BY <1>2, <2>1
<1>5. (n \div 4) % 8 = bit(2) + 2 * bit(3) + 4 * bit(4)
  <2>1. n \div 4 = bit(2) + 2 * bit(3) + 4 * bit(4) + 8 * k
    BY <1>1, <1>2
  <2> QED BY <1>2, <2>1
<1> QED BY <1>3, <1>4, <1>5 DEF bit

(* The registers that the board reads are those of the rows.               *)
LEMMA RowReads ==
  ASSUME NEW f, Descriptor(f), NEW m
  PROVE  /\ f.type # FUNC_BLOCK.EXT_CLOCKING =>
              region_read(m["FB"], f.control_offset + ADC.CLK_DIV, 32) = HeldIn(f, m, ClockRow)
         /\ \A c : FrontRow(c) \in Layout(f) =>
              region_read(m["FB"], ChannelStart(f, c) + 2, 16) = HeldIn(f, m, FrontRow(c))
<1>1. f.control_offset \in Nat
  BY Sizes
<1>2. ASSUME f.type # FUNC_BLOCK.EXT_CLOCKING
      PROVE  region_read(m["FB"], f.control_offset + ADC.CLK_DIV, 32) = HeldIn(f, m, ClockRow)
  <2>1. ADC.CLK_DIV = 4 /\ Base(f, <<"block">>) = f.control_offset
    BY DEF ADC, Base
  <2>2. ClockRow.slots = Width(32) /\ ClockRow.shift = 0 /\ At(f, ClockRow) = f.control_offset + 4
    BY <1>2, <2>1, ClockRowOf DEF At
  <2>3. \A b \in Width(32) : 8 * (f.control_offset + 4) + 0 + b = 8 * (f.control_offset + 4) + b
    BY <1>1 DEF Width
  <2> QED BY <2>1, <2>2, <2>3 DEF region_read, HeldIn
<1>3. ASSUME NEW c, FrontRow(c) \in Layout(f)
      PROVE  region_read(m["FB"], ChannelStart(f, c) + 2, 16) = HeldIn(f, m, FrontRow(c))
  <2>1. /\ FrontRow(c).owner = <<"channel", c>> /\ FrontRow(c).low = 0
        /\ FrontRow(c).slots = Width(16) /\ FrontRow(c).shift = 16
    BY FrontRowOf
  <2>2. c \in Nat /\ f.type \in Analog
    <3>1. <<"channel", c>> \in Owners(f) /\ ChannelSlots(f) \in Nat
      BY <1>3, <2>1, RowFacts, Sizes
    <3>2. <<"channel", c>>[1] = "channel" /\ <<"channel", c>>[2] = c
      OBVIOUS
    <3>3. \E d \in 0 .. ChannelSlots(f) - 1 : f.type \in Analog /\ <<"channel", c>> = <<"channel", d>>
      BY <3>1, <3>2 DEF Owners
    <3> QED BY <3>1, <3>3
  <2>3. ChannelStart(f, c) = Base(f, <<"channel", c>>) /\ ChannelStart(f, c) \in Nat
    <3>1. CASE f.type = FUNC_BLOCK.ADC
      <4>1. ChannelStart(f, c) = f.control_offset + 44 + c * 24 + 0
        BY <3>1 DEF ChannelStart, AdcChannel, ADC_CHAN
      <4>2. Base(f, <<"channel", c>>) = f.control_offset + 44 + 24 * c
        BY <3>1 DEF Base
      <4> QED BY <1>1, <2>2, <4>1, <4>2
    <3>2. CASE f.type = FUNC_BLOCK.DAC
      <4>1. ChannelStart(f, c) = f.control_offset + 44 + c * 20 + 0
        BY <3>2 DEF ChannelStart, DacChannel, DAC_CHAN, FUNC_BLOCK
      <4>2. Base(f, <<"channel", c>>) = f.control_offset + 44 + 20 * c
        BY <3>2 DEF Base, FUNC_BLOCK
      <4> QED BY <1>1, <2>2, <4>1, <4>2
    <3> QED BY <2>2, <3>1, <3>2 DEF Analog
  <2>4. At(f, FrontRow(c)) = ChannelStart(f, c)
    BY <2>1, <2>3 DEF At
  <2>5. \A b \in Width(16) : 8 * (ChannelStart(f, c) + 2) + b = 8 * ChannelStart(f, c) + 16 + b
    BY <2>3 DEF Width
  <2> QED BY <2>1, <2>4, <2>5 DEF region_read, HeldIn
<1> QED BY <1>2, <1>3

(* A value in the lowest bits of a weight is itself again.                 *)
LEMMA RoundTrip ==
  ASSUME NEW lsb \in {5, 10, 20, 40, 80}, NEW x \in Int
  PROVE  Quotient(lsb * x, lsb) = x
<1>1. CASE lsb = 5
  BY <1>1, SMT DEF Quotient
<1>2. CASE lsb = 10
  BY <1>2, SMT DEF Quotient
<1>3. CASE lsb = 20
  BY <1>3, SMT DEF Quotient
<1>4. CASE lsb = 40
  BY <1>4, SMT DEF Quotient
<1>5. CASE lsb = 80
  BY <1>5, SMT DEF Quotient
<1> QED BY <1>1, <1>2, <1>3, <1>4, <1>5

(* A front end of an ADC that suits a range: its gain and its polarity.    *)
LEMMA InputFields ==
  ASSUME NEW code \in {0, 2, 4, 6, 8, 10, 12, 14, 16}, NEW held,
         held \cap Width(8) = Bits(224 + code) \cap Width(8), NEW fe, fe = Number(held)
  PROVE  (fe \div 4) % 8 = (code \div 4) % 8 /\ (fe \div 2) % 2 = (code \div 2) % 2
<1> DEFINE n == 224 + code
           bit(b) == IF b \in held THEN 1 ELSE 0
<1>1. n \in 0 .. 255
  OBVIOUS
<1>2. /\ 1 \in Bits(n) <=> (n \div 2) % 2 = 1
      /\ 2 \in Bits(n) <=> (n \div 4) % 2 = 1
      /\ 3 \in Bits(n) <=> (n \div 8) % 2 = 1
      /\ 4 \in Bits(n) <=> (n \div 16) % 2 = 1
  BY <1>1, ByteBits
<1>3. \A b \in Width(8) : b \in held <=> b \in Bits(n)
  OBVIOUS
<1>4. 1 \in Width(8) /\ 2 \in Width(8) /\ 3 \in Width(8) /\ 4 \in Width(8)
  BY DEF Width
<1>5. /\ (fe \div 4) % 8 = bit(2) + 2 * bit(3) + 4 * bit(4)
      /\ (fe \div 2) % 2 = bit(1)
  BY LowFields
<1>6. /\ (n \div 2) % 2 = (code \div 2) % 2 /\ (n \div 4) % 2 = (code \div 4) % 2
      /\ (n \div 8) % 2 = (code \div 8) % 2 /\ (n \div 16) % 2 = (code \div 16) % 2
  OBVIOUS
<1> HIDE DEF n
<1>7. /\ bit(1) = (code \div 2) % 2 /\ bit(2) = (code \div 4) % 2
      /\ bit(3) = (code \div 8) % 2 /\ bit(4) = (code \div 16) % 2
  <2>1. \A k \in Int : k % 2 = 1 \/ k % 2 = 0
    OBVIOUS
  <2>2. /\ code \div 2 \in Int /\ code \div 4 \in Int /\ code \div 8 \in Int /\ code \div 16 \in Int
    OBVIOUS
  <2> QED BY <1>2, <1>3, <1>4, <1>6, <2>1, <2>2
<1> HIDE DEF bit
<1>8. (code \div 4) % 8
        = ((code \div 4) % 2) + 2 * ((code \div 8) % 2) + 4 * ((code \div 16) % 2)
  OBVIOUS
<1> QED BY <1>5, <1>7, <1>8

(* The scale of an ADC channel fits what its front end holds.              *)
LEMMA InputScale ==
  ASSUME NEW range \in InputRanges, NEW held,
         held \cap Width(8) = Bits(224 + range.code) \cap Width(8), NEW fe, fe = Number(held)
  PROVE  AdcScale(range, fe)
<1> DEFINE code == range.code
           lsb == range.lsb
           values == SampleValues(range)
<1>1. /\ code \in {0, 2, 4, 6, 8, 10, 12, 14, 16} /\ lsb \in {5, 10, 20, 40, 80}
      /\ \/ code = 16 /\ lsb = 80
         \/ code \in {0, 2} /\ lsb = 40
         \/ code \in {4, 6} /\ lsb = 20
         \/ code \in {8, 10} /\ lsb = 10
         \/ code \in {12, 14} /\ lsb = 5
  BY SMT DEF InputRanges
<1>2. (fe \div 4) % 8 = (code \div 4) % 8 /\ (fe \div 2) % 2 = (code \div 2) % 2
  BY <1>1, InputFields
<1>3. 1 \in Bits(code) <=> (code \div 2) % 2 = 1
  BY <1>1, ByteBits
<1>4. values = IF 1 \in Bits(code) THEN 0 .. 4095 ELSE -2048 .. 2047
  BY DEF SampleValues
<1>5. \A x : Adc_Validate_Sample(range, x) <=> x \in values
  BY DEF Adc_Validate_Sample
<1> HIDE DEF code, lsb, values
<1>6. TwiceGain((fe \div 4) % 8) * lsb = 80
  <2>1. /\ TwiceGain(4) = 1 /\ TwiceGain(0) = 2 /\ TwiceGain(1) = 4 /\ TwiceGain(2) = 8
        /\ TwiceGain(3) = 16
    BY DEF TwiceGain
  <2>2. \/ (code \div 4) % 8 = 4 /\ lsb = 80
        \/ (code \div 4) % 8 = 0 /\ lsb = 40
        \/ (code \div 4) % 8 = 1 /\ lsb = 20
        \/ (code \div 4) % 8 = 2 /\ lsb = 10
        \/ (code \div 4) % 8 = 3 /\ lsb = 5
    <3>1. CASE code = 16
      BY <1>1, <3>1
    <3>2. CASE code \in {0, 2}
      <4>1. lsb = 40
        BY <1>1, <3>2
      <4>2. code \div 4 = 0
        BY <3>2, SMT
      <4> QED BY <4>1, <4>2
    <3>3. CASE code \in {4, 6}
      <4>1. lsb = 20
        BY <1>1, <3>3
      <4>2. code \div 4 = 1
        BY <3>3, SMT
      <4> QED BY <4>1, <4>2
    <3>4. CASE code \in {8, 10}
      BY <1>1, <3>4
    <3>5. CASE code \in {12, 14}
      BY <1>1, <3>5
    <3> QED BY <1>1, <3>1, <3>2, <3>3, <3>4, <3>5
  <2> QED BY <1>2, <2>1, <2>2
<1>7. (fe \div 2) % 2 = 0 <=> -1 \in values
  <2>1. (code \div 2) % 2 = 0 \/ (code \div 2) % 2 = 1
    BY <1>1
  <2> QED BY <1>2, <1>3, <1>4, <2>1
<1>8. ASSUME NEW x \in values
      PROVE  Adc_Volts_To_Sample(range, Adc_Sample_To_Volts(range, x).value).value = x
  <2>1. Adc_Sample_To_Volts(range, x) = [errno |-> "none", value |-> lsb * x]
    BY <1>5 DEF Adc_Sample_To_Volts, Converted, lsb
  <2>2. Adc_Sample_To_Volts(range, x).value = lsb * x
    BY <2>1
  <2>3. x \in Int
    BY <1>4
  <2>4. Quotient(lsb * x, lsb) = x
    BY <1>1, <2>3, RoundTrip
  <2>5. Adc_Volts_To_Sample(range, lsb * x) = [errno |-> "none", value |-> x]
    BY <1>5, <2>4 DEF Adc_Volts_To_Sample, Converted, lsb
  <2> QED BY <2>2, <2>5
<1> QED BY <1>6, <1>7, <1>8 DEF AdcScale, lsb, values

(* The scale of a DAC channel fits what its front end holds.               *)
LEMMA OutputScale ==
  ASSUME NEW range \in OutputRanges, NEW held,
         held \cap Width(3) = Bits(4 + range.code) \cap Width(3), NEW fe, fe = Number(held)
  PROVE  DacScale(range, fe)
<1> DEFINE code == range.code
           lsb == range.lsb
           offset == range.offset
           n == 4 + code
           bit(b) == IF b \in held THEN 1 ELSE 0
<1>1. /\ code \in 0 .. 3 /\ lsb \in {5, 10, 20, 40, 80} /\ offset \in {0, 2048}
      /\ \/ code = 2 /\ lsb = 40 /\ offset = 2048
         \/ code = 3 /\ lsb = 80 /\ offset = 2048
         \/ code = 0 /\ lsb = 20 /\ offset = 0
         \/ code = 1 /\ lsb = 40 /\ offset = 0
  BY DEF OutputRanges
<1>2. 0 \in Bits(n) <=> n % 2 = 1
  BY <1>1, ByteBits
<1>3. 1 \in Bits(n) <=> (n \div 2) % 2 = 1
  BY <1>1, ByteBits
<1>4. 0 \in Width(3) /\ 1 \in Width(3) /\ \A b \in Width(3) : b \in held <=> b \in Bits(n)
  BY DEF Width
<1>5. fe % 2 = bit(0) /\ (fe \div 2) % 2 = bit(1)
  BY LowFields
<1>6. n % 2 = code % 2 /\ (n \div 2) % 2 = (code \div 2) % 2
  BY <1>1
<1> HIDE DEF code, lsb, offset, n
<1>7. bit(0) = code % 2 /\ bit(1) = (code \div 2) % 2
  <2>1. (code % 2 = 0 \/ code % 2 = 1) /\ ((code \div 2) % 2 = 0 \/ (code \div 2) % 2 = 1)
    BY <1>1
  <2> QED BY <1>2, <1>3, <1>4, <1>6, <2>1
<1> HIDE DEF bit
<1>8. /\ lsb = 20 * (1 + (fe % 2)) * (1 + ((fe \div 2) % 2))
      /\ offset = 2048 * ((fe \div 2) % 2)
  <2>1. \/ code % 2 = 0 /\ (code \div 2) % 2 = 1 /\ lsb = 40 /\ offset = 2048
        \/ code % 2 = 1 /\ (code \div 2) % 2 = 1 /\ lsb = 80 /\ offset = 2048
        \/ code % 2 = 0 /\ (code \div 2) % 2 = 0 /\ lsb = 20 /\ offset = 0
        \/ code % 2 = 1 /\ (code \div 2) % 2 = 0 /\ lsb = 40 /\ offset = 0
    BY <1>1
  <2> QED BY <1>5, <1>7, <2>1
<1>9. ASSUME NEW x \in {0, 1, 2047, 2048, 4095}, NEW old \in OldConversions
      PROVE  LET back == Dac_Volts_To_Conv(range, Dac_Conv_To_Volts(range, x).value, old)
             IN  /\ back.errno = "none" => back.value = x
                 /\ Dac_Validate_Conv(old) => back.errno = "none"
  <2>1. Dac_Validate_Conv(x)
    BY DEF Dac_Validate_Conv
  <2>2. Dac_Conv_To_Volts(range, x) = [errno |-> "none", value |-> lsb * (x - offset)]
    BY <2>1 DEF Dac_Conv_To_Volts, Converted, lsb, offset
  <2>3. Dac_Conv_To_Volts(range, x).value = lsb * (x - offset)
    BY <2>2
  <2>4. Quotient(lsb * (x - offset), lsb) = x - offset
    BY <1>1, RoundTrip
  <2>5. (x - offset) + offset = x
    BY <1>1
  <2>6. Dac_Volts_To_Conv(range, lsb * (x - offset), old) = Converted(Dac_Validate_Conv(old), x)
    BY <2>4, <2>5 DEF Dac_Volts_To_Conv, lsb, offset
  <2>7. /\ Converted(Dac_Validate_Conv(old), x).errno = "none"
             => Converted(Dac_Validate_Conv(old), x).value = x
        /\ Dac_Validate_Conv(old) => Converted(Dac_Validate_Conv(old), x).errno = "none"
    BY DEF Converted, Rejected
  <2> QED BY <2>3, <2>6, <2>7
<1> QED BY <1>8, <1>9 DEF DacScale, lsb, offset

(* UnitsAgree, for a board of any layout: the rate that a function answers *)
(* is what the board makes of the divider that its registers hold, and the *)
(* bits of the front end of a channel that was set up fit the scale by     *)
(* which its samples and volts are converted.                              *)
THEOREM UnitsAlwaysAgree == Spec => []UnitsAgree
<1>1. IInv /\ UnitsInv => UnitsAgree
  <2> SUFFICES ASSUME IInv, UnitsInv PROVE RatesAgree /\ ScalesAgree
    BY DEF UnitsAgree
  <2>1. RatesAgree
    <3> SUFFICES ASSUME rate # 0
                 PROVE  rate = Clock(mem)
                          \div (Number(region_read(mem["FB"], fb.control_offset + ADC.CLK_DIV, 32)) + 1)
      BY DEF RatesAgree, Clock
    <3>1. Descriptor(fb) /\ Timing(fb, mem, rate)
      BY DEF IInv, UnitsInv
    <3>2. fb.type # FUNC_BLOCK.EXT_CLOCKING
      BY <3>1 DEF Timing
    <3>3. PICK d \in Dividers :
            HeldIn(fb, mem, ClockRow) = Bits(d) /\ rate = Clock(mem) \div (d + 1)
      BY <3>1 DEF Timing
    <3>4. region_read(mem["FB"], fb.control_offset + ADC.CLK_DIV, 32) = Bits(d)
      BY <3>1, <3>2, <3>3, RowReads
    <3>5. Number(Bits(d)) = d
      <4>1. d \in Nat /\ d < 2147483648
        BY SMT DEF Dividers
      <4> QED BY <4>1, NumberOfBits
    <3> QED BY <3>3, <3>4, <3>5
  <2>2. ScalesAgree
    <3> SUFFICES ASSUME NEW c \in DOMAIN setup, setup[c] # None, NEW fe,
                        fe = Number(region_read(mem["FB"], ChannelStart(fb, c) + 2, 16))
                 PROVE  IF fb.type = FUNC_BLOCK.ADC THEN AdcScale(setup[c], fe)
                                                    ELSE DacScale(setup[c], fe)
      BY DEF ScalesAgree
    <3>1. fb # None
      BY DEF UnitsInv
    <3>2. Descriptor(fb) /\ Scaling(fb, mem, setup)
      BY <3>1 DEF IInv, UnitsInv
    <3> DEFINE held == HeldIn(fb, mem, FrontRow(c))
    <3>3. FrontRow(c) \in Layout(fb) /\ Suits(fb, setup[c], held)
      BY <3>2 DEF Scaling
    <3>4. fe = Number(held)
      BY <3>2, <3>3, RowReads
    <3> HIDE DEF held
    <3>5. CASE fb.type = FUNC_BLOCK.ADC
      <4>1. /\ setup[c] \in InputRanges
            /\ held \cap Width(8) = Bits(224 + setup[c].code) \cap Width(8)
        BY <3>3, <3>5 DEF Suits
      <4> QED BY <3>4, <3>5, <4>1, InputScale
    <3>6. CASE fb.type # FUNC_BLOCK.ADC
      <4>1. /\ setup[c] \in OutputRanges
            /\ held \cap Width(3) = Bits(4 + setup[c].code) \cap Width(3)
        BY <3>3, <3>6 DEF Suits
      <4> QED BY <3>4, <3>6, <4>1, OutputScale
    <3> QED BY <3>5, <3>6
  <2> QED BY <2>1, <2>2
<1> QED BY <1>1, UnitsInvariant, RegistersInvariant, PTL
=============================================================================
