-------------------------------- MODULE Registers --------------------------------
(***************************************************************************)
(* The layout of the board's registers (include/dm35425_registers.h) and   *)
(* the codes of its function blocks (include/dm35425_types.h).  Offsets    *)
(* are in bytes, from the start of the section the record is named after.  *)
(***************************************************************************)
EXTENDS Integers

\* The general board control region; the table of the function blocks is in it.
GBC == [FORMAT |-> 0, REV |-> 1, END_INTERRUPT |-> 2, BOARD_RESET |-> 3,
        PDP_NUMBER |-> 4, FPGA_BUILD |-> 8, SYS_CLK_FREQ |-> 12,
        FB_START |-> 32, FB_BLK_SIZE |-> 16,
        FB_ID |-> 0, FB_OFFSET |-> 4, FB_DMA_OFFSET |-> 8]

\* The control block of a DMA channel, and the block of each of its buffers.
DMA == [ACTION |-> 0, SETUP |-> 1, STAT_OVERFLOW |-> 2, STAT_UNDERFLOW |-> 3,
        CURRENT_COUNT |-> 4, WR_FIFO_CNT |-> 8, RD_FIFO_CNT |-> 10,
        STAT_USED |-> 12, STAT_INVALID |-> 13, STAT_COMPLETE |-> 14,
        LAST_ACTION |-> 15]
DMA_BUFFER == [STAT |-> 2, CTRL |-> 3, SIZE |-> 4, ADDRESS |-> 8]

\* The header of a function block; its control section follows.
FB == [DMA_CHANNELS |-> 6, DMA_BUFFERS |-> 7, CTRL_START |-> 8]

ADC == [MODE_STATUS |-> 0, CLK_SRC |-> 1, START_TRIG |-> 2, STOP_TRIG |-> 3,
        CLK_DIV |-> 4, CLK_DIV_COUNTER |-> 8, PRE_CAPT_COUNT |-> 12,
        POST_CAPT_COUNT |-> 16, SAMPLE_COUNT |-> 20, INT_ENABLE |-> 24,
        INT_STAT |-> 30, CLK_BUS2 |-> 34]
ADC_CHAN == [START |-> 44, SIZE |-> 24, FRONT_END_CONFIG |-> 0, FILTER |-> 9,
             INTR_STAT |-> 10, INTR_ENABLE |-> 11, LOW_THRESHOLD |-> 12,
             HIGH_THRESHOLD |-> 16, LAST_SAMPLE |-> 20,
             FIFO_START |-> 820, FIFO_SIZE |-> 4]

DAC == [MODE_STATUS |-> 0, CLK_SRC |-> 1, START_TRIG |-> 2, STOP_TRIG |-> 3,
        CLK_DIV |-> 4, CLK_DIV_COUNT |-> 8, POST_STOP_CONV |-> 16,
        CONV_COUNT |-> 20, INT_ENABLE |-> 24, INT_STAT |-> 30, CLK_BUS2 |-> 34]
DAC_CHAN == [START |-> 44, SIZE |-> 20, FRONT_END_CONFIG |-> 0,
             MARKER_STATUS |-> 10, MARKER_ENABLE |-> 11, LAST_CONVERSION |-> 16,
             FIFO_START |-> 132, FIFO_SIZE |-> 4]

ADIO == [MODE_STATUS |-> 0, CLK_SRC |-> 1, START_TRIG |-> 2, STOP_TRIG |-> 3,
         CLK_DIV |-> 4, CLK_DIV_COUNTER |-> 8, PRE_CAPT_COUNT |-> 12,
         POST_CAPT_COUNT |-> 16, SAMPLE_COUNT |-> 20, INT_ENABLE |-> 24,
         INT_STAT |-> 30, CLK_BUS2 |-> 34]
\* The registers of the pins, behind the control section of the ADIO.
ADIO_CHAN == [START |-> 40, INPUT_VAL |-> 0, OUTPUT_VAL |-> 4, DIRECTION |-> 8,
              ADV_INT_MODE |-> 12, ADV_INT_MASK |-> 16, ADV_INT_COMP |-> 20,
              ADV_INT_CAPT |-> 24, P_BUS_ENABLE |-> 28, P_BUS_READY_ENABLE |-> 29,
              FIFO_START |-> 80, FIFO_SIZE |-> 4]

EXT_CLOCKING == [IN |-> 0, GATE_IN |-> 1, DIR |-> 2, EDGE |-> 3, PW2 |-> 4,
                 SETUP_GBL2 |-> 10]

\* Global clock buses 2 .. 7 have one register each, one behind the other.
Buses == 2 .. 7
BusRegister(first, bus) == first + (bus - 2)

\* The codes of the clock sources and triggers, all in a row.
ClockSources == 0 .. 15

FUNC_BLOCK == [INVALID |-> 0, INVALID2 |-> 65535, EXT_CLOCKING |-> 2,
               ADC |-> 4096, DAC |-> 8192, ADIO |-> 12289]
MAX_FB == 62
MAX_DMA_CHANNELS == 32
MAX_DMA_BUFFERS == 16
FIFO_ACCESS_FB_REVISION == 1
FIFO_SAMPLE_SIZE == 511
=============================================================================
