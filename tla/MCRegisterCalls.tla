----------------------------- MODULE MCRegisterCalls -----------------------------
(* Boards with one function block of each kind: a large one, and a small   *)
(* one on which the board raises interrupts.                               *)
EXTENDS RegisterCalls

\* Entries of the table: the type and revision, the block, and its DMA.
Entry(type, start, dma, channels, buffers) ==
  [type |-> type, fb |-> start, dma |-> dma, channels |-> channels, buffers |-> buffers]
Large == << Entry( 4096,    0, 2048, 32, 2), Entry(8192, 1028, 3584, 4, 2),
            Entry(12289, 1280, 3952,  3, 2), Entry(   2, 1536,    0, 0, 0) >>
Small == << Entry( 4096,    0, 2048,  1, 1), Entry(8192, 1028, 3584, 1, 1),
            Entry(12289, 1280, 3952,  1, 1) >>

At(offset, value) == {8 * offset + b : b \in Bits(value)}

Table(blocks) ==
  UNION {At(FbEntry(n - 1), blocks[n].type + 2^24)
           \cup At(FbEntry(n - 1) + GBC.FB_OFFSET, blocks[n].fb)
           \cup At(FbEntry(n - 1) + GBC.FB_DMA_OFFSET, blocks[n].dma) : n \in DOMAIN blocks}
Headers(blocks) ==
  UNION {At(blocks[n].fb, blocks[n].type)
           \cup At(blocks[n].fb + FB.DMA_CHANNELS, blocks[n].channels)
           \cup At(blocks[n].fb + FB.DMA_BUFFERS, blocks[n].buffers) : n \in DOMAIN blocks}

Image(blocks, clock) ==
  [GBC |-> Table(blocks) \cup At(GBC.SYS_CLK_FREQ, clock), FB |-> Headers(blocks)]

\* 55 MHz is close to a standard clock (54 MHz); 30 MHz is not.
MCImages == {Image(Large, 5500), Image(Small, 3000)}

\* Each event makes all that follows differ, so it is followed up only on the
\* small board, whose blocks have one channel of one buffer.
EventsOnSmall == events > 0 => fb.num_dma_channels = 1

\* The table of 62 entries.  The last DMA buffer ends where its region ends, and
\* channel 150 of the DAC would be the first one behind it.
MCLength == [GBC |-> 32 + 16 * MAX_FB, FB |-> 4096]

Symmetric == Permutations(Callers)
=============================================================================
