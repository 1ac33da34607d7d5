------------------------------ MODULE MCDmaBuffers ------------------------------
(* Up to two boards, with the BARs that the probe tells apart, and two     *)
(* buffers.                                                                *)
EXTENDS DmaBuffers, TLC

CONSTANTS p1, p2, p3, main, other

Board(gbc, fb) == (0 :> gbc) @@ (1 :> fb)

MCBars == { 0 :> Board("memory", "memory") @@ (1 :> Board("io", "absent")),
            0 :> Board("memory", "memory") @@ (1 :> Board("memory", "invalid")),
            0 :> Board("io", "memory") }
MCFaults == {"enable", "range", "map", "irq", "numbers", "cdev",
             "leaked", "size", "coherent", "descriptor"}
MCSymmetry == Permutations(Piece)
=============================================================================
