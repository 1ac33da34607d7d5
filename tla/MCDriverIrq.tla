---------------------------- MODULE MCDriverIrq ----------------------------
(* Small instances of the interrupt path of the driver.                    *)
EXTENDS DriverIrq, TLC

CONSTANTS p1, p2

MCEntry == [fb : FB, dma : BOOLEAN]
MCZeroEntry == [fb |-> 0, dma |-> FALSE]
\* Both kinds of function block 0, DMA interrupts of function block 1.
MCSources == MCEntry \ {[fb |-> 1, dma |-> FALSE]}
MCSymmetry == Permutations(Procs)
=============================================================================
