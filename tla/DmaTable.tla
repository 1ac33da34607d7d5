-------------------------------- MODULE DmaTable --------------------------------
(***************************************************************************)
(* What the DMA buffers of the driver promise: each buffer of a board has  *)
(* at most one piece of memory, and no piece of memory has two owners.     *)
(* Specification only; module DmaBuffers implements it.                    *)
(***************************************************************************)
EXTENDS Naturals

CONSTANTS Buffer, Piece

VARIABLE table   \* a partial function from buffers to pieces of memory

Owned == {table[b] : b \in DOMAIN table}

Init == table = [b \in {} |-> 0]

Initialize(b, p) ==
  /\ b \notin DOMAIN table
  /\ p \notin Owned
  /\ table' = [c \in DOMAIN table \cup {b} |-> IF c = b THEN p ELSE table[c]]

Release(b) ==
  /\ b \in DOMAIN table
  /\ table' = [c \in DOMAIN table \ {b} |-> table[c]]

Next == \E b \in Buffer : Release(b) \/ \E p \in Piece : Initialize(b, p)

Spec == Init /\ [][Next]_table
=============================================================================
