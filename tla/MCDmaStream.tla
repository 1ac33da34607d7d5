------------------------------ MODULE MCDmaStream ------------------------------
(* Both programs, with as few buffers as let the threads be apart.         *)
EXTENDS DmaStream
=============================================================================
