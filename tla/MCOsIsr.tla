------------------------------- MODULE MCOsIsr -------------------------------
(* The library's interrupt thread on small queues.                         *)
EXTENDS OsIsr
=============================================================================
