----------------------------- MODULE MCIntQueue -----------------------------
(* The ring on its own, with three slots and three different entries.      *)
EXTENDS IntQueue

CONSTANTS e0, e1, e2     \* e0 is the int 0 of a cleared slot

MCEntry == {e0, e1, e2}
=============================================================================
