----------------------------- MODULE MCMultiboard -----------------------------
(* Acquisition with a few boards, small rings and short queues.            *)
EXTENDS Multiboard

\* At most one board has an index that does not start at 0: a bound on the heaps
\* that are followed, not on what happens with one.
OneNotZeroed == \A b, c \in Board : malloced[b] # 0 /\ malloced[c] # 0 => b = c

\* Such a heap is followed until RemoveISR sets done, a bound on the size of the
\* run: what comes after is followed with the others.
ZeroedWhenDone == done => \A b \in Board : malloced[b] = 0
=============================================================================
