--------------------------- MODULE MCIndexerPool ---------------------------
(* Small instances of IndexerPool: one process, or one with two workers and *)
(* another with a third.                                                    *)
EXTENDS IndexerPool

CONSTANTS m1, m2, w1, w2, w3, a, b, u

OneMachine  == [w \in Threads |-> m1]
TwoMachines == [w \in Threads |-> IF w = w3 THEN m2 ELSE m1]

\* a was created before b, and b before u.
MCCreatedAt == [r \in Rows |-> CASE r = a -> 0 [] r = b -> 1 [] r = u -> 2]
=============================================================================
