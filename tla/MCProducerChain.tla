-------------------------- MODULE MCProducerChain --------------------------
(* A small instance of ProducerChain with three machines: m1 and m2 on the  *)
(* node of instance n1, m3 alone on n2, whose node accepts only one of the  *)
(* containers.                                                              *)
EXTENDS ProducerChain

CONSTANTS m1, m2, m3, n1, n2, c1, c2

MCInstanceOf == [m \in Machines |-> IF m = m3 THEN n2 ELSE n1]
MCOrder == [i \in Instances |-> IF i = n1 THEN <<c1, c2>> ELSE <<c2>>]
=============================================================================
