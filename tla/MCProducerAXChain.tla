------------------------- MODULE MCProducerAXChain -------------------------
(* Small instances of ProducerAXChain.                                      *)
EXTENDS ProducerAXChain

CONSTANTS w1, w2
=============================================================================
