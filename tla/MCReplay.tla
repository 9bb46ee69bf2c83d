------------------------------ MODULE MCReplay ------------------------------
(* A small instance of Replay: a chain with two decisions and no vertex, and *)
(* a block and a trace of the contract chain.  The rows are all good, or the *)
(* second decision has a bad key, or the trace and the block, or the trace   *)
(* and the first decision, a bad body.                                       *)
EXTENDS Replay

CONSTANTS c1, ax, d1, d2, b1, t1, w1, w2

MCPool == [t \in Topics |->
  CASE t[2] = startDecision -> <<d1, d2>>
    [] t[2] = startAXchain -> <<b1>>
    [] t[2] = startAXchainTrc -> <<t1>>
    [] OTHER -> << >>]

GoodRows == [r \in Rows |-> "good"]
MCContents == {GoodRows, [GoodRows EXCEPT ![d2] = "badKey"],
               [GoodRows EXCEPT ![b1] = "badBody", ![t1] = "badBody"],
               [GoodRows EXCEPT ![d1] = "badBody", ![t1] = "badBody"]}
=============================================================================
