-------------------------- MODULE MCBalanceManager --------------------------
(* Small instances of BalanceManager.  Outputs o1 and o2 have the same two   *)
(* addresses, with the balances k1 and k2: rows r1 and r2 of o1, r3 and r4   *)
(* of o2.  An instance takes the rows it needs.                              *)
EXTENDS BalanceReaders

CONSTANTS p1, p2, o1, o2, r1, r2, r3, r4, x1, x2, k1, k2,
          out1, out2, in1, tick2, tx1

MCManagerOf == [w \in Workers |-> IF w \in {out1, in1, tx1} THEN p1 ELSE p2]
OneManager == [w \in Workers |-> p1]
MCKindOf == [w \in Workers |->
  CASE w \in {out1, out2} -> "out" [] w = in1 -> "in"
    [] w = tick2 -> "tick" [] OTHER -> "tx"]
MCOutputOf == [r \in Rows |-> IF r \in {r1, r2} THEN o1 ELSE o2]
MCTxRowOf == [r \in Rows |-> IF r \in {r1, r3} THEN x1 ELSE x2]
MCKeyOf == [id \in Rows \cup TxRows |-> IF id \in {r1, r3, x1} THEN k1 ELSE k2]
MCAmount == [id \in Rows \cup TxRows |->
  CASE id = r1 -> 1 [] id = r2 -> 2 [] id \in Rows -> 3 [] OTHER -> 0]
=============================================================================
