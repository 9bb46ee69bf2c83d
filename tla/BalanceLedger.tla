--------------------------- MODULE BalanceLedger ---------------------------
(***************************************************************************)
(* What the accumulated balances promise a reader of                       *)
(* accumulate_balances_received, _sent and _transactions.  The index only  *)
(* grows.  A balance only ever changes by a batch of work rows that were   *)
(* not counted before and that the index justifies by then: outputs that   *)
(* are indexed, in the received balances; outputs that are indexed and     *)
(* redeemed, in the sent ones.  Each row of a batch is added once, together *)
(* with the marking of the rows.                                           *)
(***************************************************************************)
EXTENDS Naturals

CONSTANTS Tables, Rows, TxRows, Ids, Outputs, OutputOf

VARIABLES
  indexed,  \* outputs in the index
  spent,    \* outputs with a redemption in the index
  counted,  \* counted[t]: rows of table t that are in the balances
  added     \* added[t][id]: how often a row was added to its balance

ledgerVars == <<indexed, spent, counted, added>>

Init ==
  /\ indexed = {} /\ spent = {}
  /\ counted = [t \in Tables |-> {}]
  /\ added = [t \in Tables |-> [id \in Ids |-> 0]]

\* Rows that may be counted in table t.
Due(t) ==
  IF t = "tx" THEN TxRows
  ELSE {r \in Rows : OutputOf[r] \in indexed /\ (t = "in" => OutputOf[r] \in spent)}

\* Transactions are indexed.
Index ==
  /\ indexed \subseteq indexed' /\ indexed' \subseteq Outputs
  /\ spent \subseteq spent' /\ spent' \subseteq Outputs
  /\ UNCHANGED <<counted, added>>

\* One database transaction counts the rows S of table t.
Count(t, S) ==
  /\ counted' = [counted EXCEPT ![t] = @ \cup S]
  /\ added' = [added EXCEPT ![t] =
                 [id \in Ids |-> IF id \in S THEN @[id] + 1 ELSE @[id]]]
  /\ UNCHANGED <<indexed, spent>>

Next == Index \/ \E t \in Tables : \E S \in SUBSET (Due(t) \ counted[t]) : Count(t, S)

Spec == Init /\ [][Next]_ledgerVars
=============================================================================
