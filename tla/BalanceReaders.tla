--------------------------- MODULE BalanceReaders ---------------------------
(***************************************************************************)
(* The two ways ListAddresses (services/indexes/axc/reader.go) reads a     *)
(* balance: from the accumulated balances, when IsAccumulateBalanceReader  *)
(* is set, or from the outputs and their redemptions.  Each is one SQL     *)
(* statement, so it sees one committed state of the tables.                *)
(***************************************************************************)
EXTENDS BalanceRefinement, Integers

CONSTANT Amount  \* avm_outputs.amount of the output of a row

\* An Out row and the Tx row of its transaction name the same chain, asset and
\* address, the identity of a balance.
ASSUME AmountAssumption ==
  /\ Amount \in [Ids -> Nat] /\ IsFiniteSet(Rows)
  /\ \A r \in Rows : KeyOf[TxRowOf[r]] = KeyOf[r]

\* The sum of f over a finite set S of rows, as the number of its units: a row
\* r stands for the units <<r, 1>> to <<r, f[r]>>.
Units(f, S) == UNION {{r} \X (1 .. f[r]) : r \in S}
Total(f, S) == Cardinality(Units(f, S))

SumOf(S) == Total(Amount, S)

\* utxo_count and total_amount of balance k in the received or sent table: the
\* sums of what was added to it.
RowsAt(k) == {r \in Rows : KeyOf[r] = k}
UtxoCount(t, k) == Total(applied[t], RowsAt(k))
TotalAmount(t, k) == Total([r \in Rows |-> applied[t][r] * Amount[r]], RowsAt(k))

\* What accumulate_balances_transactions counts for balance k.
TransactionsCounted(k) == {x \in TxRows : KeyOf[x] = k /\ applied["tx"][x] > 0}

\* FROM accumulate_balances_received LEFT JOIN the other two tables: no row of
\* balance k before the Out worker has added to it, whatever was sent.
AccumulateBalanceReader(k) ==
  IF UtxoCount("out", k) = 0 THEN {}
  ELSE {[received     |-> TotalAmount("out", k),
         sent         |-> TotalAmount("in", k),
         balance      |-> TotalAmount("out", k) - TotalAmount("in", k),
         utxos        |-> UtxoCount("out", k) - UtxoCount("in", k),
         transactions |-> TransactionsCounted(k)]}

\* The counts are scanned into uint64: neither a number below zero nor the
\* NULL of a balance without a transactions row fits, and the request fails.
Scans(row) == row.utxos >= 0 /\ row.transactions # {}

\* avm_outputs joined with avm_output_addresses and avm_outputs_redeeming,
\* grouped by balance: no row of a balance without an output.
OutputsReader(k) ==
  LET owned == {r \in RowsAt(k) \cap addresses : OutputOf[r] \in stored}
      redeemedRows == {r \in owned : OutputOf[r] \in redeemed}
  IN IF owned = {} THEN {}
     ELSE {[received     |-> SumOf(owned),
            sent         |-> SumOf(redeemedRows),
            balance      |-> SumOf(owned \ redeemedRows),
            utxos        |-> Cardinality(owned \ redeemedRows),
            transactions |-> {TxRowOf[r] : r \in owned}]}

\* Rows of balance k that are still to be counted.
Outstanding(t, k) ==
  {r \in RowsAt(k) \ processed[t] :
     OutputOf[r] \in stored /\ (t = "in" => OutputOf[r] \in redeemed)}

OutstandingTxs(k) == {x \in rows["tx"] \ processed["tx"] : KeyOf[x] = k}

\* At any moment the two readers differ by the work that is outstanding and by
\* nothing else.  The accumulated reader never shows a balance that the outputs
\* do not, leaves one out only while none of its outputs is counted, and misses
\* in each column exactly what is still to be counted, although the Out, In and
\* Tx workers pass one another.  ListAddresses then shows too small a balance,
\* or fails as the row does not scan, which it does only while the In worker is
\* ahead of the Out worker or the Tx worker has work; no error, retry or crash
\* makes the readers differ once the work is done.
ReadersAgree ==
  \A k \in Keys :
    LET out == Outstanding("out", k)
        in == Outstanding("in", k)
        tx == OutstandingTxs(k)
    IN /\ OutputsReader(k) = {} => AccumulateBalanceReader(k) = {}
       /\ \A direct \in OutputsReader(k) :
            /\ AccumulateBalanceReader(k) = {} => direct.received = SumOf(out)
            /\ \A acc \in AccumulateBalanceReader(k) :
                 /\ acc.received + SumOf(out) = direct.received
                 /\ acc.sent + SumOf(in) = direct.sent
                 /\ acc.balance + SumOf(out) - SumOf(in) = direct.balance
                 /\ acc.utxos + Cardinality(out) - Cardinality(in) = direct.utxos
                 /\ direct.transactions \subseteq acc.transactions \cup tx
                 /\ ~Scans(acc) => Cardinality(out) > Cardinality(in) \/ tx # {}
=============================================================================
