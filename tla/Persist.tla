------------------------------ MODULE Persist ------------------------------
(***************************************************************************)
(* The persistence layer of the index (db/dbmodel.go): the statements that *)
(* the writers send, and what a statement does to the tables.              *)
(*                                                                         *)
(* An Insert* function inserts a row, takes "duplicate entry" for success, *)
(* and, only when it is asked to (cfg.PerformUpdates, set by a replay),    *)
(* updates the row afterwards; the columns of the update are not always    *)
(* those of the insert.  An Update* function only updates.  Ids that the   *)
(* code computes with a hash (ID.Prefix, ComputeID) are the tuples that    *)
(* are hashed.  Times and raw bytes are left out.                          *)
(***************************************************************************)
EXTENDS Naturals, Sequences

Tables == {"transactions", "redeeming", "outputs", "assets", "addresses",
           "address_chain", "output_addresses", "epochs", "cvm_addresses",
           "cvm_transactions", "txdata", "pvm_blocks", "rewards", "validators",
           "transactions_block", "bech32", "accumulate_out", "accumulate_in",
           "txs_accumulate", "owners_address", "owners_outputs", "owners",
           "trace", "logs", "proposer"}

\* A table maps the ids of its rows to the rows.
EmptyDB == [t \in Tables |-> << >>]

\* No signature: the column is null.
Null == "null"

-----------------------------------------------------------------------------
(* Statements: kind, table, the id addressed, the row inserted and the      *)
(* columns set by the update.                                               *)

\* Insert, and update the columns of set when updates are performed.
Upsert(t, id, row, set) ==
  [kind |-> "upsert", table |-> t, id |-> id, row |-> row, set |-> set]

\* Insert only.
Insert(t, id, row) ==
  [kind |-> "insert", table |-> t, id |-> id, row |-> row, set |-> << >>]

\* Update only.
Update(t, id, set) ==
  [kind |-> "update", table |-> t, id |-> id, row |-> << >>, set |-> set]

\* A transaction of an unknown type: the writer returns an error.
Refuse == [kind |-> "refuse", table |-> "transactions", id |-> Null,
           row |-> << >>, set |-> << >>]

InsertTransactions(tx, chain, type, txfee, genesis) ==
  LET row == [chain |-> chain, type |-> type, txfee |-> txfee, genesis |-> genesis]
  IN Upsert("transactions", tx, row, row)

InsertOutputsRedeeming(o, tx, amount, asset, chain) ==
  LET row == [tx |-> tx, amount |-> amount, asset |-> asset, chain |-> chain]
  IN Upsert("redeeming", o, row, row)

InsertOutputs(o, row) == Upsert("outputs", o, row, row)

InsertAssets(id, chain, supply) ==
  LET row == [chain |-> chain, supply |-> supply] IN Upsert("assets", id, row, row)

\* The public key is determined by the address.
InsertAddresses(a) == Upsert("addresses", a, [key |-> a], [key |-> a])

InsertAddressChain(a, chain) == Insert("address_chain", <<a, chain>>, << >>)

InsertAddressBech32(a) == Upsert("bech32", a, [bech32 |-> a], [bech32 |-> a])

\* Mutant: the signature is among the columns of the update, null or not.
InsertOutputAddressesNull(o, a, sig) ==
  Upsert("output_addresses", <<o, a>>, [signature |-> sig], [signature |-> sig])

\* A missing signature is neither inserted nor updated.
InsertOutputAddresses(o, a, sig) ==
  Upsert("output_addresses", <<o, a>>, [signature |-> sig],
         IF sig = Null THEN << >> ELSE [signature |-> sig])

UpdateOutputAddresses(o, a, sig) ==
  Update("output_addresses", <<o, a>>, [signature |-> sig])

\* The work rows of the balance manager; an update leaves their flags alone.
InsertOutputAddressAccumulateOut(o, a) ==
  Upsert("accumulate_out", <<o, a>>, [output |-> o, address |-> a],
         [output |-> o, address |-> a])

InsertOutputAddressAccumulateIn(o, a) ==
  Upsert("accumulate_in", <<o, a>>,
         [output |-> o, address |-> a, outputProcessed |-> 0],
         [output |-> o, address |-> a])

\* Addresses every In row of the output.
UpdateOutputAddressAccumulateInOutputsProcessed(o) ==
  [Update("accumulate_in", o, [outputProcessed |-> 1]) EXCEPT !.kind = "flag"]

InsertOutputTxsAccumulate(chain, asset, a, tx) ==
  Insert("txs_accumulate", <<chain, asset, a, tx>>, << >>)

InsertTransactionsEpoch(tx, vertex) ==
  Upsert("epochs", tx, [vertex |-> vertex], [vertex |-> vertex])

InsertTransactionsValidator(tx, node) ==
  Upsert("validators", tx, [node |-> node], [node |-> node])

InsertTransactionsBlock(tx, blk) ==
  Upsert("transactions_block", tx, [block |-> blk], [block |-> blk])

InsertTransactionsRewardsOwnersAddress(tx, a, ipos) ==
  Upsert("owners_address", <<tx, a>>, [index |-> ipos], [index |-> ipos])

InsertTransactionsRewardsOwnersOutputs(o, tx, ipos) ==
  LET row == [tx |-> tx, index |-> ipos] IN Upsert("owners_outputs", o, row, row)

InsertTransactionsRewardsOwners(tx, chain) ==
  Upsert("owners", tx, [chain |-> chain], [chain |-> chain])

InsertPvmBlocks(blk, type, parent) ==
  LET row == [type |-> type, parent |-> parent] IN Upsert("pvm_blocks", blk, row, row)

InsertPvmProposer(id, blk, proposer) ==
  LET row == [block |-> blk, proposer |-> proposer] IN Upsert("proposer", id, row, row)

\* Mutant: the update of a replay clears the processed column.
InsertRewardsCleared(id, blk, txid) ==
  LET row == [block |-> blk, txid |-> txid, processed |-> 0]
  IN Upsert("rewards", id, row, row)

\* processed is a column of the insert and not of the update.
InsertRewards(id, blk, txid) ==
  Upsert("rewards", id, [block |-> blk, txid |-> txid, processed |-> 0],
         [block |-> blk, txid |-> txid])

UpdateRewardsProcessed(id) == Update("rewards", id, [processed |-> 1])

InsertCvmAddresses(tx, idx, type, a, asset, amount) ==
  LET row == [type |-> type, address |-> a, asset |-> asset, amount |-> amount]
  IN Upsert("cvm_addresses", <<tx, idx>>, row, row)

InsertCvmTransactions(id, tx, type, chain) ==
  LET row == [tx |-> tx, type |-> type, chain |-> chain]
  IN Upsert("cvm_transactions", id, row, row)

InsertCvmTransactionsTxdata(hash, block, idx, rcpt) ==
  LET row == [block |-> block, idx |-> idx, rcpt |-> rcpt] IN Upsert("txdata", hash, row, row)

InsertCvmTransactionsTxdataTrace(hash, idx, to) ==
  Upsert("trace", <<hash, idx>>, [to |-> to], [to |-> to])

InsertCvmLogs(blockHash, txHash, index, topic) ==
  Upsert("logs", <<blockHash, txHash, index>>, [topic |-> topic], [topic |-> topic])

-----------------------------------------------------------------------------
(* What a statement does.                                                   *)

\* row with the columns of set.
Overwrite(row, set) ==
  [c \in DOMAIN row |-> IF c \in DOMAIN set THEN set[c] ELSE row[c]]

Addresses(s, id, row) == IF s.kind = "flag" THEN row.output = s.id ELSE id = s.id

Inserts(s) == s.kind \in {"upsert", "insert"}

\* The tables after statement s, in a process that performs updates or not.
ExecContext(db, s, upd) ==
  LET old  == db[s.table]
      rows == IF ~Inserts(s) \/ s.id \in DOMAIN old THEN old
              ELSE [id \in DOMAIN old \cup {s.id} |-> IF id = s.id THEN s.row ELSE old[id]]
      sets == s.kind \in {"update", "flag"} \/ (s.kind = "upsert" /\ upd)
  IN [db EXCEPT ![s.table] =
        [id \in DOMAIN rows |-> IF sets /\ Addresses(s, id, rows[id])
                                THEN Overwrite(rows[id], s.set) ELSE rows[id]]]

\* The tables after the statements of a committed transaction.
ExecAll(db, stmts, upd) ==
  LET after[i \in 0..Len(stmts)] ==
        IF i = 0 THEN db ELSE ExecContext(after[i - 1], stmts[i], upd)
  IN after[Len(stmts)]

=============================================================================
