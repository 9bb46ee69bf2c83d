------------------------------ MODULE Writers ------------------------------
(***************************************************************************)
(* The writers (services/indexes/{axc,avm,pvm,cvm}/writer.go): a message   *)
(* of the queue becomes a sequence of statements, committed as one         *)
(* transaction.  Messages are consumed in any order, any number of times,  *)
(* by processes that perform updates (a replay) or not.                    *)
(*                                                                         *)
(* A transaction is a record with                                          *)
(*   ins    sequence of [tx, idx, asset, amount]: outputs it redeems       *)
(*   outs   sequence of [kind, asset, amount, addrs]                       *)
(*   creds  sequence of [fx, signers]: the credentials of the inputs       *)
(* and what its type adds.  The id of an output is <<transaction, index>>  *)
(* (ID.Prefix), and the signature of a signer for transaction t is t.      *)
(***************************************************************************)
EXTENDS Persist, FiniteSets, SequencesExt

CONSTANTS
  AXC,       \* axcAssetID, the asset fees are paid in
  Width,     \* bits of an amount: 64 in the code
  Histories  \* what the chains may hold: records of
             \*   messages     what was accepted, in order (a sequence)
             \*   avmGenesis, pvmUtxos, pvmTxs   the genesis
             \*   rewardUtxos  outputs the node created, by staking transaction

Staking == {"add_validator", "add_delegator"}

\* The shape of what the nodes send: what is listed above is a sequence.
IsSeq(s) == s \in Seq(ToSet(s))
AreOuts(outs) == IsSeq(outs) /\ \A i \in DOMAIN outs : IsSeq(outs[i].addrs)
AreCreds(creds) == IsSeq(creds) /\ \A i \in DOMAIN creds : IsSeq(creds[i].signers)

IsBaseTx(tx) == IsSeq(tx.ins) /\ AreOuts(tx.outs) /\ AreCreds(tx.creds)

IsTx(tx) ==
  /\ tx.type = "atomic_export" => IsSeq(tx.ins) /\ AreOuts(tx.exported)
  /\ tx.type = "atomic_import" => IsSeq(tx.imported) /\ IsSeq(tx.outs) /\ AreCreds(tx.creds)
  /\ tx.type \notin {"atomic_export", "atomic_import"} => IsBaseTx(tx)
  /\ tx.type \in {"import", "pvm_import"} => IsSeq(tx.imported)
  /\ tx.type \in {"export", "pvm_export"} => AreOuts(tx.exported)
  /\ tx.type \in Staking => AreOuts(tx.stake) /\ IsSeq(tx.owners)
  /\ tx.type = "create_asset" =>
       IsSeq(tx.states) /\ \A g \in DOMAIN tx.states : AreOuts(tx.states[g])
  /\ tx.type = "operation" => IsSeq(tx.ops) /\ \A g \in DOMAIN tx.ops :
       IsSeq(tx.ops[g].ins) /\ AreOuts(tx.ops[g].outs)

AreTxs(txs) == IsSeq(txs) /\ \A i \in DOMAIN txs : IsTx(txs[i])

\* A reward names a staking transaction, and the node knows its outputs.
IsMessage(m, h) ==
  /\ m.topic = "avm" => IsTx(m.tx)
  /\ m.topic = "avm_consensus" => IsSeq(m.vertex.txs)
  /\ m.topic = "pvm" =>
       /\ AreTxs(m.block.txs)
       /\ \A i \in DOMAIN m.block.txs : m.block.txs[i].type = "reward_validator" =>
            m.block.txs[i].staked \in DOMAIN h.rewardUtxos
  /\ m.topic = "cvm" => AreTxs(m.block.atomic) /\ IsSeq(m.block.txs)

\* The genesis of the exchange chain creates assets; that of the platform
\* chain has outputs, validators and chains.
IsHistory(h) ==
  /\ IsSeq(h.messages) /\ \A i \in DOMAIN h.messages : IsMessage(h.messages[i], h)
  /\ AreTxs(h.avmGenesis)
  /\ \A i \in DOMAIN h.avmGenesis : h.avmGenesis[i].type = "create_asset"
  /\ AreOuts(h.pvmUtxos)
  /\ AreTxs(h.pvmTxs)
  /\ \A i \in DOMAIN h.pvmTxs : h.pvmTxs[i].type \in Staking \cup {"create_chain"}
  /\ \A tx \in DOMAIN h.rewardUtxos :
       /\ IsSeq(h.rewardUtxos[tx])
       /\ \A i \in DOMAIN h.rewardUtxos[tx] : IsSeq(h.rewardUtxos[tx][i].out.addrs)

ASSUME WritersAssumption ==
  Width \in Nat /\ Histories # {} /\ \A h \in Histories : IsHistory(h)

VARIABLES
  history,   \* the history being indexed
  db,        \* the index tables
  consumed   \* positions of the messages whose transaction has been committed

writerVars == <<history, db, consumed>>

AvmChain == "X"
PvmChain == "P"

\* Statements of f(1), ..., f(n).
ForEach(n, f(_)) == FlattenSeq([i \in 1..n |-> f(i)])

\* The sum of f(1), ..., f(n).
Total(n, f(_)) ==
  LET sum[i \in 0..n] == IF i = 0 THEN 0 ELSE sum[i - 1] + f(i) IN sum[n]

\* Unsigned arithmetic: math.Add64 returns an error, + and - wrap around.
Overflows(n) == n >= 2 ^ Width
Sub(a, b) == (2 ^ Width + a - b) % 2 ^ Width

-----------------------------------------------------------------------------
(* axc/writer.go.                                                           *)

InsertTransactionBase(tx, chain, type, txfee, genesis) ==
  <<InsertTransactions(tx, chain, type, txfee, genesis)>>

InsertAddressFromPublicKey(a) == <<InsertAddresses(a)>>

InsertOutputAddress(o, a, sig, chain) ==
  <<InsertAddressChain(a, chain), InsertAddressBech32(a),
    InsertOutputAddressAccumulateOut(o, a), InsertOutputAddressAccumulateIn(o, a),
    InsertOutputAddresses(o, a, sig)>>
  \o IF sig = Null THEN << >> ELSE <<UpdateOutputAddresses(o, a, sig)>>

\* Mutant: the In rows are flagged before those of the signers are there.
InsertTransactionInsFlagFirst(i, in, tx, creds, chain) ==
  LET o == <<in.tx, in.idx>>
      signers == IF i <= Len(creds) /\ creds[i].fx = "secp" THEN creds[i].signers ELSE << >>
      Signed(j) == InsertAddressFromPublicKey(signers[j])
                   \o InsertOutputAddress(o, signers[j], tx, chain)
  IN <<UpdateOutputAddressAccumulateInOutputsProcessed(o)>>
     \o ForEach(Len(signers), Signed)
     \o <<InsertOutputsRedeeming(o, tx, in.amount, in.asset, chain)>>

\* The i-th input of tx; the signers are taken from the i-th credential.
InsertTransactionIns(i, in, tx, creds, chain) ==
  LET o == <<in.tx, in.idx>>
      signers == IF i <= Len(creds) /\ creds[i].fx = "secp" THEN creds[i].signers ELSE << >>
      Signed(j) == InsertAddressFromPublicKey(signers[j])
                   \o InsertOutputAddress(o, signers[j], tx, chain)
  IN ForEach(Len(signers), Signed)
     \o <<UpdateOutputAddressAccumulateInOutputsProcessed(o),
          InsertOutputsRedeeming(o, tx, in.amount, in.asset, chain)>>

\* flags: those of stake, stakeableout, genesisutxo that hold.
InsertOutput(tx, idx, asset, out, type, amount, chain, flags) ==
  LET o == <<tx, idx>>
      Address(j) == InsertOutputAddress(o, out.addrs[j], Null, chain)
                    \o <<InsertOutputTxsAccumulate(chain, asset, out.addrs[j], tx)>>
  IN ForEach(Len(out.addrs), Address)
     \o <<InsertOutputs(o, [tx |-> tx, index |-> idx, asset |-> asset, type |-> type,
                            amount |-> amount, chain |-> chain, flags |-> flags])>>

\* One case per type of output.  Only transfers carry an amount.
ProcessStateOut(out, tx, idx, asset, chain, flags) ==
  CASE out.kind = "stakeable" ->
         InsertOutput(tx, idx, asset, out, "transfer", out.amount, chain,
                      flags \cup {"stakeableout"})
    [] out.kind = "transfer" ->
         InsertOutput(tx, idx, asset, out, "transfer", out.amount, chain, flags)
    [] out.kind \in {"nft", "nftmint", "mint"} ->
         InsertOutput(tx, idx, asset, out, out.kind, 0, chain, flags)
    [] OTHER -> <<Refuse>>

\* What an output of an asset adds to totalout, and to the amount issued.
AxcOut(out, asset) ==
  IF asset = AXC /\ out.kind \in {"transfer", "stakeable"} THEN out.amount ELSE 0
Issued(out) == IF out.kind = "transfer" THEN out.amount ELSE 0

InsertTransactionOuts(idx, out, tx, chain, flags) ==
  ProcessStateOut(out, tx, idx, out.asset, chain, flags)

\* AddInsContainer, AddOutsContainer.
NoIns  == [ins |-> << >>, chain |-> Null]
NoOuts == [outs |-> << >>, chain |-> Null, flags |-> {}]

Txfee(totalin, totalout, addlOutTxfee, genesis) ==
  LET out == (totalout + addlOutTxfee) % 2 ^ Width
  IN IF genesis \/ totalin < out THEN 0 ELSE Sub(totalin, out)

InsertTransaction(tx, chain, type, addIns, addOuts, addlOutTxfee, genesis) ==
  LET ins  == tx.ins \o addIns.ins
      outs == tx.outs \o addOuts.outs
      In(i) == InsertTransactionIns(i, ins[i], tx.id, tx.creds,
                 IF i <= Len(tx.ins) THEN chain ELSE addIns.chain)
      Out(i) == IF i <= Len(tx.outs)
                THEN InsertTransactionOuts(i - 1, outs[i], tx.id, chain, {})
                ELSE InsertTransactionOuts(i - 1, outs[i], tx.id, addOuts.chain, addOuts.flags)
      totalin  == Total(Len(ins), LAMBDA i : IF ins[i].asset = AXC THEN ins[i].amount ELSE 0)
      totalout == Total(Len(outs), LAMBDA i : AxcOut(outs[i], outs[i].asset))
  IN IF Overflows(totalin) \/ Overflows(totalout) THEN <<Refuse>>
     ELSE ForEach(Len(ins), In) \o ForEach(Len(outs), Out)
          \o InsertTransactionBase(tx.id, chain, type,
               Txfee(totalin, totalout, addlOutTxfee, genesis), genesis)

-----------------------------------------------------------------------------
(* avm/writer.go.                                                           *)

\* Mutant: the count of outputs is one too high when the states begin.
OutsAndStatesOffByOne(tx, states) ==
  LET Out(i) == InsertTransactionOuts(i - 1, tx.outs[i], tx.id, AvmChain, {})
      State(i) == ProcessStateOut(states[i].out, tx.id, Len(tx.outs) + i,
                                  states[i].asset, AvmChain, {})
  IN ForEach(Len(tx.outs), Out) \o ForEach(Len(states), State)

\* Statements for the outs of tx and then for states, a sequence of
\* [asset, out], which come after them in the count of outputs.
OutsAndStates(tx, states) ==
  LET Out(i) == InsertTransactionOuts(i - 1, tx.outs[i], tx.id, AvmChain, {})
      State(i) == ProcessStateOut(states[i].out, tx.id, Len(tx.outs) + i - 1,
                                  states[i].asset, AvmChain, {})
  IN ForEach(Len(tx.outs), Out) \o ForEach(Len(states), State)

StateOuts(groups) ==
  ForEach(Len(groups), LAMBDA g :
    [i \in 1..Len(groups[g].outs) |-> [asset |-> groups[g].asset, out |-> groups[g].outs[i]]])

\* Mutant: the first pass over the outs counts them for the fee too.
insertOperationTxTwice(tx) ==
  LET states == StateOuts(tx.ops)
      OpIn(op) == [i \in 1..Len(op.ins) |-> [tx |-> op.ins[i].tx, idx |-> op.ins[i].idx,
                                             asset |-> op.asset, amount |-> 0]]
      addIns == [ins |-> ForEach(Len(tx.ops), LAMBDA g : OpIn(tx.ops[g])), chain |-> AvmChain]
      amount == Total(Len(states), LAMBDA i : Issued(states[i].out))
      totalout == Total(Len(tx.outs), LAMBDA i : AxcOut(tx.outs[i], tx.outs[i].asset))
                  + Total(Len(states), LAMBDA i : AxcOut(states[i].out, states[i].asset))
  IN IF Overflows(amount) \/ Overflows(totalout) THEN <<Refuse>>
     ELSE OutsAndStates(tx, states)
          \o InsertTransaction(tx, AvmChain, "operation", addIns, NoOuts, totalout, FALSE)

\* The outs are written twice, first to count them.  The inputs of the
\* operations come after the transaction's, without an amount.
insertOperationTx(tx) ==
  LET states == StateOuts(tx.ops)
      OpIn(op) == [i \in 1..Len(op.ins) |-> [tx |-> op.ins[i].tx, idx |-> op.ins[i].idx,
                                             asset |-> op.asset, amount |-> 0]]
      addIns == [ins |-> ForEach(Len(tx.ops), LAMBDA g : OpIn(tx.ops[g])), chain |-> AvmChain]
      amount == Total(Len(states), LAMBDA i : Issued(states[i].out))
      totalout == Total(Len(states), LAMBDA i : AxcOut(states[i].out, states[i].asset))
  IN IF Overflows(amount) \/ Overflows(totalout) THEN <<Refuse>>
     ELSE OutsAndStates(tx, states)
          \o InsertTransaction(tx, AvmChain, "operation", addIns, NoOuts, totalout, FALSE)

\* The states issue the asset that is named after the transaction.
insertCreateAssetTx(tx, genesis) ==
  LET states == StateOuts([g \in 1..Len(tx.states) |-> [asset |-> tx.id, outs |-> tx.states[g]]])
      amount == Total(Len(states), LAMBDA i : Issued(states[i].out))
      totalout == Total(Len(states), LAMBDA i : AxcOut(states[i].out, states[i].asset))
  IN IF Overflows(amount) \/ Overflows(totalout) THEN <<Refuse>>
     ELSE OutsAndStates(tx, states) \o <<InsertAssets(tx.id, AvmChain, amount)>>
          \o InsertTransaction(tx, AvmChain, "create_asset", NoIns, NoOuts, totalout, genesis)

AvmInsertTx(tx) ==
  CASE tx.type = "create_asset" -> insertCreateAssetTx(tx, FALSE)
    [] tx.type = "operation"    -> insertOperationTx(tx)
    [] tx.type = "import"       ->
         InsertTransaction(tx, AvmChain, "import", [ins |-> tx.imported, chain |-> tx.source],
                           NoOuts, 0, FALSE)
    [] tx.type = "export"       ->
         InsertTransaction(tx, AvmChain, "export", NoIns,
           [outs |-> tx.exported, chain |-> tx.destination, flags |-> {}], 0, FALSE)
    [] tx.type = "base"         -> InsertTransaction(tx, AvmChain, "base", NoIns, NoOuts, 0, FALSE)
    [] OTHER                    -> <<Refuse>>

\* A vertex: the epochs of its transactions.
ConsumeConsensus(v) ==
  [i \in 1..Len(v.txs) |-> InsertTransactionsEpoch(v.txs[i], v.id)]

-----------------------------------------------------------------------------
(* pvm/writer.go.                                                           *)

\* Mutant: the stake is left out of the count of outputs.
RewardPositionNoStake(tx) == Len(tx.outs)

\* outcnt: the outputs of a reward come after those of the transaction and
\* after its stake.
RewardPosition(tx) == Len(tx.outs) + Len(tx.stake)

insertTransactionsRewardsOwners(tx) ==
  [i \in 1..Len(tx.owners) |-> InsertTransactionsRewardsOwnersAddress(tx.id, tx.owners[i], i - 1)]
  \o [i \in 1..2 |-> LET ipos == RewardPosition(tx) + i - 1
                     IN InsertTransactionsRewardsOwnersOutputs(<<tx.id, ipos>>, tx.id, ipos)]
  \o <<InsertTransactionsRewardsOwners(tx.id, PvmChain)>>

\* One transaction of a block, or of the genesis.
indexTransaction(blk, tx, genesis) ==
  LET inBlock == <<InsertTransactionsBlock(tx.id, blk)>>
      Common(addIns, addOuts) ==
        InsertTransaction(tx, PvmChain, tx.type, addIns, addOuts, 0, genesis)
  IN CASE tx.type \in Staking ->
            <<InsertTransactionsValidator(tx.id, tx.node)>> \o inBlock
            \o insertTransactionsRewardsOwners(tx)
            \o Common(NoIns, [outs |-> tx.stake, chain |-> PvmChain, flags |-> {"stake"}])
       [] tx.type \in {"add_subnet_validator", "create_subnet", "create_chain"} ->
            inBlock \o Common(NoIns, NoOuts)
       [] tx.type = "pvm_import" ->
            inBlock \o Common([ins |-> tx.imported, chain |-> tx.source], NoOuts)
       [] tx.type = "pvm_export" ->
            inBlock \o Common(NoIns, [outs |-> tx.exported, chain |-> tx.destination, flags |-> {}])
       [] tx.type = "advance_time"     -> << >>
       [] tx.type = "reward_validator" -> <<InsertRewards(tx.id, blk, tx.staked)>>
       [] OTHER -> <<Refuse>>

\* An atomic block is stored with the type of a proposal.
BlockTypeOf(b) == IF b.type = "atomic" THEN "proposal" ELSE b.type

PvmIndexBlock(b) ==
  (IF b.proposer = Null THEN << >> ELSE <<InsertPvmProposer(<<"outer", b.id>>, b.id, b.proposer)>>)
  \o IF b.type \notin {"proposal", "standard", "atomic", "abort", "commit"} THEN <<Refuse>>
     ELSE <<InsertPvmBlocks(b.id, BlockTypeOf(b), b.parent)>>
          \o ForEach(Len(b.txs), LAMBDA i : indexTransaction(b.id, b.txs[i], FALSE))

-----------------------------------------------------------------------------
(* cvm/writer.go.                                                           *)

insertAddress(tx, type, entries) ==
  [i \in 1..Len(entries) |->
     InsertCvmAddresses(tx, i - 1, type, entries[i].address, entries[i].asset, entries[i].amount)]

AxcTotal(entries) ==
  Total(Len(entries), LAMBDA i : IF entries[i].asset = AXC THEN entries[i].amount ELSE 0)

\* The fee of an atomic transaction is an unguarded difference.
indexExportTx(tx) ==
  LET Out(i) == InsertTransactionOuts(i - 1, tx.exported[i], tx.id, tx.destination, {})
      totalout == Total(Len(tx.exported), LAMBDA i : AxcOut(tx.exported[i], tx.exported[i].asset))
  IN IF Overflows(AxcTotal(tx.ins)) \/ Overflows(totalout) THEN <<Refuse>>
     ELSE insertAddress(tx.id, "in", tx.ins) \o ForEach(Len(tx.exported), Out)
          \o InsertTransactionBase(tx.id, tx.chain, "atomic_export_tx",
                                   Sub(AxcTotal(tx.ins), totalout), FALSE)

indexImportTx(tx) ==
  LET In(i) == InsertTransactionIns(i, tx.imported[i], tx.id, tx.creds, tx.source)
  IN IF Overflows(AxcTotal(tx.imported)) \/ Overflows(AxcTotal(tx.outs)) THEN <<Refuse>>
     ELSE insertAddress(tx.id, "out", tx.outs) \o ForEach(Len(tx.imported), In)
          \o InsertTransactionBase(tx.id, tx.chain, "atomic_import_tx",
                                   Sub(AxcTotal(tx.imported), AxcTotal(tx.outs)), FALSE)

\* The type and chain of a block's last atomic transaction of a known type.
LastAtomic(atomic) ==
  LET known == SelectSeq(atomic, LAMBDA tx : tx.type \in {"atomic_export", "atomic_import"})
  IN IF known = << >> THEN [type |-> Null, chain |-> Null] ELSE Last(known)

\* The row of every atomic transaction has the id of the block.
CvmIndexBlock(b) ==
  LET n == Len(b.atomic)
      last == LastAtomic(b.atomic)
      Atomic(i) == CASE b.atomic[i].type = "atomic_export" -> indexExportTx(b.atomic[i])
                     [] b.atomic[i].type = "atomic_import" -> indexImportTx(b.atomic[i])
                     [] OTHER -> << >>
  IN ForEach(n, Atomic)
     \o [i \in 1..Len(b.txs) |-> InsertCvmTransactionsTxdata(b.txs[i].hash, b.number, i - 1, b.txs[i].to)]
     \o [i \in 1..n |-> InsertCvmTransactions(b.number, b.atomic[i].id, last.type, last.chain)]

-----------------------------------------------------------------------------
(* Consumption.                                                             *)

\* The statements of a message, by topic.
Statements(m) ==
  CASE m.topic = "avm"           -> AvmInsertTx(m.tx)
    [] m.topic = "avm_consensus" -> ConsumeConsensus(m.vertex)
    [] m.topic = "pvm"           -> PvmIndexBlock(m.block)
    [] m.topic = "cvm"           -> CvmIndexBlock(m.block)
    [] m.topic = "cvm_trace"     -> <<InsertCvmTransactionsTxdataTrace(m.hash, m.idx, m.to)>>
    [] OTHER                     -> <<InsertCvmLogs(m.blockHash, m.txHash, m.index, m.first)>>

\* The statements of every message of every history, computed once.
StatementsOf ==
  [h \in Histories |-> [i \in DOMAIN h.messages |-> Statements(h.messages[i])]]

\* Mutant: the session is handed to the writer in place of the transaction, so
\* that what was written before an error stays.
ConsumeInSession(i, upd) ==
  /\ i \in DOMAIN history.messages
  /\ LET stmts == StatementsOf[history][i] IN
     /\ Refuse \notin ToSet(stmts)
     /\ \E n \in {1, Len(stmts)} :
          /\ db' = ExecAll(db, SubSeq(stmts, 1, n), upd)
          /\ consumed' = IF n = Len(stmts) THEN consumed \cup {i} ELSE consumed
  /\ UNCHANGED history

\* A consumer, or a worker of a replay (upd), handles a message.  An error
\* rolls everything back.
Consume(i, upd) ==
  /\ i \in DOMAIN history.messages
  /\ LET stmts == StatementsOf[history][i] IN
     /\ Refuse \notin ToSet(stmts)
     /\ db' = ExecAll(db, stmts, upd)
     /\ consumed' = consumed \cup {i}
  /\ UNCHANGED history

WritersInit ==
  /\ history \in Histories
  /\ db = EmptyDB
  /\ consumed = {}

=============================================================================
