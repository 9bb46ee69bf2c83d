------------------------------ MODULE Indexing ------------------------------
(***************************************************************************)
(* The index tables and everything that writes them: consumers and replays *)
(* (Writers), the genesis (IndexBootstrap), the rewards (RewardsHandler).  *)
(***************************************************************************)
EXTENDS IndexBootstrap, RewardsHandler

CONSTANTS MaxFailures  \* bound: errors and stops in a behaviour

VARIABLES failures

vars == <<writerVars, bootVars, handlerVars, failures>>

Init == WritersInit /\ BootstrapInit /\ HandlerInit /\ failures = 0

MayFail == failures < MaxFailures /\ failures' = failures + 1

Consumes ==
  /\ \E i \in DOMAIN history.messages, upd \in BOOLEAN : Consume(i, upd)
  /\ UNCHANGED <<bootVars, handlerVars, failures>>

Boots(p) ==
  /\ \/ CheckFlag(p)
     \/ \E c \in Chains : BootstrapStatement(p, c)
     \/ BootstrapEnds(p)
  /\ UNCHANGED <<handlerVars, failures>>

BootFails(p) ==
  /\ MayFail
  /\ BootstrapCrash(p) \/ CheckFlagError(p) \/ \E c \in Chains : BootstrapError(p, c)
  /\ UNCHANGED handlerVars

Handles(h) ==
  /\ ProcessRewards(h) \/ HandleReward(h) \/ WriteRewardStatement(h) \/ MarkRewardProcessed(h)
  /\ UNCHANGED <<bootVars, failures>>

HandlerFails(h) == MayFail /\ HandlerError(h) /\ UNCHANGED bootVars

Next ==
  \/ Consumes
  \/ \E p \in Processes : Boots(p) \/ BootFails(p)
  \/ \E h \in Handlers : Handles(h) \/ HandlerFails(h)

Spec == Init /\ [][Next]_vars

\* The goroutines run and the ticker ticks.  Nothing makes a message arrive.
FairSpec == Spec /\ \A p \in Processes : WF_vars(Boots(p))
                 /\ \A h \in Handlers : WF_vars(Handles(h))

-----------------------------------------------------------------------------
(* What the chains guarantee of the statements of a history.                *)

\* The statements of the genesis (or not), of the messages of S in the order
\* in which the chain accepted them, and of the outputs of the rewards of R.
StatementsIn(h, S, g, R) ==
  LET genesis(c) == IF g THEN FlattenSeq(UnitsOf[h][c]) ELSE << >>
      message(i) == IF i \in S THEN StatementsOf[h][i] ELSE << >>
      rewarded == SetToSeq(R)
      utxos(i) == processRewardUtxos(h.rewardUtxos[rewarded[i]], rewarded[i])
  IN genesis("avm") \o genesis("pvm") \o ForEach(Len(h.messages), message)
     \o ForEach(Len(rewarded), utxos)

\* Rows are compared without the columns that record progress, and the rows of
\* cvm_transactions, one for all the atomic transactions of a block, by id.
\* The second may have a signature that the first one lacks.
Agree(t, a, b) ==
  CASE t = "cvm_transactions" -> TRUE
    [] t = "accumulate_in" -> a.output = b.output /\ a.address = b.address
    [] t = "output_addresses" -> a.signature \in {Null, b.signature}
    [] t = "rewards" -> a.block = b.block /\ a.txid = b.txid
    [] OTHER -> a = b

\* An id has one meaning: ids are hashes, an output is redeemed once, and a
\* transaction is in one vertex.  A block has one accepted child, and a staking
\* transaction is rewarded once.
Coherent(h) ==
  LET all == StatementsIn(h, DOMAIN h.messages, TRUE, DOMAIN h.rewardUtxos)
  IN \A i, j \in DOMAIN all : LET s == all[i] u == all[j] IN
       Inserts(s) /\ Inserts(u) /\ s.table = u.table =>
         /\ s.id = u.id => Agree(s.table, s.row, u.row) \/ Agree(s.table, u.row, s.row)
         /\ s.table = "pvm_blocks" /\ s.row.parent = u.row.parent => s.id = u.id
         /\ s.table = "rewards" /\ s.row.txid = u.row.txid => s.id = u.id

ASSUME IndexingAssumption ==
  /\ MaxFailures \in Nat
  /\ \A h \in Histories : IsFiniteSet(DOMAIN h.rewardUtxos) /\ Coherent(h)

-----------------------------------------------------------------------------
(* What a transaction is, whatever the writer does with it.                 *)

TxsOf(m) ==
  CASE m.topic = "avm" -> <<m.tx>>
    [] m.topic = "pvm" -> m.block.txs
    [] m.topic = "cvm" -> m.block.atomic
    [] OTHER -> << >>

ConsumedTxs == UNION {ToSet(TxsOf(history.messages[i])) : i \in consumed}

\* Its outputs, in the order that numbers them.
OutsOf(tx) ==
  CASE tx.type \in {"base", "import", "pvm_import", "add_subnet_validator", "create_subnet",
                    "create_chain"} -> tx.outs
    [] tx.type \in {"export", "pvm_export"} -> tx.outs \o tx.exported
    [] tx.type \in Staking -> tx.outs \o tx.stake
    [] tx.type = "operation" -> tx.outs \o FlattenSeq([g \in DOMAIN tx.ops |-> tx.ops[g].outs])
    [] tx.type = "create_asset" -> tx.outs \o FlattenSeq(tx.states)
    [] tx.type = "atomic_export" -> tx.exported
    [] OTHER -> << >>

\* The outputs it redeems, in the order of its credentials.
InsOf(tx) ==
  CASE tx.type \in {"import", "pvm_import"} -> tx.ins \o tx.imported
    [] tx.type = "operation" -> tx.ins \o FlattenSeq([g \in DOMAIN tx.ops |-> tx.ops[g].ins])
    [] tx.type = "atomic_import" -> tx.imported
    [] tx.type \in {"atomic_export", "advance_time", "reward_validator"} -> << >>
    [] OTHER -> tx.ins

\* The fee: what it takes in of AXC and does not give out again.
SumOf(entries) ==
  Total(Len(entries), LAMBDA i : IF entries[i].asset = AXC THEN entries[i].amount ELSE 0)
Spent(tx) == IF tx.type \in {"operation", "atomic_export"} THEN tx.ins ELSE InsOf(tx)
Kept(tx) ==
  IF tx.type \in {"operation", "create_asset", "atomic_import"} THEN tx.outs ELSE OutsOf(tx)
FeeOf(tx) == SumOf(Spent(tx)) - SumOf(Kept(tx))

-----------------------------------------------------------------------------
(* What the nodes guarantee of the transactions they accept.                *)

TransactionsOf(h) ==
  (UNION {ToSet(TxsOf(h.messages[i])) : i \in DOMAIN h.messages})
  \cup ToSet(h.avmGenesis) \cup ToSet(h.pvmTxs)

\* Of a transaction: its id is a hash, and if it is rewarded, it is one that stakes,
\* and the node puts the outputs of the reward after its own and its stake.
Identified(h, tx) ==
  /\ tx.id \notin {Null, "empty"}
  /\ tx.id \in DOMAIN h.rewardUtxos =>
       /\ tx.type \in Staking
       /\ \A i \in DOMAIN h.rewardUtxos[tx.id] :
            h.rewardUtxos[tx.id][i].idx \in {Len(OutsOf(tx)), Len(OutsOf(tx)) + 1}

\* Of a transaction of a message: it does not issue AXC, only transfers carry
\* an amount, and it gives out no more AXC than it takes in.
Balanced(tx) ==
  /\ tx.id # AXC
  /\ tx.type = "operation" => \A g \in DOMAIN tx.ops : tx.ops[g].asset # AXC
  /\ \A i \in DOMAIN Spent(tx) : Spent(tx)[i].amount \in Nat
  /\ \A i \in DOMAIN Kept(tx) : Kept(tx)[i].amount \in Nat
  /\ \A i \in DOMAIN OutsOf(tx) :
       OutsOf(tx)[i].kind \notin {"transfer", "stakeable"} => OutsOf(tx)[i].amount = 0
  /\ SumOf(Kept(tx)) <= SumOf(Spent(tx))

\* The signers of an input of y own the output of x that it redeems.
OwnersSign(x, y) ==
  \A i \in DOMAIN InsOf(y), j \in DOMAIN OutsOf(x) :
    InsOf(y)[i].tx = x.id /\ InsOf(y)[i].idx = j - 1 /\ y.creds[i].fx = "secp" =>
      ToSet(y.creds[i].signers) \subseteq ToSet(OutsOf(x)[j].addrs)

\* A hash stands for one transaction, the owners of an output sign its redemption,
\* an input has a credential (an authorization may follow), and the contract chain
\* has two types of atomic transaction.
Accepted(h) ==
  /\ \A x, y \in TransactionsOf(h) : (x.id = y.id => x = y) /\ OwnersSign(x, y)
  /\ \A tx \in TransactionsOf(h) : Identified(h, tx)
  /\ \A i \in DOMAIN h.messages : \A tx \in ToSet(TxsOf(h.messages[i])) :
       /\ InsOf(tx) # << >> => Len(tx.creds) >= Len(InsOf(tx))
       /\ Balanced(tx)
       /\ h.messages[i].topic = "cvm" => tx.type \in {"atomic_export", "atomic_import"}

ASSUME AcceptedAssumption ==
  2 ^ Width \in Nat \ {0} /\ \A h \in Histories : Accepted(h)

-----------------------------------------------------------------------------
(* Properties.                                                              *)

\* Types, and positions that are those of a statement.
TypeOK ==
  /\ history \in Histories
  /\ DOMAIN db = Tables
  /\ consumed \subseteq DOMAIN history.messages
  /\ flag \in BOOLEAN
  /\ bpc \in [Processes -> {"check", "run", "done"}]
  /\ bfailed \in [Processes -> BOOLEAN]
  /\ \A p \in Processes, c \in Chains :
       \/ AtEnd(p, c)
       \/ bpos[p][c][1] \in DOMAIN Genesis(c) /\ bpos[p][c][2] \in DOMAIN Genesis(c)[bpos[p][c][1]]
  /\ hpc \in [Handlers -> {"idle", "next", "write", "mark"}]
  /\ \A h \in Handlers : (hpc[h] = "write") = (left[h] # << >>)
  /\ failures \in 0..MaxFailures

\* The tables after these statements, each executed once and without updates;
\* those of every history, computed once.
CanonicalOf ==
  [h \in Histories |-> [S \in SUBSET DOMAIN h.messages |-> [g \in BOOLEAN |->
     [R \in SUBSET DOMAIN h.rewardUtxos |->
        ExecAll(EmptyDB, StatementsIn(h, S, g, R), FALSE)]]]]

Canonical(S, g, R) == CanonicalOf[history][S][g][R]

Within(small, large) ==
  \A t \in Tables : \A id \in DOMAIN small[t] :
    id \in DOMAIN large[t] /\ Agree(t, small[t][id], large[t][id])

\* The index holds every row of the messages consumed, with the content it has
\* when the chain is indexed in its own order, once and without updates:
\* whatever the order, the repetitions, the replays, and whatever bootstrap
\* and rewards write in between (insert-or-ignore and the update of
\* dbmodel.go, two writers for a row of output_addresses).
NothingMissing == Within(Canonical(consumed, FALSE, {}), db)

\* Rewards whose block was followed by anything but an abort.
Granted ==
  {Row(r).txid : r \in {q \in Rewards :
     \E b \in DOMAIN db["pvm_blocks"] : /\ db["pvm_blocks"][b].parent = Row(q).block
                                        /\ db["pvm_blocks"][b].type # "abort"}}

\* The index holds nothing else than rows of messages consumed, of the genesis
\* and of rewards granted: nothing of a transaction that was rolled back, no
\* output of an aborted reward (processRewards).
NothingElse == Within(db, Canonical(consumed, TRUE, Granted))

\* The flag in key_value_store says that the whole genesis has been written,
\* although errors and crashes end a bootstrap between any two statements.
BootstrapComplete == flag => Within(Canonical({}, TRUE, {}), db)

\* A reward marked processed was aborted, or all of its outputs are there, with
\* their addresses: the statements are not in a transaction, and the mark must
\* come after the last of them whatever fails (processRewards).
RewardedComplete ==
  \A r \in Rewards : Row(r).processed = 1 =>
    \/ Row(r).txid \notin Granted
    \/ Within(Canonical({}, FALSE, {Row(r).txid}), db)

\* Every output of a transaction consumed has a row of its own, with its amount,
\* and a row for each of its addresses in every table that the balances are
\* computed from: insertOperationTx and insertCreateAssetTx number the outputs
\* of operations and states themselves, and leave the others to a second pass.
OutputFaithful(tx, out, o) ==
  /\ o \in DOMAIN db["outputs"]
  /\ db["outputs"][o].amount = IF out.kind \in {"transfer", "stakeable"} THEN out.amount ELSE 0
  /\ {id[2] : id \in {x \in DOMAIN db["output_addresses"] : x[1] = o}} = ToSet(out.addrs)
  /\ \A a \in ToSet(out.addrs) :
       /\ <<o, a>> \in DOMAIN db["accumulate_out"] \cap DOMAIN db["accumulate_in"]
       /\ \E x \in DOMAIN db["txs_accumulate"] : x[3] = a /\ x[4] = tx.id

\* Every output redeemed by a transaction consumed says so, whether the
\* transaction that created it has been consumed before, after or not at all:
\* its signers' signatures are there, and the balance manager finds their rows.
RedemptionFaithful(tx, cred, o) ==
  /\ o \in DOMAIN db["redeeming"] /\ db["redeeming"][o].tx = tx.id
  /\ cred.fx = "secp" => \A a \in ToSet(cred.signers) :
       /\ db["output_addresses"][<<o, a>>].signature = tx.id
       /\ db["accumulate_in"][<<o, a>>].outputProcessed = 1

\* The rows of a transaction consumed say what the transaction says, whatever
\* was consumed before, between or again: its outputs, its redemptions, and its
\* fee, which is what it burns (the outs that insertOperationTx writes twice
\* count once; that no transaction gives out more than it takes in is the nodes'
\* check, assumed in Balanced).
RowsFaithful ==
  \A tx \in ConsumedTxs :
    /\ \A i \in DOMAIN OutsOf(tx) : OutputFaithful(tx, OutsOf(tx)[i], <<tx.id, i - 1>>)
    /\ \A i \in DOMAIN InsOf(tx) :
         RedemptionFaithful(tx, tx.creds[i], <<InsOf(tx)[i].tx, InsOf(tx)[i].idx>>)
    /\ tx.id \in DOMAIN db["transactions"] =>
         db["transactions"][tx.id].txfee = FeeOf(tx)

\* A staking transaction announces exactly the outputs its reward will have:
\* each of them, and none that is an output of its own
\* (insertTransactionsRewardsOwners counts outputs and stake).
RewardsAnnounced ==
  \A tx \in DOMAIN history.rewardUtxos :
    LET positions == {history.rewardUtxos[tx][i].idx : i \in DOMAIN history.rewardUtxos[tx]}
        announced == {o[2] : o \in {id \in DOMAIN db["owners_outputs"] : id[1] = tx}}
        written == {o[2] : o \in {id \in DOMAIN db["outputs"] : id[1] = tx}}
    IN tx \in DOMAIN db["owners"] =>
         positions \subseteq announced /\ (announced \cap written) \subseteq positions

\* No replay makes the handler handle a reward again (InsertRewards).
ProcessedKept ==
  [][\A r \in Rewards : Row(r).processed = 1 => db'["rewards"][r].processed = 1]_vars

RewardTxs ==
  {tx.id : tx \in {x \in UNION {UNION {ToSet(TxsOf(h.messages[i])) : i \in DOMAIN h.messages} :
                                h \in Histories} : x.type = "reward_validator"}}

\* Rewards that a pass finds granted, and the node has no outputs for: each
\* ends the pass it comes up in.
Blocking ==
  {x \in Eligible : x[2] # "abort" /\ GetRewardUTXOs(Row(x[1]).txid) = << >>}

\* Every reward whose block has a successor gets processed although an error
\* ends the pass for all the rewards it has read, unless a reward without
\* outputs is there to end every pass (processRewards).
EventuallyRewarded ==
  \A r \in RewardTxs :
    (\E x \in Eligible : x[1] = r) ~>
      ((r \in Rewards /\ Row(r).processed = 1) \/ Blocking # {})

=============================================================================
