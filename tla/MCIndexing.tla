----------------------------- MODULE MCIndexing -----------------------------
(* Small histories: the exchange chain, the platform chain, its rewards,    *)
(* the contract chain, and the two geneses.                                 *)
EXTENDS Indexing

In(tx, idx, amount) == [tx |-> tx, idx |-> idx, asset |-> "axc", amount |-> amount]
Out(kind, amount, addrs) == [kind |-> kind, asset |-> "axc", amount |-> amount, addrs |-> addrs]
Signed(signers) == [fx |-> "secp", signers |-> signers]
Nft == [fx |-> "nft", signers |-> <<"b">>]
Tx(type, id, ins, outs, creds) ==
  [type |-> type, id |-> id, ins |-> ins, outs |-> outs, creds |-> creds]
Avm(tx) == [topic |-> "avm", tx |-> tx]
Pvm(type, id, parent, txs) ==
  [topic |-> "pvm", block |-> [type |-> type, id |-> id, parent |-> parent, txs |-> txs,
                               proposer |-> IF type = "standard" THEN "node" ELSE Null]]
Cvm(number, atomic, txs) ==
  [topic |-> "cvm", block |-> [number |-> number, atomic |-> atomic, txs |-> txs]]

\* The transaction of the genesis that issues AXC.
Issue == Tx("create_asset", "axc", << >>, << >>, << >>)
         @@ [states |-> << <<Out("transfer", 9, <<"a">>)>> >>]

Base == Tx("base", "t1", <<In("axc", 0, 9)>>,
           <<Out("transfer", 3, <<"a", "b">>), Out("transfer", 5, <<"b">>)>>, <<Signed(<<"a">>)>>)
CreateAsset == Tx("create_asset", "t2", <<In("t1", 1, 5)>>, <<Out("transfer", 4, <<"b">>)>>,
                  <<Signed(<<"b">>)>>)
               @@ [states |-> << <<Out("mint", 0, <<"a">>), Out("transfer", 7, <<"a">>)>>,
                                 <<Out("nftmint", 0, <<"b">>)>> >>]
Operation == Tx("operation", "t3", <<In("t2", 0, 4)>>, <<Out("transfer", 3, <<"a">>)>>,
                <<Signed(<<"b">>), Nft>>)
             @@ [ops |-> <<[asset |-> "t2", ins |-> <<[tx |-> "t2", idx |-> 3]>>,
                            outs |-> <<Out("nft", 0, <<"a">>)>>]>>]
Export == Tx("export", "t4", <<In("t1", 0, 3)>>, << >>, <<Signed(<<"b">>)>>)
          @@ [exported |-> <<Out("transfer", 2, <<"a">>)>>, destination |-> "P"]

Exchange ==
  [messages |-> <<Avm(Base), Avm(CreateAsset), Avm(Operation), Avm(Export),
                  [topic |-> "avm_consensus", vertex |-> [id |-> "v", txs |-> <<"t1", "t2">>]],
                  Avm(Tx("unknown", "t9", << >>, << >>, << >>))>>,
   avmGenesis |-> <<Issue>>, pvmUtxos |-> << >>, pvmTxs |-> << >>, rewardUtxos |-> << >>]

Import == Tx("pvm_import", "p1", << >>, <<Out("transfer", 1, <<"a">>)>>, <<Signed(<<"a">>)>>)
          @@ [imported |-> <<In("t4", 0, 2)>>, source |-> "X"]
AddValidator == Tx("add_validator", "p2", <<In("empty", 0, 6)>>, <<Out("transfer", 2, <<"a">>)>>,
                   <<Signed(<<"a">>)>>)
                @@ [stake |-> <<Out("stakeable", 3, <<"a">>)>>, owners |-> <<"a", "b">>, node |-> "n"]
Leave == Tx("pvm_export", "p3", <<In("p1", 0, 1)>>, << >>, <<Signed(<<"a">>)>>)
         @@ [exported |-> <<Out("transfer", 1, <<"b">>)>>, destination |-> "C"]
CreateChain == Tx("create_chain", "p4", << >>, << >>, <<Signed(<<"a">>)>>)
Delegator == Tx("add_delegator", "p5", << >>, << >>, << >>)
             @@ [stake |-> <<Out("transfer", 0, <<"b">>)>>, owners |-> <<"b">>, node |-> "n"]

CreateSubnet == Tx("create_subnet", "p7", <<In("empty", 1, 2)>>, <<Out("transfer", 1, <<"a">>)>>,
                   <<Signed(<<"a">>)>>)

Platform ==
  [messages |-> <<Pvm("standard", "b1", "b0", <<Import, CreateSubnet>>),
                  Pvm("proposal", "b2", "b1", <<AddValidator>>), Pvm("commit", "b3", "b2", << >>),
                  Pvm("atomic", "b4", "b3", <<Leave>>),
                  Pvm("proposal", "b5", "b4", <<Tx("advance_time", "p6", << >>, << >>, << >>)>>)>>,
   avmGenesis |-> << >>, pvmUtxos |-> <<Out("stakeable", 6, <<"a">>)>>, pvmTxs |-> << >>,
   rewardUtxos |-> << >>]

Reward(id, staked) ==
  Tx("reward_validator", id, << >>, << >>, << >>) @@ [staked |-> staked]

Rewarding ==
  [messages |-> <<Pvm("proposal", "b2", "b1", <<AddValidator>>),
                  Pvm("proposal", "b3", "b2", <<Reward("r1", "p2")>>), Pvm("commit", "b4", "b3", << >>),
                  Pvm("proposal", "b5", "b4", <<Reward("r2", "p5")>>), Pvm("abort", "b6", "b5", << >>)>>,
   avmGenesis |-> << >>, pvmUtxos |-> << >>, pvmTxs |-> << >>,
   rewardUtxos |-> [tx \in {"p2", "p5"} |->
     IF tx = "p2" THEN <<[idx |-> 2, out |-> Out("transfer", 1, <<"b">>)]>> ELSE << >>]]

\* A reward of nothing: the node has no output to give.
Unrewarded ==
  [messages |-> <<Pvm("proposal", "b7", "b6", <<Reward("r3", "p5")>>), Pvm("commit", "b8", "b7", << >>)>>,
   avmGenesis |-> << >>, pvmUtxos |-> << >>, pvmTxs |-> << >>,
   rewardUtxos |-> [tx \in {"p5"} |-> << >>]]

CvmImport(id, from) ==
  [type |-> "atomic_import", id |-> id, chain |-> "C", source |-> "P", creds |-> <<Signed(<<"b">>)>>,
   imported |-> <<In(from, 0, 5)>>, outs |-> <<[address |-> "e", asset |-> "axc", amount |-> 4]>>]
CvmExport(id, amount) ==
  [type |-> "atomic_export", id |-> id, chain |-> "C", destination |-> "X",
   ins |-> <<[address |-> "e", asset |-> "axc", amount |-> 2]>>,
   exported |-> <<Out("transfer", amount, <<"a">>)>>]

Contract ==
  [messages |-> <<Cvm(1, <<CvmImport("c1", "p3")>>, <<[hash |-> "h1", to |-> "e"]>>),
                  Cvm(2, <<CvmExport("c2", 1), CvmExport("c3", 2)>>, << >>),
                  [topic |-> "cvm_trace", hash |-> "h1", idx |-> 0, to |-> "e"],
                  [topic |-> "cvm_logs", blockHash |-> "g1", txHash |-> "h1", index |-> 0, first |-> "f"],
                  Avm(Tx("import", "t5", << >>, <<Out("transfer", 1, <<"a">>)>>, <<Signed(<<"a">>)>>)
                      @@ [imported |-> <<In("c3", 0, 2)>>, source |-> "C"])>>,
   avmGenesis |-> << >>, pvmUtxos |-> << >>, pvmTxs |-> << >>, rewardUtxos |-> << >>]

Geneses ==
  [messages |-> <<Avm(Base)>>, avmGenesis |-> <<Issue>>,
   pvmUtxos |-> <<Out("transfer", 6, <<"a">>)>>, pvmTxs |-> <<Delegator, CreateChain>>,
   rewardUtxos |-> << >>]

MCHistories == {Exchange, Platform, Rewarding, Unrewarded, Contract, Geneses}
=============================================================================
