--------------------------- MODULE RewardsHandler ---------------------------
(***************************************************************************)
(* The rewards handler (services/rewards/rewards_handler.go).  Every five  *)
(* seconds a pass reads the rewards that are not processed and whose block *)
(* has a successor in the index.  An aborted one is only marked.  For the  *)
(* others the node is asked for the outputs it created, they are written,  *)
(* and the reward is marked.  processRewardUtxos opens a transaction but   *)
(* hands its session to the writer, so every statement commits by itself.  *)
(***************************************************************************)
EXTENDS Writers

CONSTANTS Handlers  \* processes that run the handler

VARIABLES
  hpc,     \* hpc[h]: "idle", "next", "write", "mark"
  pass,    \* pass[h]: the rows read and not yet handled, <<reward, block type>>
  reward,  \* reward[h]: the reward in hand
  left     \* left[h]: statements to write for it

handlerVars == <<hpc, pass, reward, left>>

HandlerInit ==
  /\ hpc = [h \in Handlers |-> "idle"]
  /\ pass = [h \in Handlers |-> {}]
  /\ reward = [h \in Handlers |-> Null]
  /\ left = [h \in Handlers |-> << >>]

Rewards == DOMAIN db["rewards"]
Row(r) == db["rewards"][r]

\* The join: unprocessed rewards with the type of a child of their block.
Eligible ==
  {<<x[1], db["pvm_blocks"][x[2]].type>> :
     x \in {y \in Rewards \X DOMAIN db["pvm_blocks"] :
              /\ Row(y[1]).processed = 0
              /\ db["pvm_blocks"][y[2]].parent = Row(y[1]).block}}

\* A tick: rewards younger than three seconds are not read.
ProcessRewards(h) ==
  /\ hpc[h] = "idle"
  /\ \E R \in SUBSET Eligible \ {{}} : pass' = [pass EXCEPT ![h] = R]
  /\ hpc' = [hpc EXCEPT ![h] = "next"]
  /\ UNCHANGED <<reward, left, writerVars>>

\* The outputs the node created for a staking transaction (GetRewardUTXOs).
GetRewardUTXOs(tx) == history.rewardUtxos[tx]

\* Statements of processRewardUtxos; the chain is ids.Empty, the primary one.
processRewardUtxos(utxos, tx) ==
  ForEach(Len(utxos), LAMBDA i :
    ProcessStateOut(utxos[i].out, tx, utxos[i].idx, utxos[i].out.asset, PvmChain, {}))

RewardStatements(tx) == processRewardUtxos(GetRewardUTXOs(tx), tx)

\* Row x of the result comes next, and the handler is then at pc.
Take(h, x, stmts, pc) ==
  /\ pass' = [pass EXCEPT ![h] = @ \ {x}]
  /\ reward' = [reward EXCEPT ![h] = x[1]]
  /\ left' = [left EXCEPT ![h] = stmts]
  /\ hpc' = [hpc EXCEPT ![h] = pc]

\* An error ends the pass, whatever is left of it.
EndPass(h) ==
  /\ pass' = [pass EXCEPT ![h] = {}]
  /\ reward' = [reward EXCEPT ![h] = Null]
  /\ left' = [left EXCEPT ![h] = << >>]
  /\ hpc' = [hpc EXCEPT ![h] = "idle"]

\* Mutant: what became of the block is not looked at.
HandleRewardAborted(h) ==
  /\ hpc[h] = "next"
  /\ \E x \in pass[h] : LET tx == Row(x[1]).txid IN
       \/ GetRewardUTXOs(tx) # << >> /\ Take(h, x, RewardStatements(tx), "write")
       \/ GetRewardUTXOs(tx) = << >> /\ EndPass(h)
  /\ UNCHANGED writerVars

\* The next row of the result, in whichever order the database returned them.
\* That the node has no outputs for it is an error.
HandleReward(h) ==
  /\ hpc[h] = "next"
  /\ \E x \in pass[h] : LET tx == Row(x[1]).txid IN
       \/ x[2] = "abort" /\ Take(h, x, << >>, "mark")
       \/ x[2] # "abort" /\ GetRewardUTXOs(tx) # << >> /\ Take(h, x, RewardStatements(tx), "write")
       \/ x[2] # "abort" /\ GetRewardUTXOs(tx) = << >> /\ EndPass(h)
  /\ UNCHANGED writerVars

WriteRewardStatement(h) ==
  /\ hpc[h] = "write"
  /\ Head(left[h]) # Refuse
  /\ db' = ExecContext(db, Head(left[h]), FALSE)
  /\ left' = [left EXCEPT ![h] = Tail(@)]
  /\ hpc' = [hpc EXCEPT ![h] = IF Len(left[h]) = 1 THEN "mark" ELSE "write"]
  /\ UNCHANGED <<pass, reward, history, consumed>>

Marked(h) == ExecContext(db, UpdateRewardsProcessed(reward[h]), FALSE)

MarkRewardProcessed(h) ==
  /\ hpc[h] = "mark"
  /\ db' = Marked(h)
  /\ hpc' = [hpc EXCEPT ![h] = IF pass[h] = {} THEN "idle" ELSE "next"]
  /\ reward' = [reward EXCEPT ![h] = Null]
  /\ UNCHANGED <<pass, left, history, consumed>>

\* Mutant: an error of the writer does not keep the reward from being marked.
HandlerErrorIgnored(h) ==
  /\ hpc[h] # "idle"
  /\ db' \in {db, IF hpc[h] = "write" THEN Marked(h) ELSE db}
  /\ EndPass(h)
  /\ UNCHANGED <<history, consumed>>

\* An error of the node or the database ends the pass; the statement may have
\* had its effect.  So does a stop of the process.
HandlerError(h) ==
  /\ hpc[h] # "idle"
  /\ db' \in {db} \cup (IF hpc[h] = "write" THEN {ExecContext(db, Head(left[h]), FALSE)} ELSE {})
                  \cup (IF hpc[h] = "mark" THEN {Marked(h)} ELSE {})
  /\ EndPass(h)
  /\ UNCHANGED <<history, consumed>>

=============================================================================
