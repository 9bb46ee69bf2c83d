-------------------------- MODULE ProducerAXChain --------------------------
(***************************************************************************)
(* The producer of the contract chain (stream/producer_axchain.go): from   *)
(* the blocks of a node to rows of tx_pool.                                *)
(*                                                                         *)
(* A run (runProcessor) takes the highest block of the table cvm_blocks    *)
(* for where it is, starts a catch-up goroutine when blocks below it are   *)
(* missing, starts its workers, and then sends each new block of the node  *)
(* to the channel msgChan.  A worker reads the block from the node, writes *)
(* its traces, its logs and the block itself to tx_pool, each write on its *)
(* own, and then records the block in cvm_blocks.  When a run returns an   *)
(* error Listen starts another.                                            *)
(*                                                                         *)
(* Every message carries an error cell.  The one of the catch-up lives as  *)
(* long as the run; each call of ProcessNextMessage makes a new one.       *)
(* Cells are numbered, 0 for the catch-up, and a number is taken again     *)
(* when nothing refers to it.                                              *)
(*                                                                         *)
(* Left out: the offer of each row to LocalTxPool (see ProducerChain and   *)
(* IndexerPool), metrics, and Close, which ends Listen for good.           *)
(***************************************************************************)
EXTENDS Integers, Sequences, FiniteSets

CONSTANTS
  MaxBlock,       \* bound: the highest block of the node
  Parts,          \* rows of tx_pool for a block, the block's own the last
  Workers,        \* worker goroutines (maxWorkers)
  MaxWorkerQueue, \* capacity of msgChan
  Chunk,          \* blocks the catch-up looks at in one query
  Cells,          \* numbers of the error cells of ProcessNextMessage
  ErrorKinds,     \* errors that occur: "notready" (AXChainNotReady, deadline), "other"
  MaxErrors,      \* bound: errors in a behaviour
  MaxCrashes      \* bound: crashes in a behaviour

ASSUME AXChainAssumption ==
  /\ MaxBlock \in Nat
  /\ Parts \in Nat \ {0}
  /\ MaxWorkerQueue \in Nat \ {0}
  /\ Chunk \in Nat \ {0}
  /\ Cells \subseteq Nat \ {0}
  /\ ErrorKinds \subseteq {"notready", "other"}
  /\ MaxErrors \in Nat /\ MaxCrashes \in Nat

Blocks   == 0 .. MaxBlock
AllCells == Cells \cup {0}
Catchup  == 0
Job      == [block : Blocks, errs : AllCells]
Values   == {"none", "notready", "other"}

VARIABLES
  head,      \* the node's latest block
  txPool,    \* rows of tx_pool: <<block, part>>
  cvmBlocks, \* blocks recorded in cvm_blocks
  mpc,       \* where runProcessor is
  block,     \* the last block it sent, -1 for none
  target,    \* the latest block as of this ProcessNextMessage
  cell,      \* the error cell of this ProcessNextMessage
  errs,      \* errs[c]: the error held by cell c
  msgChan,   \* the channel to the workers
  wpc,       \* wpc[w]: where worker w is
  job,       \* job[w]: the message in hand, by block and cell
  part,      \* part[w]: its rows written so far
  cpc,       \* where the catch-up is
  cstart,    \* startBlock of the catch-up
  cend,      \* endBlock
  climit,    \* catchupBlock: where it ends
  blockMap,  \* recorded blocks, as of its last query
  dropped,   \* history: blocks an error made a worker of this run give up
  errors,    \* errors so far
  crashes    \* crashes so far

dbVars    == <<txPool, cvmBlocks>>
mainVars  == <<mpc, block, target, cell>>
workVars  == <<wpc, job, part>>
catchVars == <<cpc, cstart, cend, climit, blockMap>>
budget    == <<errors, crashes>>
vars == <<head, dbVars, mainVars, errs, msgChan, workVars, catchVars, dropped, budget>>

TypeOK ==
  /\ head \in Blocks
  /\ txPool \subseteq Blocks \X (1 .. Parts)
  /\ cvmBlocks \subseteq Blocks
  /\ mpc \in {"start", "spawn", "latest", "push", "send", "drain", "exit", "closing"}
  /\ block \in Blocks \cup {-1}
  /\ target \in Blocks \cup {-1}
  /\ cell \in AllCells
  /\ errs \in [AllCells -> Values]
  /\ msgChan \in Seq(Job) /\ Len(msgChan) <= MaxWorkerQueue
  /\ wpc \in [Workers -> {"off", "idle", "read", "row", "mark"}]
  /\ job \in [Workers -> Job]
  /\ part \in [Workers -> 0 .. Parts]
  /\ cpc \in {"off", "select", "loop", "send"}
  /\ {cstart, cend, climit} \subseteq 0 .. MaxBlock + 1
  /\ blockMap \subseteq Blocks
  /\ dropped \subseteq Blocks
  /\ errors \in Nat /\ crashes \in Nat

NoJob == [block |-> 0, errs |-> Catchup]

Init ==
  /\ head = 0
  /\ txPool = {} /\ cvmBlocks = {}
  /\ mpc = "start" /\ block = -1 /\ target = -1 /\ cell = Catchup
  /\ errs = [c \in AllCells |-> "none"]
  /\ msgChan = << >>
  /\ wpc = [w \in Workers |-> "off"]
  /\ job = [w \in Workers |-> NoJob]
  /\ part = [w \in Workers |-> 0]
  /\ cpc = "off" /\ cstart = 0 /\ cend = 0 /\ climit = 0 /\ blockMap = {}
  /\ dropped = {}
  /\ errors = 0 /\ crashes = 0

-----------------------------------------------------------------------------
(* Errors and the node.                                                     *)

\* An error of kind k occurs.
Error(k) == /\ k \in ErrorKinds
            /\ errors < MaxErrors
            /\ errors' = errors + 1
            /\ UNCHANGED crashes

\* The node accepts a block.
Accept ==
  /\ head < MaxBlock
  /\ head' = head + 1
  /\ UNCHANGED <<dbVars, mainVars, errs, msgChan, workVars, catchVars, dropped, budget>>

-----------------------------------------------------------------------------
(* runProcessor.                                                            *)

\* Mutant: gaps are looked for with one row too few.
StartOffByOne ==
  /\ mpc = "start"
  /\ mpc' = "spawn"
  /\ \E top \in cvmBlocks \cup {-1} :
       /\ \A b \in cvmBlocks : b <= top
       /\ block' = top /\ climit' = top + 1
       /\ cpc' = IF Cardinality(cvmBlocks) < top THEN "select" ELSE "off"
  /\ cstart' = 0 /\ cend' = 0 /\ blockMap' = {}
  /\ errs' = [c \in AllCells |-> "none"]
  /\ msgChan' = << >>
  /\ dropped' = {}
  /\ UNCHANGED <<head, dbVars, target, cell, workVars, budget>>

\* newContainerC: new channel and cells, block from getBlock; then the
\* catch-up, when cvm_blocks has fewer rows than it would have without gaps.
Start ==
  /\ mpc = "start"
  /\ mpc' = "spawn"
  /\ \E top \in cvmBlocks \cup {-1} :
       /\ \A b \in cvmBlocks : b <= top
       /\ block' = top /\ climit' = top + 1
       /\ cpc' = IF Cardinality(cvmBlocks) < top + 1 THEN "select" ELSE "off"
  /\ cstart' = 0 /\ cend' = 0 /\ blockMap' = {}
  /\ errs' = [c \in AllCells |-> "none"]
  /\ msgChan' = << >>
  /\ dropped' = {}
  /\ UNCHANGED <<head, dbVars, target, cell, workVars, budget>>

\* Start the workers one by one.
Spawn(w) ==
  /\ mpc = "spawn"
  /\ wpc[w] = "off"
  /\ wpc' = [wpc EXCEPT ![w] = "idle"]
  /\ mpc' = IF \A v \in Workers \ {w} : wpc[v] # "off" THEN "latest" ELSE "spawn"
  /\ UNCHANGED <<head, dbVars, block, target, cell, errs, msgChan, job, part, catchVars,
                 dropped, budget>>

\* A worker's client or database connection fails: the run returns.
SpawnFails ==
  /\ mpc = "spawn"
  /\ \E k \in ErrorKinds : Error(k)
  /\ mpc' = "exit"
  /\ UNCHANGED <<head, dbVars, block, target, cell, errs, msgChan, workVars, catchVars,
                 dropped>>

\* What runProcessor does with the result e of ProcessNextMessage: an error of
\* the catch-up ends the run, so does any other unless the node is not ready.
AfterMessage(e) == IF errs[Catchup] # "none" \/ e = "other" THEN "exit" ELSE "latest"

InUse == {msgChan[j].errs : j \in 1 .. Len(msgChan)}
         \cup {job[w].errs : w \in {v \in Workers : wpc[v] \notin {"off", "idle"}}}

\* ProcessNextMessage: ask for the latest block.
Latest ==
  /\ mpc = "latest"
  /\ IF head <= block
     THEN mpc' = AfterMessage("none") /\ UNCHANGED <<target, cell, errs>>
     ELSE /\ mpc' = "push"
          /\ target' = head
          /\ \E c \in Cells \ InUse :
               /\ \A d \in Cells \ InUse : c <= d
               /\ cell' = c
               /\ errs' = [errs EXCEPT ![c] = "none"]
  /\ UNCHANGED <<head, dbVars, block, msgChan, workVars, catchVars, dropped, budget>>

LatestFails ==
  /\ mpc = "latest"
  /\ \E k \in ErrorKinds : Error(k) /\ mpc' = AfterMessage(k)
  /\ UNCHANGED <<head, dbVars, block, target, cell, errs, msgChan, workVars, catchVars,
                 dropped>>

\* The loop over the new blocks: go on, end with the last, or return an error.
Loop ==
  /\ mpc = "push"
  /\ block < target
  /\ errs[cell] = "none" /\ errs[Catchup] = "none"
  /\ mpc' = "send"
  /\ UNCHANGED <<head, dbVars, block, target, cell, errs, msgChan, workVars, catchVars,
                 dropped, budget>>

LoopEnds ==
  /\ mpc = "push"
  /\ block = target
  /\ mpc' = "drain"
  /\ UNCHANGED <<head, dbVars, block, target, cell, errs, msgChan, workVars, catchVars,
                 dropped, budget>>

LoopFails ==
  /\ mpc = "push"
  /\ block < target
  /\ errs[cell] # "none" \/ errs[Catchup] # "none"
  /\ mpc' = AfterMessage(errs[cell])
  /\ UNCHANGED <<head, dbVars, block, target, cell, errs, msgChan, workVars, catchVars,
                 dropped, budget>>

\* Mutant: the send does not wait for room.
PushAnyway ==
  /\ mpc = "send"
  /\ msgChan' = Append(msgChan, [block |-> block + 1, errs |-> cell])
  /\ block' = block + 1
  /\ mpc' = "push"
  /\ UNCHANGED <<head, dbVars, target, cell, errs, workVars, catchVars, dropped, budget>>

\* Send the next block, when there is room; block advances when it is sent, not
\* when it is done.
Push ==
  /\ mpc = "send"
  /\ Len(msgChan) < MaxWorkerQueue
  /\ msgChan' = Append(msgChan, [block |-> block + 1, errs |-> cell])
  /\ block' = block + 1
  /\ mpc' = "push"
  /\ UNCHANGED <<head, dbVars, target, cell, errs, workVars, catchVars, dropped, budget>>

\* Wait for the channel, not for the workers, and look at the errors.
Drain ==
  /\ mpc = "drain"
  /\ msgChan = << >>
  /\ mpc' = AfterMessage(errs[cell])
  /\ UNCHANGED <<head, dbVars, block, target, cell, errs, msgChan, workVars, catchVars,
                 dropped, budget>>

\* Mutant: the workers are awaited before they are told to end.
ExitWaitingFirst ==
  /\ mpc = "exit"
  /\ cpc = "off"
  /\ \A w \in Workers : wpc[w] = "off"
  /\ mpc' = "closing"
  /\ UNCHANGED <<head, dbVars, block, target, cell, errs, msgChan, workVars, catchVars,
                 dropped, budget>>

\* The deferred function: stop and await the catch-up, then the workers.
Exit ==
  /\ mpc = "exit"
  /\ cpc = "off"
  /\ mpc' = "closing"
  /\ UNCHANGED <<head, dbVars, block, target, cell, errs, msgChan, workVars, catchVars,
                 dropped, budget>>

Closed ==
  /\ mpc = "closing"
  /\ \A w \in Workers : wpc[w] = "off"
  /\ mpc' = "start"
  /\ UNCHANGED <<head, dbVars, block, target, cell, errs, msgChan, workVars, catchVars,
                 dropped, budget>>

-----------------------------------------------------------------------------
(* catchupBlock.                                                            *)

Stopped == mpc \in {"exit", "closing"}
Smaller(x, y) == IF x <= y THEN x ELSE y

\* Read which blocks of the next chunk are recorded.
CatchupSelect ==
  /\ cpc = "select"
  /\ IF cend >= climit \/ Stopped \/ errs[Catchup] # "none"
     THEN cpc' = "off" /\ UNCHANGED <<cend, blockMap>>
     ELSE /\ cpc' = "loop"
          /\ cend' = Smaller(cstart + Chunk, climit)
          /\ blockMap' = {b \in cvmBlocks : cstart <= b /\ b < cend'}
  /\ UNCHANGED <<head, dbVars, mainVars, errs, msgChan, workVars, cstart, climit, dropped,
                 budget>>

CatchupFails ==
  /\ cpc = "select"
  /\ \E k \in ErrorKinds : Error(k) /\ errs' = [errs EXCEPT ![Catchup] = k]
  /\ cpc' = "off"
  /\ UNCHANGED <<head, dbVars, mainVars, msgChan, workVars, cstart, cend, climit,
                 blockMap, dropped>>

\* The next block of the chunk: to be sent if it is missing, else passed over.
CatchupVisit ==
  /\ cpc = "loop"
  /\ errs[Catchup] = "none" /\ ~Stopped
  /\ cstart < cend
  /\ IF cstart \in blockMap
     THEN cstart' = cstart + 1 /\ UNCHANGED cpc
     ELSE cpc' = "send" /\ UNCHANGED cstart
  /\ UNCHANGED <<head, dbVars, mainVars, errs, msgChan, workVars, cend, climit, blockMap,
                 dropped, budget>>

\* The chunk is done, or the run is stopping, or an error ends the catch-up.
CatchupEnds ==
  /\ cpc = "loop"
  /\ errs[Catchup] # "none" \/ Stopped \/ cstart >= cend
  /\ cpc' = IF errs[Catchup] # "none" THEN "off" ELSE "select"
  /\ UNCHANGED cstart
  /\ UNCHANGED <<head, dbVars, mainVars, errs, msgChan, workVars, cend, climit, blockMap,
                 dropped, budget>>

\* Send a missing block; the send blocks while the channel is full.
CatchupSend ==
  /\ cpc = "send"
  /\ Len(msgChan) < MaxWorkerQueue
  /\ msgChan' = Append(msgChan, [block |-> cstart, errs |-> Catchup])
  /\ cstart' = cstart + 1
  /\ cpc' = "loop"
  /\ UNCHANGED <<head, dbVars, mainVars, errs, workVars, cend, climit, blockMap, dropped,
                 budget>>

-----------------------------------------------------------------------------
(* blockProcessor.                                                          *)

\* Receive a message, also while msgChanDone is closed: select takes either.
Receive(w) ==
  /\ wpc[w] = "idle"
  /\ msgChan # << >>
  /\ job' = [job EXCEPT ![w] = Head(msgChan)]
  /\ msgChan' = Tail(msgChan)
  /\ wpc' = [wpc EXCEPT ![w] = "read"]
  /\ UNCHANGED <<head, dbVars, mainVars, errs, part, catchVars, dropped, budget>>

\* The worker is done with its message.
Release(w) ==
  /\ wpc' = [wpc EXCEPT ![w] = "idle"]
  /\ job' = [job EXCEPT ![w] = NoJob]
  /\ part' = [part EXCEPT ![w] = 0]

\* Skip it when its cell has an error.
Skip(w) ==
  /\ wpc[w] = "read"
  /\ errs[job[w].errs] # "none"
  /\ dropped' = dropped \cup {job[w].block}
  /\ Release(w)
  /\ UNCHANGED <<head, dbVars, mainVars, errs, msgChan, catchVars, budget>>

\* Read the block from the node.
ReadBlock(w) ==
  /\ wpc[w] = "read"
  /\ errs[job[w].errs] = "none"
  /\ wpc' = [wpc EXCEPT ![w] = "row"]
  /\ UNCHANGED <<head, dbVars, mainVars, errs, msgChan, job, part, catchVars, dropped,
                 budget>>

\* Mutant: the block is recorded before its last row is written.
WriteRowMarkEarly(w) ==
  /\ wpc[w] = "row"
  /\ txPool' = txPool \cup {<<job[w].block, part[w] + 1>>}
  /\ part' = [part EXCEPT ![w] = @ + 1]
  /\ wpc' = [wpc EXCEPT ![w] = IF part[w] + 2 >= Parts THEN "mark" ELSE "row"]
  /\ UNCHANGED <<head, cvmBlocks, mainVars, errs, msgChan, job, catchVars, dropped,
                 budget>>

\* processWork: write its rows, one UpdateTxPool after the other.
WriteRow(w) ==
  /\ wpc[w] = "row"
  /\ txPool' = txPool \cup {<<job[w].block, part[w] + 1>>}
  /\ part' = [part EXCEPT ![w] = @ + 1]
  /\ wpc' = [wpc EXCEPT ![w] = IF part[w] + 1 = Parts THEN "mark" ELSE "row"]
  /\ UNCHANGED <<head, cvmBlocks, mainVars, errs, msgChan, job, catchVars, dropped,
                 budget>>

\* updateBlock: record the block, unless it is recorded.
UpdateBlock(w) ==
  /\ wpc[w] = "mark"
  /\ cvmBlocks' = cvmBlocks \cup {job[w].block}
  /\ Release(w)
  /\ UNCHANGED <<head, txPool, mainVars, errs, msgChan, catchVars, dropped, budget>>

\* An error of one of these goes to the cell of the message.  A write that
\* failed for the worker may have happened at the server.
WorkerFails(w) ==
  /\ wpc[w] \in {"read", "row", "mark"}
  /\ errs[job[w].errs] = "none" \/ wpc[w] # "read"
  /\ \E k \in ErrorKinds : Error(k) /\ errs' = [errs EXCEPT ![job[w].errs] = k]
  /\ dropped' = dropped \cup {job[w].block}
  /\ \/ UNCHANGED dbVars
     \/ /\ wpc[w] = "row"
        /\ txPool' = txPool \cup {<<job[w].block, part[w] + 1>>}
        /\ UNCHANGED cvmBlocks
     \/ /\ wpc[w] = "mark"
        /\ cvmBlocks' = cvmBlocks \cup {job[w].block}
        /\ UNCHANGED txPool
  /\ Release(w)
  /\ UNCHANGED <<head, mainVars, msgChan, catchVars>>

\* msgChanDone is closed: the worker ends.
WorkerEnds(w) ==
  /\ mpc = "closing"
  /\ wpc[w] = "idle"
  /\ wpc' = [wpc EXCEPT ![w] = "off"]
  /\ UNCHANGED <<head, dbVars, mainVars, errs, msgChan, job, part, catchVars, dropped,
                 budget>>

-----------------------------------------------------------------------------
\* The process stops and starts again with empty memory.
Crash ==
  /\ crashes < MaxCrashes
  /\ crashes' = crashes + 1
  /\ mpc' = "start" /\ block' = -1 /\ target' = -1 /\ cell' = Catchup
  /\ errs' = [c \in AllCells |-> "none"]
  /\ msgChan' = << >>
  /\ wpc' = [w \in Workers |-> "off"]
  /\ job' = [w \in Workers |-> NoJob]
  /\ part' = [w \in Workers |-> 0]
  /\ cpc' = "off" /\ cstart' = 0 /\ cend' = 0 /\ climit' = 0 /\ blockMap' = {}
  /\ dropped' = {}
  /\ UNCHANGED <<head, dbVars, errors>>

Main == Start \/ (\E w \in Workers : Spawn(w)) \/ Latest \/ Loop \/ LoopEnds \/ LoopFails
        \/ Push \/ Drain \/ Exit \/ Closed
Catch == CatchupSelect \/ CatchupVisit \/ CatchupEnds \/ CatchupSend
Work(w) == Receive(w) \/ Skip(w) \/ ReadBlock(w) \/ WriteRow(w) \/ UpdateBlock(w)

Next ==
  \/ Accept
  \/ Main \/ SpawnFails \/ LatestFails
  \/ Catch \/ CatchupFails
  \/ \E w \in Workers : Work(w) \/ WorkerFails(w) \/ WorkerEnds(w)
  \/ Crash

Spec == Init /\ [][Next]_vars

\* Goroutines run, a worker that is told to end takes that branch of its select
\* in the end, and a blocked sender gets its turn (SF).
Fairness ==
  /\ WF_vars(Main) /\ SF_vars(Push)
  /\ WF_vars(Catch) /\ SF_vars(CatchupSend)
  /\ \A w \in Workers : WF_vars(Work(w)) /\ SF_vars(WorkerEnds(w))
FairSpec == Spec /\ Fairness

-----------------------------------------------------------------------------
(* Properties.                                                              *)

\* A block is in cvm_blocks only when all its rows are in tx_pool, whatever
\* worker, run or error wrote them: the catch-up relies on the table alone to
\* tell what is missing, so a block recorded too early is never completed.
BlockComplete == \A b \in cvmBlocks : \A j \in 1 .. Parts : <<b, j>> \in txPool

\* The rows a worker has written for the block in hand.
RowsWritten ==
  \A w \in Workers :
    /\ \A j \in 1 .. part[w] : <<job[w].block, j>> \in txPool
    /\ wpc[w] = "row" => part[w] < Parts
    /\ wpc[w] = "mark" => part[w] = Parts
    /\ wpc[w] \in {"off", "idle", "read"} => part[w] = 0

\* Where the two senders are, so that what they send is a block.
Senders ==
  /\ mpc \in {"push", "send"} => target \in Blocks /\ block <= target
  /\ mpc = "send" => block < target
  /\ cend <= climit /\ climit <= MaxBlock + 1
  /\ cstart <= cend /\ (cpc = "send" => cstart < cend)

IInv == TypeOK /\ RowsWritten /\ Senders /\ BlockComplete

\* Blocks of this run on their way to cvm_blocks: in the channel, with a worker,
\* or still to be visited by the catch-up.
Queued  == {msgChan[j].block : j \in 1 .. Len(msgChan)}
InHand  == {job[w].block : w \in {v \in Workers : wpc[v] \notin {"off", "idle"}}}
ToVisit == {b \in Blocks : cpc # "off" /\ cstart <= b /\ b < climit}
Pending == Queued \cup InHand \cup ToVisit

Running == mpc \in {"spawn", "latest", "push", "send", "drain"}

\* No block is forgotten in silence: while a run goes on, a block it has passed
\* is recorded, on its way, or was given up after an error, unless the catch-up
\* has an error, which ends the run.
NothingForgotten ==
  Running /\ errs[Catchup] = "none"
    => \A b \in Blocks : b <= block => b \in cvmBlocks \cup Pending \cup dropped

\* What NothingForgotten needs of the catch-up: the blocks it passes over are
\* recorded, and between two chunks of a run it has visited the whole chunk.
CatchupPlace ==
  /\ blockMap \subseteq cvmBlocks
  /\ Running /\ cpc = "select" => cstart = cend

\* With errors and crashes at any point: every block of the node reaches tx_pool
\* with all its rows, unless an error made a worker give it up; an error of the
\* node, of the catch-up or of a whole run costs no block.
ProducedUnlessGivenUp ==
  \A b \in Blocks :
    (b <= head) ~> ((\A j \in 1 .. Parts : <<b, j>> \in txPool) \/ b \in dropped)

\* A run that ends with an error is followed by another.
Retried == (mpc = "exit") ~> (mpc = "start")
=============================================================================
