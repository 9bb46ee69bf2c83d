--------------------------- MODULE ProducerChain ---------------------------
(***************************************************************************)
(* The container producer of one topic (stream/producer_chain.go).         *)
(*                                                                         *)
(* Every machine runs a ProducerChain: a supervisor loop (Listen) around   *)
(* runProcessor, which opens a producerChainContainer and calls its        *)
(* ProcessNextMessage until an error.  A container reads the position of   *)
(* its node from the table node_index, asks the node for the containers    *)
(* from there, writes each one to the table tx_pool, offers it to the      *)
(* LocalTxPool channel of its process and, when the whole range is         *)
(* written, stores the new position.                                       *)
(*                                                                         *)
(* Machines configured with the same nodeInstance share a node_index row   *)
(* (and are taken to ask the same node); all of them share the database.   *)
(* Each DB statement is an autocommit step of its own, so machines         *)
(* interleave between any two statements and may crash there.              *)
(***************************************************************************)
EXTENDS Integers, Sequences

CONSTANTS
  Machines,        \* processes running a producer for this topic
  Instances,       \* cfg.Config.NodeInstance values
  InstanceOf,      \* the instance each machine is configured with
  Containers,      \* containers, identified by the id of their tx_pool row
  Order,           \* for each instance, the containers its node accepts, in order
  MaxTxRead,       \* largest range asked for in one call
  MaxTxPoolSize,   \* capacity of the LocalTxPool channel
  PerformUpdates,  \* cfg.PerformUpdates, FALSE unless replaying
  MaxFailures      \* bound: errors and crashes in a behaviour

ASSUME ProducerAssumption ==
  /\ InstanceOf \in [Machines -> Instances]
  /\ Order \in [Instances -> Seq(Containers)]
  /\ MaxTxRead \in Nat \ {0}
  /\ MaxTxPoolSize \in Nat
  /\ PerformUpdates \in BOOLEAN
  /\ MaxFailures \in Nat

NoRow == -1

VARIABLES
  accepted,    \* accepted[i]: containers the node of instance i has accepted
  nodeIndex,   \* nodeIndex[i]: idx column of the node_index row, or NoRow
  txPool,      \* containers with a row in tx_pool
  localTxPool, \* localTxPool[m]: the channel of machine m
  pc,          \* pc[m]: where the producer of machine m is
  idx,         \* idx[m]: p.nodeIndex.Idx, in memory
  fetched,     \* fetched[m]: len(containers) of the range in hand
  written,     \* written[m]: how many of them are in tx_pool
  failures     \* errors and crashes so far

dbVars  == <<nodeIndex, txPool>>
memVars == <<idx, fetched, written>>
vars    == <<accepted, nodeIndex, txPool, localTxPool, pc, idx, fetched,
             written, failures>>

Min2(a, b) == IF a < b THEN a ELSE b

PCs == {"down", "newContainer", "getIndex", "fetch", "write", "advance"}

TypeOK ==
  /\ accepted \in [Instances -> Nat]
  /\ \A i \in Instances : accepted[i] <= Len(Order[i])
  /\ nodeIndex \in [Instances -> Nat \cup {NoRow}]
  /\ txPool \in SUBSET Containers
  /\ localTxPool \in [Machines -> Seq(Containers)]
  /\ pc \in [Machines -> PCs]
  /\ idx \in [Machines -> Nat]
  /\ fetched \in [Machines -> Nat]
  /\ written \in [Machines -> Nat]
  /\ failures \in Nat

Init ==
  /\ accepted = [i \in Instances |-> 0]
  /\ nodeIndex = [i \in Instances |-> NoRow]
  /\ txPool = {}
  /\ localTxPool = [m \in Machines |-> << >>]
  /\ pc = [m \in Machines |-> "newContainer"]
  /\ idx = [m \in Machines |-> 0]
  /\ fetched = [m \in Machines |-> 0]
  /\ written = [m \in Machines |-> 0]
  /\ failures = 0

\* The memory of a producer between two calls: its index and no range in hand.
Remember(m, k) ==
  /\ idx' = [idx EXCEPT ![m] = k]
  /\ fetched' = [fetched EXCEPT ![m] = 0]
  /\ written' = [written EXCEPT ![m] = 0]

Goto(m, from, to) ==
  /\ pc[m] = from
  /\ pc' = [pc EXCEPT ![m] = to]

-----------------------------------------------------------------------------
(* The node and the consumers of the channel, outside this component.       *)

\* The node of instance i accepts the next container of its index.
Accept(i) ==
  /\ accepted[i] < Len(Order[i])
  /\ accepted' = [accepted EXCEPT ![i] = @ + 1]
  /\ UNCHANGED <<dbVars, localTxPool, pc, memVars, failures>>

\* A worker of the indexer takes a job from the channel of machine m.
Receive(m) ==
  /\ localTxPool[m] # << >>
  /\ localTxPool' = [localTxPool EXCEPT ![m] = Tail(@)]
  /\ UNCHANGED <<accepted, dbVars, pc, memVars, failures>>

-----------------------------------------------------------------------------
(* newContainer: make sure the node_index row exists, then read it.         *)

\* Mutant: the row is not inserted.
InsertNodeIndexSkipped(m) ==
  /\ Goto(m, "newContainer", "getIndex")
  /\ UNCHANGED <<accepted, dbVars, localTxPool, memVars, failures>>

\* Mutant: a row that is there is set back to 0.
InsertNodeIndexResets(m) ==
  /\ Goto(m, "newContainer", "getIndex")
  /\ nodeIndex' = [nodeIndex EXCEPT ![InstanceOf[m]] = 0]
  /\ UNCHANGED <<accepted, txPool, localTxPool, memVars, failures>>

InsertNodeIndex(m) ==
  LET i == InstanceOf[m] IN
  /\ Goto(m, "newContainer", "getIndex")
  /\ nodeIndex' = [nodeIndex EXCEPT
                     ![i] = IF @ = NoRow \/ PerformUpdates THEN 0 ELSE @]
  /\ UNCHANGED <<accepted, txPool, localTxPool, memVars, failures>>

GetIndex(m) ==
  /\ Goto(m, "getIndex", "fetch")
  /\ Remember(m, nodeIndex[InstanceOf[m]])
  /\ UNCHANGED <<accepted, dbVars, localTxPool, failures>>

-----------------------------------------------------------------------------
(* ProcessNextMessage.                                                      *)

\* The node has a range of at least one container from idx on.
GetContainerRange(m) ==
  LET i == InstanceOf[m] IN
  /\ Goto(m, "fetch", "write")
  /\ \E n \in 1 .. Min2(MaxTxRead, accepted[i] - idx[m]) :
       fetched' = [fetched EXCEPT ![m] = n]
  /\ written' = [written EXCEPT ![m] = 0]
  /\ UNCHANGED <<accepted, dbVars, localTxPool, idx, failures>>

\* Nothing there yet: "start index ... last accepted index", "no containers
\* have been accepted", a 404, a deadline, an empty range.  The loop polls again.
NotReady(m) ==
  /\ pc[m] = "fetch"
  /\ idx[m] >= accepted[InstanceOf[m]]
  /\ UNCHANGED vars

\* The container UpdateTxPool is called with.
Current(m) == Order[InstanceOf[m]][idx[m] + written[m] + 1]

\* sc.Enqueue: a send that gives up when the channel is full.
Enqueue(m, c) ==
  IF Len(localTxPool[m]) < MaxTxPoolSize
  THEN localTxPool' = [localTxPool EXCEPT ![m] = Append(@, c)]
  ELSE UNCHANGED localTxPool

\* Mutant: the offer is made although the insert failed.
UpdateTxPoolIgnoringError(m) ==
  /\ pc[m] = "write"
  /\ written[m] < fetched[m]
  /\ txPool' \in {txPool, txPool \cup {Current(m)}}
  /\ Enqueue(m, Current(m))
  /\ written' = [written EXCEPT ![m] = @ + 1]
  /\ UNCHANGED <<accepted, nodeIndex, pc, idx, fetched, failures>>

\* UpdateTxPool: the insert (a duplicate key is not an error) and, once the row
\* is there, the offer to the local channel.
UpdateTxPool(m) ==
  /\ pc[m] = "write"
  /\ written[m] < fetched[m]
  /\ txPool' = txPool \cup {Current(m)}
  /\ Enqueue(m, Current(m))
  /\ written' = [written EXCEPT ![m] = @ + 1]
  /\ UNCHANGED <<accepted, nodeIndex, pc, idx, fetched, failures>>

\* Mutant: the index advances before the range is written.
RangeWrittenEarly(m) ==
  /\ Goto(m, "write", "advance")
  /\ UNCHANGED <<accepted, dbVars, localTxPool, memVars, failures>>

\* The range is written: leave the loop over the containers.
RangeWritten(m) ==
  /\ written[m] = fetched[m]
  /\ Goto(m, "write", "advance")
  /\ UNCHANGED <<accepted, dbVars, localTxPool, memVars, failures>>

\* Mutant: the index advances by one too many.
UpdateNodeIndexOffByOne(m) ==
  LET next == idx[m] + fetched[m] + 1 IN
  /\ Goto(m, "advance", "fetch")
  /\ nodeIndex' = [nodeIndex EXCEPT ![InstanceOf[m]] = next]
  /\ Remember(m, next)
  /\ UNCHANGED <<accepted, txPool, localTxPool, failures>>

\* updateNodeIndex, then p.nodeIndex.Idx.
UpdateNodeIndex(m) ==
  LET next == idx[m] + fetched[m] IN
  /\ Goto(m, "advance", "fetch")
  /\ nodeIndex' = [nodeIndex EXCEPT ![InstanceOf[m]] = next]
  /\ Remember(m, next)
  /\ UNCHANGED <<accepted, txPool, localTxPool, failures>>

-----------------------------------------------------------------------------
(* Failures.                                                                *)

MayFail == failures < MaxFailures /\ failures' = failures + 1

\* An error of the database or the node ends runProcessor, and Listen opens a
\* new container.  A statement that failed at the client (a timeout, a lost
\* connection) may still have been applied by the server.
Fail(m) ==
  /\ MayFail
  /\ pc[m] # "down"
  /\ pc' = [pc EXCEPT ![m] = "newContainer"]
  /\ \/ UNCHANGED dbVars
     \/ /\ pc[m] = "write"
        /\ written[m] < fetched[m]
        /\ txPool' = txPool \cup {Current(m)}
        /\ UNCHANGED nodeIndex
     \/ /\ pc[m] = "advance"
        /\ nodeIndex' = [nodeIndex EXCEPT ![InstanceOf[m]] = idx[m] + fetched[m]]
        /\ UNCHANGED txPool
  /\ Remember(m, 0)
  /\ UNCHANGED <<accepted, localTxPool>>

\* The process stops, for good or in the middle of anything: its memory is lost.
Crash(m) ==
  /\ MayFail
  /\ pc[m] # "down"
  /\ pc' = [pc EXCEPT ![m] = "down"]
  /\ localTxPool' = [localTxPool EXCEPT ![m] = << >>]
  /\ Remember(m, 0)
  /\ UNCHANGED <<accepted, dbVars>>

Restart(m) ==
  /\ Goto(m, "down", "newContainer")
  /\ UNCHANGED <<accepted, dbVars, localTxPool, memVars, failures>>

-----------------------------------------------------------------------------
\* What the producer of machine m does by itself.
Step(m) ==
  \/ InsertNodeIndex(m)
  \/ GetIndex(m)
  \/ GetContainerRange(m)
  \/ NotReady(m)
  \/ UpdateTxPool(m)
  \/ RangeWritten(m)
  \/ UpdateNodeIndex(m)

Next ==
  \/ \E i \in Instances : Accept(i)
  \/ \E m \in Machines : Receive(m)
  \/ \E m \in Machines : Step(m)
  \/ \E m \in Machines : Fail(m)
  \/ \E m \in Machines : Crash(m)
  \/ \E m \in Machines : Restart(m)

\* The Go scheduler runs every producer goroutine, and a stopped process is
\* started again; nothing makes the node accept, or anything fail.
Fairness ==
  \A m \in Machines : WF_vars(Step(m)) /\ WF_vars(Restart(m))

Spec == Init /\ [][Next]_vars
FairSpec == Spec /\ Fairness

-----------------------------------------------------------------------------
(* Properties.                                                              *)

\* The containers of instance i below position k.
Below(i, k) == {Order[i][j] : j \in 1 .. k}

\* The position stored in node_index never runs ahead of tx_pool: whatever the
\* interleaving of machines, errors and crashes, every container below the
\* stored index has its row, so a restart that resumes from the index
\* (newContainer, getIndex) skips nothing.
IndexCovered ==
  \A i \in Instances :
    nodeIndex[i] # NoRow =>
      /\ nodeIndex[i] <= accepted[i]
      /\ Below(i, nodeIndex[i]) \subseteq txPool

\* What the memory of a producer knows: the range in hand was accepted, and
\* everything up to the container being written is in tx_pool.  The row of the
\* instance exists once newContainer has inserted it.
MemoryCovered ==
  \A m \in Machines :
    LET i == InstanceOf[m] IN
    /\ idx[m] + fetched[m] <= accepted[i]
    /\ written[m] <= fetched[m]
    /\ Below(i, idx[m] + written[m]) \subseteq txPool
    /\ pc[m] = "advance" => written[m] = fetched[m]
    /\ pc[m] = "getIndex" => nodeIndex[i] # NoRow

\* A job is offered to the local channel only once its row is stored
\* (UpdateTxPool enqueues after InsertTxPool): losing the channel loses no
\* container.
QueueDurable ==
  \A m \in Machines : \A j \in 1 .. Len(localTxPool[m]) :
    localTxPool[m][j] \in txPool

\* The inductive invariant: IndexCovered alone does not survive UpdateNodeIndex,
\* which stores what the machine's memory says.
IInv == TypeOK /\ IndexCovered /\ MemoryCovered /\ QueueDurable

\* The machine is the only one of its instance.
Alone(m) == \A n \in Machines : InstanceOf[n] = InstanceOf[m] => n = m

\* A machine that does not share its instance holds the stored index in memory
\* from getIndex to updateNodeIndex.
IndexOwned ==
  \A m \in Machines :
    Alone(m) /\ pc[m] \in {"fetch", "write", "advance"} =>
      nodeIndex[InstanceOf[m]] = idx[m]

\* Without updates in force, a machine that does not share its instance never
\* moves the stored index backwards, over restarts included: the insert of
\* newContainer leaves an existing row alone and a range is stored from the
\* position it was read at.
IndexMonotone ==
  [][\A m \in Machines :
       Alone(m) /\ ~PerformUpdates =>
         nodeIndex'[InstanceOf[m]] >= nodeIndex[InstanceOf[m]]]_vars

\* Every container a node has accepted reaches tx_pool, as long as some
\* machine asks that node (ProcessNextMessage retries from the same index
\* until the whole range is written).
EventuallyProduced ==
  \A m \in Machines : \A k \in 1 .. Len(Order[InstanceOf[m]]) :
    (accepted[InstanceOf[m]] >= k) ~> (Order[InstanceOf[m]][k] \in txPool)
=============================================================================
