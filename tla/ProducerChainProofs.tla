------------------------ MODULE ProducerChainProofs ------------------------
(***************************************************************************)
(* Proofs that ProducerChain keeps tx_pool ahead of the stored index, for  *)
(* any number of machines, instances and containers.                       *)
(***************************************************************************)
EXTENDS ProducerChain, TLAPS

\* A longer prefix of an instance's containers contains a shorter one.
LEMMA BelowMonotone ==
  ASSUME NEW i \in Instances, NEW j \in Int, NEW k \in Int, j <= k
  PROVE  Below(i, j) \subseteq Below(i, k)
BY DEF Below

\* One more container.
LEMMA BelowNext ==
  ASSUME NEW i \in Instances, NEW k \in Nat
  PROVE  Below(i, k + 1) = Below(i, k) \cup {Order[i][k + 1]}
BY DEF Below

\* Nothing is below position 0.
LEMMA BelowZero ==
  ASSUME NEW i \in Instances
  PROVE  Below(i, 0) = {}
BY DEF Below

LEMMA InitIInv == Init => IInv
<1> SUFFICES ASSUME Init PROVE IInv
  OBVIOUS
<1> USE ProducerAssumption
<1>1. TypeOK
  BY DEF Init, TypeOK, NoRow, PCs
<1>2. IndexCovered
  BY DEF Init, IndexCovered
<1>3. MemoryCovered
  <2> SUFFICES ASSUME NEW m \in Machines
               PROVE  LET i == InstanceOf[m] IN
                      /\ idx[m] + fetched[m] <= accepted[i]
                      /\ written[m] <= fetched[m]
                      /\ Below(i, idx[m] + written[m]) \subseteq txPool
                      /\ pc[m] = "advance" => written[m] = fetched[m]
                      /\ pc[m] = "getIndex" => nodeIndex[i] # NoRow
    BY DEF MemoryCovered
  <2>1. InstanceOf[m] \in Instances /\ idx[m] + written[m] = 0
    BY DEF Init
  <2>2. Below(InstanceOf[m], idx[m] + written[m]) = {}
    BY <2>1, BelowZero
  <2> QED
    BY <2>1, <2>2 DEF Init
<1>4. QueueDurable
  BY DEF Init, QueueDurable
<1> QED
  BY <1>1, <1>2, <1>3, <1>4 DEF IInv

\* The type invariant is inductive by itself, given the ranges of MemoryCovered.
LEMMA NextTypeOK == IInv /\ [Next]_vars => TypeOK'
<1> SUFFICES ASSUME IInv, [Next]_vars PROVE TypeOK'
  OBVIOUS
<1> USE ProducerAssumption DEF IInv, TypeOK, NoRow
<1>1. CASE \E i \in Instances : Accept(i)
  BY <1>1 DEF Accept, dbVars, memVars
<1>2. CASE \E m \in Machines : Receive(m)
  BY <1>2 DEF Receive, dbVars, memVars
<1>3. ASSUME NEW m \in Machines, Step(m) PROVE TypeOK'
  <2>1. CASE InsertNodeIndex(m)
    BY <2>1 DEF InsertNodeIndex, Goto, memVars, PCs
  <2>2. CASE GetIndex(m)
    BY <2>2 DEF GetIndex, Goto, Remember, dbVars, MemoryCovered, PCs
  <2>3. CASE GetContainerRange(m)
    BY <2>3 DEF GetContainerRange, Goto, dbVars, Min2, PCs
  <2>4. CASE NotReady(m)
    BY <2>4 DEF NotReady, vars
  <2>5. CASE UpdateTxPool(m)
    <3>1. Current(m) \in Containers
      BY <2>5 DEF UpdateTxPool, Current, MemoryCovered
    <3>2. localTxPool' \in [Machines -> Seq(Containers)]
      <4>1. Append(localTxPool[m], Current(m)) \in Seq(Containers)
        BY <3>1
      <4> QED
        BY <2>5, <4>1 DEF UpdateTxPool, Enqueue
    <3>3. /\ txPool' \in SUBSET Containers
          /\ written' \in [Machines -> Nat]
      BY <2>5, <3>1 DEF UpdateTxPool
    <3> QED
      BY <2>5, <3>2, <3>3 DEF UpdateTxPool
  <2>6. CASE RangeWritten(m)
    BY <2>6 DEF RangeWritten, Goto, dbVars, memVars, PCs
  <2>7. CASE UpdateNodeIndex(m)
    BY <2>7 DEF UpdateNodeIndex, Goto, Remember, PCs
  <2> QED
    BY <1>3, <2>1, <2>2, <2>3, <2>4, <2>5, <2>6, <2>7 DEF Step
<1>4. ASSUME NEW m \in Machines, Fail(m) PROVE TypeOK'
  <2>1. pc[m] = "write" /\ written[m] < fetched[m] => Current(m) \in Containers
    BY DEF Current, MemoryCovered
  <2>2. /\ pc' \in [Machines -> PCs] /\ idx' \in [Machines -> Nat]
        /\ fetched' \in [Machines -> Nat] /\ written' \in [Machines -> Nat]
        /\ failures' \in Nat
    BY <1>4 DEF Fail, MayFail, Remember, PCs
  <2>3. nodeIndex' \in [Instances -> Nat \cup {NoRow}]
    BY <1>4 DEF Fail, dbVars
  <2>4. txPool' \in SUBSET Containers
    BY <1>4, <2>1 DEF Fail, dbVars
  <2> QED
    BY <1>4, <2>2, <2>3, <2>4 DEF Fail
<1>5. CASE \E m \in Machines : Crash(m)
  BY <1>5 DEF Crash, MayFail, Remember, dbVars, PCs
<1>6. CASE \E m \in Machines : Restart(m)
  BY <1>6 DEF Restart, Goto, dbVars, memVars, PCs
<1>7. CASE UNCHANGED vars
  BY <1>7 DEF vars
<1> QED
  BY <1>1, <1>2, <1>3, <1>4, <1>5, <1>6, <1>7 DEF Next

\* The index a machine stores is covered, because its memory is.
LEMMA NextIndexCovered == IInv /\ [Next]_vars => IndexCovered'
<1> SUFFICES ASSUME IInv, [Next]_vars PROVE IndexCovered'
  OBVIOUS
<1> USE ProducerAssumption DEF IInv, TypeOK, NoRow
<1>0. ASSUME UNCHANGED nodeIndex, txPool \subseteq txPool',
             \A i \in Instances : accepted[i] <= accepted'[i],
             accepted' \in [Instances -> Nat]
      PROVE  IndexCovered'
  BY <1>0 DEF IndexCovered, Below
<1>1. ASSUME NEW m \in Machines, UNCHANGED <<txPool, accepted>>, pc[m] = "advance",
             nodeIndex' = [nodeIndex EXCEPT ![InstanceOf[m]] = idx[m] + fetched[m]]
      PROVE  IndexCovered'
  <2>1. /\ idx[m] + fetched[m] <= accepted[InstanceOf[m]]
        /\ Below(InstanceOf[m], idx[m] + fetched[m]) \subseteq txPool
    BY <1>1 DEF MemoryCovered
  <2> QED
    BY <1>1, <2>1 DEF IndexCovered, Below
<1>2. ASSUME NEW m \in Machines, InsertNodeIndex(m) PROVE IndexCovered'
  <2>1. \A i \in Instances : nodeIndex'[i] \in {nodeIndex[i], 0}
    BY <1>2 DEF InsertNodeIndex
  <2> QED
    BY <1>2, <2>1, BelowZero DEF InsertNodeIndex, IndexCovered, Below
<1>3. ASSUME NEW m \in Machines, Step(m) PROVE IndexCovered'
  <2>1. CASE UpdateNodeIndex(m)
    BY <1>1, <2>1 DEF UpdateNodeIndex, Goto
  <2>2. CASE GetIndex(m) \/ GetContainerRange(m) \/ NotReady(m)
             \/ UpdateTxPool(m) \/ RangeWritten(m)
    BY <1>0, <2>2 DEF GetIndex, GetContainerRange, NotReady, UpdateTxPool,
                      RangeWritten, dbVars, vars
  <2> QED
    BY <1>2, <1>3, <2>1, <2>2 DEF Step
<1>4. ASSUME NEW m \in Machines, Fail(m) PROVE IndexCovered'
  <2>1. CASE UNCHANGED nodeIndex
    BY <1>0, <1>4, <2>1 DEF Fail, dbVars
  <2>2. CASE /\ pc[m] = "advance"
             /\ nodeIndex' = [nodeIndex EXCEPT ![InstanceOf[m]] = idx[m] + fetched[m]]
             /\ UNCHANGED txPool
    BY <1>1, <1>4, <2>2 DEF Fail
  <2> QED
    BY <1>4, <2>1, <2>2 DEF Fail, dbVars
<1>5. CASE \/ \E i \in Instances : Accept(i)
           \/ \E m \in Machines : Receive(m) \/ Crash(m) \/ Restart(m)
           \/ UNCHANGED vars
  <2>1. UNCHANGED <<nodeIndex, txPool>>
    BY <1>5 DEF Accept, Receive, Crash, Restart, dbVars, vars
  <2>2. /\ accepted' \in [Instances -> Nat]
        /\ \A i \in Instances : accepted[i] <= accepted'[i]
    <3>1. CASE \E i \in Instances : Accept(i)
      BY <3>1 DEF Accept
    <3>2. CASE UNCHANGED accepted
      BY <3>2
    <3> QED
      BY <1>5, <3>1, <3>2 DEF Receive, Crash, Restart, vars
  <2> QED
    BY <1>0, <2>1, <2>2
<1> QED
  BY <1>3, <1>4, <1>5 DEF Next

\* A machine's memory stays covered: a range is written one container at a
\* time, and a new container starts from a covered index.
LEMMA NextMemoryCovered == IInv /\ [Next]_vars => MemoryCovered'
<1> SUFFICES ASSUME IInv, [Next]_vars, NEW n \in Machines
             PROVE  /\ idx'[n] + fetched'[n] <= accepted'[InstanceOf[n]]
                    /\ written'[n] <= fetched'[n]
                    /\ Below(InstanceOf[n], idx'[n] + written'[n]) \subseteq txPool'
                    /\ pc'[n] = "advance" => written'[n] = fetched'[n]
                    /\ pc'[n] = "getIndex" => nodeIndex'[InstanceOf[n]] # NoRow
  BY DEF MemoryCovered, Below
<1> DEFINE i == InstanceOf[n]
<1> USE ProducerAssumption DEF IInv, TypeOK, NoRow
<1>a. /\ i \in Instances
      /\ idx[n] + fetched[n] <= accepted[i]
      /\ written[n] <= fetched[n]
      /\ Below(i, idx[n] + written[n]) \subseteq txPool
      /\ pc[n] = "advance" => written[n] = fetched[n]
      /\ pc[n] = "getIndex" => nodeIndex[i] # NoRow
  BY DEF MemoryCovered
<1>b. Below(i, 0) = {}
  BY <1>a, BelowZero
<1>c. txPool \subseteq txPool' /\ accepted[i] <= accepted'[i] /\ accepted'[i] \in Nat
  <2>1. txPool \subseteq txPool'
    BY DEF Next, vars, Accept, Receive, Step, InsertNodeIndex, GetIndex,
           GetContainerRange, NotReady, UpdateTxPool, RangeWritten,
           UpdateNodeIndex, Fail, Crash, Restart, dbVars
  <2>2. accepted[i] <= accepted'[i] /\ accepted'[i] \in Nat
    <3>1. CASE \E j \in Instances : Accept(j)
      BY <3>1, <1>a DEF Accept
    <3>2. CASE UNCHANGED accepted
      BY <3>2, <1>a
    <3> QED
      BY <3>1, <3>2
         DEF Next, vars, Receive, Step, InsertNodeIndex, GetIndex,
             GetContainerRange, NotReady, UpdateTxPool, RangeWritten,
             UpdateNodeIndex, Fail, Crash, Restart
  <2> QED
    BY <2>1, <2>2
<1>d. nodeIndex[i] # NoRow => nodeIndex'[i] # NoRow
  <2>1. CASE UNCHANGED nodeIndex
    BY <2>1
  <2>2. ASSUME NEW m \in Machines, NEW k \in Nat,
               nodeIndex' = [nodeIndex EXCEPT ![InstanceOf[m]] = k]
        PROVE  nodeIndex[i] # NoRow => nodeIndex'[i] # NoRow
    BY <2>2, <1>a
  <2>3. ASSUME NEW m \in Machines, InsertNodeIndex(m)
        PROVE  nodeIndex[i] # NoRow => nodeIndex'[i] # NoRow
    BY <2>3, <1>a DEF InsertNodeIndex
  <2>4. ASSUME NEW m \in Machines, UpdateNodeIndex(m) \/ Fail(m)
        PROVE  nodeIndex[i] # NoRow => nodeIndex'[i] # NoRow
    <3>1. idx[m] + fetched[m] \in Nat
      OBVIOUS
    <3> QED
      BY <2>1, <2>2, <2>4, <3>1 DEF UpdateNodeIndex, Fail, dbVars
  <2> QED
    BY <2>1, <2>3, <2>4
       DEF Next, vars, Accept, Receive, Step, GetIndex, GetContainerRange,
           NotReady, UpdateTxPool, RangeWritten, Crash, Restart, dbVars
<1>1. CASE UNCHANGED <<pc, memVars>>
  BY <1>1, <1>a, <1>c, <1>d DEF memVars
<1>2. ASSUME NEW m \in Machines, m # n, Step(m) \/ Fail(m) \/ Crash(m) \/ Restart(m)
      PROVE  UNCHANGED <<pc[n], idx[n], fetched[n], written[n]>>
  BY <1>2 DEF Step, InsertNodeIndex, GetIndex, GetContainerRange, NotReady,
              UpdateTxPool, RangeWritten, UpdateNodeIndex, Fail, Crash,
              Restart, Goto, Remember, memVars, vars
<1>3. CASE UNCHANGED <<pc[n], idx[n], fetched[n], written[n]>>
  BY <1>3, <1>a, <1>c, <1>d
<1>4. CASE InsertNodeIndex(n)
  BY <1>4, <1>a, <1>c DEF InsertNodeIndex, Goto, memVars
<1>5. CASE GetIndex(n)
  <2>1. /\ nodeIndex[i] \in Nat /\ nodeIndex[i] <= accepted[i]
        /\ Below(i, nodeIndex[i]) \subseteq txPool
    BY <1>5, <1>a DEF GetIndex, Goto, IndexCovered
  <2>2. /\ idx'[n] = nodeIndex[i] /\ fetched'[n] = 0 /\ written'[n] = 0
        /\ pc'[n] = "fetch"
    BY <1>5 DEF GetIndex, Goto, Remember
  <2>3. idx'[n] + written'[n] = nodeIndex[i]
    BY <2>1, <2>2
  <2> QED
    BY <2>1, <2>2, <2>3, <1>c
<1>6. CASE GetContainerRange(n)
  <2>1. PICK k \in 1 .. Min2(MaxTxRead, accepted[i] - idx[n]) :
               fetched' = [fetched EXCEPT ![n] = k]
    BY <1>6 DEF GetContainerRange
  <2>2. k \in Nat /\ k <= accepted[i] - idx[n]
    BY <2>1, <1>a DEF Min2
  <2>3. Below(i, idx[n]) \subseteq Below(i, idx[n] + written[n])
    BY <1>a, BelowMonotone
  <2>4. /\ idx'[n] = idx[n] /\ fetched'[n] = k /\ written'[n] = 0
        /\ pc'[n] = "write" /\ idx'[n] + written'[n] = idx[n]
    BY <1>6, <2>1 DEF GetContainerRange, Goto
  <2> QED
    BY <2>2, <2>3, <2>4, <1>a, <1>c
<1>7. CASE UpdateTxPool(n)
  <2>1. Below(i, idx[n] + written[n] + 1)
          = Below(i, idx[n] + written[n]) \cup {Current(n)}
    BY <1>a, BelowNext DEF Current
  <2>2. /\ txPool' = txPool \cup {Current(n)}
        /\ idx'[n] = idx[n] /\ fetched'[n] = fetched[n]
        /\ written'[n] = written[n] + 1 /\ written[n] < fetched[n]
        /\ pc'[n] = "write"
        /\ idx'[n] + written'[n] = idx[n] + written[n] + 1
    BY <1>7 DEF UpdateTxPool
  <2> QED
    BY <2>1, <2>2, <1>a, <1>c
<1>8. CASE RangeWritten(n)
  BY <1>8, <1>a, <1>c DEF RangeWritten, Goto, memVars
<1>9. CASE UpdateNodeIndex(n)
  <2>1. /\ idx'[n] = idx[n] + fetched[n] /\ fetched'[n] = 0 /\ written'[n] = 0
        /\ pc'[n] = "fetch" /\ written[n] = fetched[n]
        /\ idx'[n] + written'[n] = idx[n] + written[n]
    BY <1>9, <1>a DEF UpdateNodeIndex, Goto, Remember
  <2> QED
    BY <2>1, <1>a, <1>c
<1>10. CASE Fail(n) \/ Crash(n)
  <2>1. /\ idx'[n] = 0 /\ fetched'[n] = 0 /\ written'[n] = 0
        /\ pc'[n] \in {"newContainer", "down"} /\ idx'[n] + written'[n] = 0
    BY <1>10 DEF Fail, Crash, Remember
  <2> QED
    BY <2>1, <1>a, <1>b, <1>c
<1>11. CASE Restart(n)
  BY <1>11, <1>a, <1>c DEF Restart, Goto, memVars
<1>12. CASE NotReady(n)
  BY <1>12, <1>1 DEF NotReady, vars, memVars
<1> QED
  BY <1>1, <1>2, <1>3, <1>4, <1>5, <1>6, <1>7, <1>8, <1>9, <1>10, <1>11, <1>12
     DEF Next, Step, Accept, Receive, vars, memVars

\* A channel only ever receives containers that are stored.
LEMMA NextQueueDurable == IInv /\ [Next]_vars => QueueDurable'
<1> SUFFICES ASSUME IInv, [Next]_vars PROVE QueueDurable'
  OBVIOUS
<1> USE ProducerAssumption DEF IInv, TypeOK
<1>1. CASE UNCHANGED localTxPool /\ txPool \subseteq txPool'
  BY <1>1 DEF QueueDurable
<1>2. ASSUME NEW m \in Machines, Receive(m) PROVE QueueDurable'
  BY <1>2 DEF Receive, QueueDurable, dbVars
<1>3. ASSUME NEW m \in Machines, UpdateTxPool(m) PROVE QueueDurable'
  <2>1. txPool' = txPool \cup {Current(m)}
    BY <1>3 DEF UpdateTxPool
  <2>2. CASE Len(localTxPool[m]) < MaxTxPoolSize
    <3>1. localTxPool' = [localTxPool EXCEPT ![m] = Append(@, Current(m))]
      BY <1>3, <2>2 DEF UpdateTxPool, Enqueue
    <3>2. ASSUME NEW n \in Machines, NEW j \in 1 .. Len(localTxPool'[n])
          PROVE  localTxPool'[n][j] \in txPool'
      <4>1. CASE n = m /\ j = Len(localTxPool[m]) + 1
        BY <3>1, <2>1, <4>1
      <4>2. CASE j \in 1 .. Len(localTxPool[n]) /\ localTxPool'[n][j] = localTxPool[n][j]
        BY <4>2, <2>1 DEF QueueDurable
      <4> QED
        BY <3>1, <3>2, <4>1, <4>2
    <3> QED
      BY <3>2 DEF QueueDurable
  <2>3. CASE ~(Len(localTxPool[m]) < MaxTxPoolSize)
    BY <1>3, <2>1, <2>3, <1>1 DEF UpdateTxPool, Enqueue
  <2> QED
    BY <2>2, <2>3
<1>4. ASSUME NEW m \in Machines, Crash(m) PROVE QueueDurable'
  BY <1>4 DEF Crash, QueueDurable, dbVars
<1> QED
  BY <1>1, <1>2, <1>3, <1>4
     DEF Next, Step, Accept, InsertNodeIndex, GetIndex, GetContainerRange,
         NotReady, RangeWritten, UpdateNodeIndex, Fail, Restart, dbVars, vars

\* The inductive invariant holds in every reachable state.
THEOREM ProducerInvariant == Spec => []IInv
<1>1. IInv /\ [Next]_vars => IInv'
  BY NextTypeOK, NextIndexCovered, NextMemoryCovered, NextQueueDurable DEF IInv
<1> QED
  BY InitIInv, <1>1, PTL DEF Spec

\* Type correctness of the producer, for every value of the constants.
THEOREM ProducerTypeOK == Spec => []TypeOK
BY ProducerInvariant, PTL DEF IInv

\* A restart that resumes from node_index skips no container, whatever the
\* machines sharing the row and the database do (producer_chain.go:160-242).
THEOREM ProducerIndexCovered == Spec => []IndexCovered
BY ProducerInvariant, PTL DEF IInv

\* Every job in a local channel has its tx_pool row (UpdateTxPool).
THEOREM ProducerQueueDurable == Spec => []QueueDurable
BY ProducerInvariant, PTL DEF IInv

-----------------------------------------------------------------------------
(* The stored index of a machine that does not share its instance.          *)

\* What a step of another machine, of another instance, leaves alone.
LEMMA OtherMachine ==
  ASSUME TypeOK, NEW m \in Machines, Alone(m), NEW n \in Machines, n # m,
         Step(n) \/ Fail(n) \/ Crash(n) \/ Restart(n) \/ Receive(n)
  PROVE  UNCHANGED <<nodeIndex[InstanceOf[m]], pc[m], idx[m]>>
<1> USE ProducerAssumption DEF TypeOK
<1>1. InstanceOf[n] # InstanceOf[m]
  BY DEF Alone
<1>2. UNCHANGED nodeIndex[InstanceOf[m]]
  BY <1>1 DEF Step, InsertNodeIndex, GetIndex, GetContainerRange, NotReady,
              UpdateTxPool, RangeWritten, UpdateNodeIndex, Fail, Crash, Restart,
              Receive, dbVars, vars
<1>3. UNCHANGED <<pc[m], idx[m]>>
  BY DEF Step, InsertNodeIndex, GetIndex, GetContainerRange, NotReady,
         UpdateTxPool, RangeWritten, UpdateNodeIndex, Fail, Crash, Restart,
         Receive, Goto, Remember, memVars, vars
<1> QED
  BY <1>2, <1>3

LEMMA NextIndexOwned == IInv /\ IndexOwned /\ [Next]_vars => IndexOwned'
<1> SUFFICES ASSUME IInv, IndexOwned, [Next]_vars, NEW m \in Machines, Alone(m),
                    pc'[m] \in {"fetch", "write", "advance"}
             PROVE  nodeIndex'[InstanceOf[m]] = idx'[m]
  BY DEF IndexOwned, Alone
<1> USE ProducerAssumption DEF IInv, TypeOK
<1>1. CASE UNCHANGED <<nodeIndex[InstanceOf[m]], pc[m], idx[m]>>
  BY <1>1 DEF IndexOwned
<1>2. CASE GetIndex(m)
  BY <1>2 DEF GetIndex, Remember, dbVars
<1>3. CASE GetContainerRange(m) \/ UpdateTxPool(m) \/ RangeWritten(m) \/ NotReady(m)
  BY <1>3 DEF GetContainerRange, UpdateTxPool, RangeWritten, NotReady, Goto,
              IndexOwned, dbVars, memVars, vars
<1>4. CASE UpdateNodeIndex(m)
  BY <1>4 DEF UpdateNodeIndex, Remember
<1>5. CASE InsertNodeIndex(m) \/ Fail(m) \/ Crash(m) \/ Restart(m)
  BY <1>5 DEF InsertNodeIndex, Fail, Crash, Restart, Goto
<1>6. ASSUME NEW n \in Machines, n # m,
             Step(n) \/ Fail(n) \/ Crash(n) \/ Restart(n) \/ Receive(n)
      PROVE  UNCHANGED <<nodeIndex[InstanceOf[m]], pc[m], idx[m]>>
  BY <1>6, OtherMachine
<1>7. CASE Receive(m) \/ (\E i \in Instances : Accept(i)) \/ UNCHANGED vars
  BY <1>1, <1>7 DEF Receive, Accept, dbVars, memVars, vars
<1> QED
  BY <1>1, <1>2, <1>3, <1>4, <1>5, <1>6, <1>7 DEF Next, Step

\* A step stores a range from the position it was read at, and the insert of
\* newContainer leaves a row alone.
LEMMA NextIndexMonotone ==
  ASSUME IInv, IndexOwned, [Next]_vars, NEW m \in Machines, Alone(m), ~PerformUpdates
  PROVE  nodeIndex'[InstanceOf[m]] >= nodeIndex[InstanceOf[m]]
<1> DEFINE i == InstanceOf[m]
<1> USE ProducerAssumption DEF IInv, TypeOK, NoRow
<1>0. i \in Instances /\ nodeIndex[i] \in Int
  OBVIOUS
<1>1. CASE UNCHANGED nodeIndex[i]
  BY <1>0, <1>1
<1>2. CASE InsertNodeIndex(m)
  BY <1>0, <1>2 DEF InsertNodeIndex
<1>3. ASSUME pc[m] = "advance",
             nodeIndex' = [nodeIndex EXCEPT ![i] = idx[m] + fetched[m]]
      PROVE  nodeIndex'[i] >= nodeIndex[i]
  <2>1. nodeIndex[i] = idx[m]
    BY <1>3 DEF IndexOwned
  <2> QED
    BY <1>0, <1>3, <2>1
<1>4. CASE UpdateNodeIndex(m)
  BY <1>3, <1>4 DEF UpdateNodeIndex, Goto
<1>5. CASE Fail(m)
  BY <1>1, <1>3, <1>5 DEF Fail, dbVars
<1>6. ASSUME NEW n \in Machines, n # m,
             Step(n) \/ Fail(n) \/ Crash(n) \/ Restart(n) \/ Receive(n)
      PROVE  UNCHANGED nodeIndex[i]
  BY <1>6, OtherMachine
<1> QED
  BY <1>1, <1>2, <1>4, <1>5, <1>6
     DEF Next, Step, Accept, Receive, GetIndex, GetContainerRange, NotReady,
         UpdateTxPool, RangeWritten, Crash, Restart, dbVars, vars

\* Without updates, the machine that alone asks its node never moves the stored
\* index backwards, over errors and restarts (updateNodeIndex, newContainer).
THEOREM ProducerIndexMonotone == Spec => IndexMonotone
<1>1. Init => IndexOwned
  BY DEF Init, IndexOwned
<1>2. /\ IInv /\ IndexOwned /\ [Next]_vars
      => [\A m \in Machines :
            Alone(m) /\ ~PerformUpdates =>
              nodeIndex'[InstanceOf[m]] >= nodeIndex[InstanceOf[m]]]_vars
  BY NextIndexMonotone
<1> QED
  BY <1>1, <1>2, NextIndexOwned, ProducerInvariant, PTL DEF Spec, IndexMonotone
=============================================================================
