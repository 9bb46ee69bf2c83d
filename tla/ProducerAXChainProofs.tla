----------------------- MODULE ProducerAXChainProofs -----------------------
(***************************************************************************)
(* Proofs about ProducerAXChain, for any number of blocks, rows of a block *)
(* and workers, any channel and chunk size, and any number of errors and   *)
(* crashes.                                                                *)
(***************************************************************************)
EXTENDS ProducerAXChain, FiniteSetTheorems, TLAPS

LEMMA NoJobType == NoJob \in Job
BY AXChainAssumption DEF NoJob, Job, Blocks, AllCells, Catchup

LEMMA InitIInv == Init => IInv
<1> SUFFICES ASSUME Init PROVE IInv
  OBVIOUS
<1> USE AXChainAssumption
<1>1. TypeOK
  BY NoJobType DEF Init, TypeOK, Blocks, AllCells, Catchup, Values
<1>2. RowsWritten /\ Senders /\ BlockComplete
  BY DEF Init, RowsWritten, Senders, BlockComplete
<1> QED
  BY <1>1, <1>2 DEF IInv

-----------------------------------------------------------------------------
(* Steps that leave the tables and the workers alone.                       *)

LEMMA MainStep ==
  ASSUME IInv, Main \/ SpawnFails \/ LatestFails \/ Accept
  PROVE  IInv'
<1> USE AXChainAssumption DEF IInv
<1>1. CASE Accept
  BY <1>1 DEF Accept, TypeOK, RowsWritten, Senders, BlockComplete, Blocks, dbVars,
     mainVars, workVars, catchVars, budget
<1>2. CASE Start
  <2>1. TypeOK'
    BY <1>2 DEF Start, TypeOK, Blocks, AllCells, Values, dbVars, workVars, budget
  <2>2. RowsWritten' /\ BlockComplete'
    BY <1>2 DEF Start, RowsWritten, BlockComplete, dbVars, workVars
  <2>3. Senders'
    BY <1>2 DEF Start, TypeOK, Senders, Blocks
  <2> QED
    BY <2>1, <2>2, <2>3
<1>3. ASSUME NEW w \in Workers, Spawn(w) PROVE IInv'
  <2>1. TypeOK'
    BY <1>3 DEF Spawn, TypeOK, dbVars, catchVars, budget
  <2>2. RowsWritten' /\ BlockComplete'
    BY <1>3 DEF Spawn, TypeOK, RowsWritten, BlockComplete, dbVars
  <2>3. Senders'
    BY <1>3 DEF Spawn, Senders, catchVars
  <2> QED
    BY <2>1, <2>2, <2>3
<1>4. CASE Latest
  <2>1. TypeOK'
    <3>1. /\ mpc' \in {"latest", "exit", "push"}
          /\ target' \in Blocks \cup {-1}
      BY <1>4 DEF Latest, AfterMessage, TypeOK
    <3>2. cell' \in AllCells /\ errs' \in [AllCells -> Values]
      <4>1. CASE UNCHANGED <<cell, errs>>
        BY <4>1 DEF TypeOK
      <4>2. ASSUME NEW c \in Cells, cell' = c, errs' = [errs EXCEPT ![c] = "none"]
            PROVE  cell' \in AllCells /\ errs' \in [AllCells -> Values]
        <5>1. c \in AllCells /\ "none" \in Values
          BY DEF AllCells, Values
        <5>2. errs \in [AllCells -> Values]
          BY DEF TypeOK
        <5> QED
          BY ONLY <4>2, <5>1, <5>2
      <4> QED
        BY <1>4, <4>1, <4>2 DEF Latest
    <3> QED
      BY <1>4, <3>1, <3>2 DEF Latest, TypeOK, dbVars, workVars, catchVars, budget
  <2>2. RowsWritten' /\ BlockComplete'
    BY <1>4 DEF Latest, RowsWritten, BlockComplete, dbVars, workVars
  <2>3. Senders'
    BY <1>4 DEF Latest, AfterMessage, TypeOK, Senders, Blocks, catchVars
  <2> QED
    BY <2>1, <2>2, <2>3
<1>5. CASE Push
  <2>1. [block |-> block + 1, errs |-> cell] \in Job
    BY <1>5 DEF Push, TypeOK, Senders, Job, Blocks
  <2>2. msgChan' \in Seq(Job) /\ Len(msgChan') <= MaxWorkerQueue
    BY <1>5, <2>1 DEF Push, TypeOK
  <2>3. block + 1 \in Blocks
    BY <1>5 DEF Push, TypeOK, Senders, Blocks
  <2>4. TypeOK'
    BY <1>5, <2>2, <2>3 DEF Push, TypeOK, dbVars, workVars, catchVars, budget
  <2>5. RowsWritten' /\ BlockComplete'
    BY <1>5 DEF Push, RowsWritten, BlockComplete, dbVars, workVars
  <2>6. Senders'
    BY <1>5 DEF Push, TypeOK, Senders, Blocks, catchVars
  <2> QED
    BY <2>4, <2>5, <2>6
<1>6. CASE SpawnFails \/ LatestFails \/ Loop \/ LoopEnds \/ LoopFails \/ Drain \/ Exit \/ Closed
  <2>1. /\ UNCHANGED <<head, dbVars, block, target, cell, errs, msgChan, workVars,
                       catchVars, dropped>>
        /\ errors' \in Nat /\ crashes' \in Nat
    BY <1>6 DEF SpawnFails, LatestFails, Loop, LoopEnds, LoopFails, Drain, Exit, Closed,
       Error, TypeOK, budget
  <2>2. \/ mpc' \in {"latest", "drain", "exit", "closing", "start"}
        \/ mpc = "push" /\ mpc' = "send" /\ block < target
    BY <1>6 DEF SpawnFails, LatestFails, Loop, LoopEnds, LoopFails, Drain, Exit, Closed,
       AfterMessage
  <2>3. TypeOK'
    BY <2>1, <2>2 DEF TypeOK, dbVars, workVars, catchVars
  <2>4. RowsWritten' /\ BlockComplete'
    BY <2>1 DEF RowsWritten, BlockComplete, dbVars, workVars
  <2>5. Senders'
    BY <2>1, <2>2 DEF Senders, catchVars
  <2> QED
    BY <2>3, <2>4, <2>5
<1> QED
  BY <1>1, <1>2, <1>3, <1>4, <1>5, <1>6 DEF Main

LEMMA CatchStep ==
  ASSUME IInv, Catch \/ CatchupFails
  PROVE  IInv'
<1> USE AXChainAssumption DEF IInv
<1>1. UNCHANGED <<head, dbVars, mainVars, workVars, dropped, crashes>>
  BY DEF Catch, CatchupSelect, CatchupVisit, CatchupEnds, CatchupSend, CatchupFails,
     Error, budget
<1>2. RowsWritten' /\ BlockComplete'
  BY <1>1 DEF RowsWritten, BlockComplete, dbVars, workVars
<1>3. CASE CatchupSelect
  <2>1. Smaller(cstart + Chunk, climit) \in 0 .. MaxBlock + 1
        /\ Smaller(cstart + Chunk, climit) <= climit
        /\ cstart <= Smaller(cstart + Chunk, climit)
    BY DEF TypeOK, Senders, Smaller
  <2>2. TypeOK'
    BY <1>1, <1>3, <2>1 DEF CatchupSelect, TypeOK, dbVars, mainVars, workVars, budget
  <2>3. Senders'
    BY <1>1, <1>3, <2>1 DEF CatchupSelect, TypeOK, Senders, mainVars
  <2> QED
    BY <1>2, <2>2, <2>3
<1>4. CASE CatchupVisit \/ CatchupEnds
  <2>1. /\ cpc = "loop"
        /\ UNCHANGED <<errs, msgChan, cend, climit, blockMap, errors>>
        /\ \/ cpc' \in {"off", "select"} /\ UNCHANGED cstart
           \/ cpc' = "send" /\ UNCHANGED cstart /\ cstart < cend
           \/ UNCHANGED cpc /\ cstart' = cstart + 1 /\ cstart < cend
    BY <1>4 DEF CatchupVisit, CatchupEnds, budget
  <2>2. cstart' \in 0 .. MaxBlock + 1
    BY <2>1 DEF TypeOK, Senders
  <2>3. TypeOK'
    BY <1>1, <2>1, <2>2 DEF TypeOK, dbVars, mainVars, workVars
  <2>4. Senders'
    BY <1>1, <2>1 DEF TypeOK, Senders, mainVars
  <2> QED
    BY <1>2, <2>3, <2>4
<1>5. CASE CatchupSend
  <2>1. [block |-> cstart, errs |-> Catchup] \in Job
    BY <1>5 DEF CatchupSend, TypeOK, Senders, Job, Blocks, AllCells, Catchup
  <2>2. msgChan' \in Seq(Job) /\ Len(msgChan') <= MaxWorkerQueue
    BY <1>5, <2>1 DEF CatchupSend, TypeOK
  <2>3. TypeOK'
    BY <1>1, <1>5, <2>2 DEF CatchupSend, TypeOK, Senders, dbVars, mainVars, workVars, budget
  <2>4. Senders'
    BY <1>1, <1>5 DEF CatchupSend, TypeOK, Senders, mainVars
  <2> QED
    BY <1>2, <2>3, <2>4
<1>6. CASE CatchupFails
  <2>1. PICK k \in ErrorKinds : Error(k) /\ errs' = [errs EXCEPT ![Catchup] = k]
    BY <1>6 DEF CatchupFails
  <2>2. k \in Values
    BY DEF Values
  <2>3. errs' \in [AllCells -> Values]
    BY <2>1, <2>2 DEF TypeOK
  <2>4. errors' \in Nat
    BY <2>1 DEF Error, TypeOK
  <2>5. TypeOK'
    BY <1>1, <1>6, <2>3, <2>4 DEF CatchupFails, TypeOK, dbVars, mainVars, workVars
  <2>6. Senders'
    BY <1>1, <1>6 DEF CatchupFails, Senders, mainVars
  <2> QED
    BY <1>2, <2>5, <2>6
<1> QED
  BY <1>3, <1>4, <1>5, <1>6 DEF Catch

-----------------------------------------------------------------------------
(* The workers.                                                             *)

LEMMA WorkerStep ==
  ASSUME IInv, NEW w \in Workers, Work(w) \/ WorkerFails(w) \/ WorkerEnds(w)
  PROVE  IInv'
<1> USE AXChainAssumption DEF IInv
<1>1. UNCHANGED <<head, mainVars, catchVars, crashes>>
  BY DEF Work, Receive, Skip, ReadBlock, WriteRow, UpdateBlock, WorkerFails, WorkerEnds,
     Error, budget
<1>2. Senders'
  BY <1>1 DEF Senders, mainVars, catchVars
<1>3. /\ job[w] \in Job /\ job[w].block \in Blocks /\ job[w].errs \in AllCells
      /\ part[w] \in 0 .. Parts
  BY DEF TypeOK, Job
<1>4. CASE Receive(w)
  <2>1. Head(msgChan) \in Job /\ Tail(msgChan) \in Seq(Job) /\ Len(Tail(msgChan)) <= MaxWorkerQueue
    BY <1>4 DEF Receive, TypeOK
  <2>2. TypeOK'
    BY <1>1, <1>4, <2>1 DEF Receive, TypeOK, dbVars, mainVars, catchVars, budget
  <2>3. BlockComplete'
    BY <1>4 DEF Receive, BlockComplete, dbVars
  <2>4. RowsWritten'
    BY <1>4 DEF Receive, TypeOK, RowsWritten, dbVars
  <2> QED
    BY <1>2, <2>2, <2>3, <2>4
<1>5. CASE ReadBlock(w) \/ WorkerEnds(w)
  <2>1. TypeOK'
    BY <1>1, <1>5 DEF ReadBlock, WorkerEnds, TypeOK, dbVars, mainVars, catchVars, budget
  <2>2. BlockComplete'
    BY <1>5 DEF ReadBlock, WorkerEnds, BlockComplete, dbVars
  <2>3. RowsWritten'
    BY <1>5 DEF ReadBlock, WorkerEnds, TypeOK, RowsWritten, dbVars
  <2> QED
    BY <1>2, <2>1, <2>2, <2>3
<1>6. CASE WriteRow(w)
  <2>1. wpc[w] = "row" /\ part[w] < Parts /\ part[w] + 1 \in 1 .. Parts
    BY <1>3, <1>6 DEF WriteRow, RowsWritten
  <2>2. txPool' = txPool \cup {<<job[w].block, part[w] + 1>>}
        /\ txPool' \subseteq Blocks \X (1 .. Parts)
    BY <1>3, <1>6, <2>1 DEF WriteRow, TypeOK
  <2>3. part' = [part EXCEPT ![w] = part[w] + 1] /\ part' \in [Workers -> 0 .. Parts]
    BY <1>6, <2>1 DEF WriteRow, TypeOK
  <2>4. TypeOK'
    BY <1>1, <1>6, <2>2, <2>3 DEF WriteRow, TypeOK, mainVars, catchVars, budget
  <2>5. BlockComplete'
    BY <1>6, <2>2 DEF WriteRow, BlockComplete
  <2>6. RowsWritten'
    <3> SUFFICES ASSUME NEW v \in Workers
                 PROVE  /\ \A j \in 1 .. part'[v] : <<job'[v].block, j>> \in txPool'
                        /\ wpc'[v] = "row" => part'[v] < Parts
                        /\ wpc'[v] = "mark" => part'[v] = Parts
                        /\ wpc'[v] \in {"off", "idle", "read"} => part'[v] = 0
      BY DEF RowsWritten
    <3>1. CASE v = w
      <4>1. part'[w] = part[w] + 1 /\ job'[w] = job[w]
            /\ wpc'[w] = IF part[w] + 1 = Parts THEN "mark" ELSE "row"
        BY <1>6, <2>3 DEF WriteRow, TypeOK
      <4>2. \A j \in 1 .. part[w] + 1 : j \in 1 .. part[w] \/ j = part[w] + 1
        BY <1>3
      <4> QED
        BY <2>1, <2>2, <3>1, <4>1, <4>2 DEF RowsWritten
    <3>2. CASE v # w
      BY <1>6, <2>2, <3>2 DEF WriteRow, TypeOK, RowsWritten
    <3> QED
      BY <3>1, <3>2
  <2> QED
    BY <1>2, <2>4, <2>5, <2>6
<1>7. CASE Skip(w) \/ UpdateBlock(w) \/ WorkerFails(w)
  <2>1. /\ wpc' = [wpc EXCEPT ![w] = "idle"]
        /\ job' = [job EXCEPT ![w] = NoJob]
        /\ part' = [part EXCEPT ![w] = 0]
        /\ UNCHANGED msgChan
    BY <1>7 DEF Skip, UpdateBlock, WorkerFails, Release
  <2>2. dropped' \subseteq Blocks /\ errors' \in Nat
    BY <1>3, <1>7 DEF Skip, UpdateBlock, WorkerFails, Error, TypeOK, budget
  <2>3. errs' \in [AllCells -> Values]
    BY <1>3, <1>7 DEF Skip, UpdateBlock, WorkerFails, Error, TypeOK, Values
  <2>4. \/ UNCHANGED <<txPool, cvmBlocks>>
        \/ /\ wpc[w] = "row" /\ UNCHANGED cvmBlocks
           /\ txPool' = txPool \cup {<<job[w].block, part[w] + 1>>}
        \/ /\ wpc[w] = "mark" /\ UNCHANGED txPool
           /\ cvmBlocks' = cvmBlocks \cup {job[w].block}
    BY <1>7 DEF Skip, UpdateBlock, WorkerFails, dbVars
  <2>5. wpc[w] = "row" => part[w] + 1 \in 1 .. Parts
    BY <1>3 DEF RowsWritten
  <2>6. wpc[w] = "mark" => \A j \in 1 .. Parts : <<job[w].block, j>> \in txPool
    BY <1>3 DEF RowsWritten
  <2>7. txPool' \subseteq Blocks \X (1 .. Parts) /\ cvmBlocks' \subseteq Blocks
    BY <1>3, <2>4, <2>5 DEF TypeOK
  <2>8. TypeOK'
    BY <1>1, <2>1, <2>2, <2>3, <2>7, NoJobType DEF TypeOK, mainVars, catchVars
  <2>9. BlockComplete'
    BY <2>4, <2>6 DEF BlockComplete
  <2>10. RowsWritten'
    <3>1. txPool \subseteq txPool'
      BY <2>4
    <3> SUFFICES ASSUME NEW v \in Workers
                 PROVE  /\ \A j \in 1 .. part'[v] : <<job'[v].block, j>> \in txPool'
                        /\ wpc'[v] = "row" => part'[v] < Parts
                        /\ wpc'[v] = "mark" => part'[v] = Parts
                        /\ wpc'[v] \in {"off", "idle", "read"} => part'[v] = 0
      BY DEF RowsWritten
    <3>2. CASE v = w
      BY <2>1, <3>2 DEF TypeOK
    <3>3. CASE v # w
      BY <2>1, <3>1, <3>3 DEF TypeOK, RowsWritten
    <3> QED
      BY <3>2, <3>3
  <2> QED
    BY <1>2, <2>8, <2>9, <2>10
<1> QED
  BY <1>4, <1>5, <1>6, <1>7 DEF Work

LEMMA CrashStep ==
  ASSUME IInv, Crash
  PROVE  IInv'
<1> USE AXChainAssumption DEF IInv
<1>1. TypeOK'
  BY NoJobType DEF Crash, TypeOK, Blocks, AllCells, Catchup, Values, dbVars
<1>2. RowsWritten' /\ Senders' /\ BlockComplete'
  BY DEF Crash, RowsWritten, Senders, BlockComplete, dbVars
<1> QED
  BY <1>1, <1>2

LEMMA StepIInv == IInv /\ [Next]_vars => IInv'
<1> SUFFICES ASSUME IInv, [Next]_vars PROVE IInv'
  OBVIOUS
<1>1. CASE UNCHANGED vars
  BY <1>1 DEF IInv, TypeOK, RowsWritten, Senders, BlockComplete, vars, dbVars, mainVars,
     workVars, catchVars, budget
<1>2. CASE Next
  BY <1>2, MainStep, CatchStep, WorkerStep, CrashStep DEF Next
<1> QED
  BY <1>1, <1>2

-----------------------------------------------------------------------------
\* The inductive invariant.
THEOREM AXChainInvariant == Spec => []IInv
BY InitIInv, StepIInv, PTL DEF Spec

\* Types, block numbers in range and the channel within its capacity.
THEOREM AXChainTypeOK == Spec => []TypeOK
<1>1. IInv => TypeOK
  BY DEF IInv
<1> QED
  BY <1>1, AXChainInvariant, PTL

\* blockProcessor records a block in cvm_blocks only when tx_pool has all its rows.
THEOREM AXChainBlockComplete == Spec => []BlockComplete
<1>1. IInv => BlockComplete
  BY DEF IInv
<1> QED
  BY <1>1, AXChainInvariant, PTL

-----------------------------------------------------------------------------
(* No block is forgotten.                                                   *)

\* What the blocks of the channel become when one is sent and one received.
LEMMA QueuedSend ==
  ASSUME NEW q \in Seq(Job), NEW e \in Job
  PROVE  {Append(q, e)[j].block : j \in 1 .. Len(Append(q, e))}
           = {q[j].block : j \in 1 .. Len(q)} \cup {e.block}
OBVIOUS

LEMMA QueuedReceive ==
  ASSUME NEW q \in Seq(Job), q # << >>
  PROVE  {q[j].block : j \in 1 .. Len(q)}
           = {Tail(q)[j].block : j \in 1 .. Len(Tail(q))} \cup {Head(q).block}
OBVIOUS

\* runProcessor counts the rows of cvm_blocks: with as many as the highest
\* block and one, none is missing below it.
LEMMA NoGap ==
  ASSUME NEW S \in SUBSET Blocks, NEW top \in S \cup {-1}, \A b \in S : b <= top,
         ~(Cardinality(S) < top + 1)
  PROVE  S = 0 .. top
<1> USE AXChainAssumption DEF Blocks
<1>1. top \in Int /\ -1 <= top
  OBVIOUS
<1>2. S \subseteq 0 .. top
  OBVIOUS
<1>3. IsFiniteSet(0 .. top) /\ Cardinality(0 .. top) = top + 1
  BY <1>1, FS_Interval
<1>4. IsFiniteSet(S) /\ Cardinality(S) <= Cardinality(0 .. top)
      /\ (Cardinality(S) = Cardinality(0 .. top) => S = 0 .. top)
  BY <1>2, <1>3, FS_Subset
<1>5. Cardinality(S) \in Nat
  BY <1>4, FS_CardinalityType
<1> QED
  BY <1>1, <1>3, <1>4, <1>5

\* A block accounted for stays so when each set loses only what another gains.
Accounted == cvmBlocks \cup Pending \cup dropped

LEMMA AccountedKept ==
  ASSUME TypeOK, NothingForgotten,
         Running' /\ errs'[Catchup] = "none" => Running /\ errs[Catchup] = "none",
         block' = block, Accounted \subseteq Accounted'
  PROVE  NothingForgotten'
BY DEF NothingForgotten, Accounted, Running

\* Catch-up errors last: only a new run clears the cell.
LEMMA CatchupCell ==
  ASSUME TypeOK, NEW c \in AllCells, NEW k \in Values,
         errs' = [errs EXCEPT ![c] = k], k = "none" => c # Catchup
  PROVE  errs'[Catchup] = "none" => errs[Catchup] = "none"
BY DEF TypeOK, AllCells, Catchup

LEMMA MainForgets ==
  ASSUME IInv, NothingForgotten, CatchupPlace, Main \/ SpawnFails \/ LatestFails \/ Accept
  PROVE  NothingForgotten' /\ CatchupPlace'
<1> USE AXChainAssumption DEF IInv
<1>1. CASE Start
  <2>1. PICK top \in cvmBlocks \cup {-1} :
           /\ \A b \in cvmBlocks : b <= top
           /\ block' = top /\ climit' = top + 1
           /\ cpc' = IF Cardinality(cvmBlocks) < top + 1 THEN "select" ELSE "off"
    BY <1>1 DEF Start
  <2>2. cvmBlocks \subseteq Blocks /\ top \in Int /\ UNCHANGED cvmBlocks
    BY <1>1 DEF TypeOK, Start, Blocks, dbVars
  <2>3. CASE Cardinality(cvmBlocks) < top + 1
    <3>1. ToVisit' = {b \in Blocks : b <= top}
      BY <1>1, <2>1, <2>2, <2>3 DEF Start, ToVisit, Blocks
    <3> QED
      BY <1>1, <2>1, <3>1 DEF Start, NothingForgotten, Pending, CatchupPlace
  <2>4. CASE ~(Cardinality(cvmBlocks) < top + 1)
    <3>1. cvmBlocks = 0 .. top
      BY <2>1, <2>2, <2>4, NoGap
    <3> QED
      BY <1>1, <2>1, <2>2, <3>1 DEF Start, NothingForgotten, CatchupPlace, Blocks
  <2> QED
    BY <2>3, <2>4
<1>2. CASE Push
  <2>1. [block |-> block + 1, errs |-> cell] \in Job
    BY <1>2 DEF Push, TypeOK, Senders, Job, Blocks
  <2>2. Queued' = Queued \cup {block + 1}
    BY <1>2, <2>1, QueuedSend DEF Push, TypeOK, Queued
  <2>3. UNCHANGED <<InHand, ToVisit, cvmBlocks, dropped>>
    BY <1>2 DEF Push, InHand, ToVisit, workVars, catchVars, dbVars
  <2>4. NothingForgotten'
    <3> SUFFICES ASSUME errs'[Catchup] = "none", NEW b \in Blocks, b <= block'
                 PROVE  b \in (cvmBlocks \cup Pending \cup dropped)'
      BY DEF NothingForgotten
    <3>1. CASE b = block + 1
      BY <2>2, <3>1 DEF Pending
    <3>2. CASE b <= block
      BY <1>2, <2>2, <2>3, <3>2 DEF Push, NothingForgotten, Running, Pending
    <3> QED
      BY <1>2, <3>1, <3>2 DEF Push, TypeOK, Blocks
  <2> QED
    BY <1>2, <2>4 DEF Push, CatchupPlace, Running, catchVars, dbVars
<1>3. ASSUME NEW w \in Workers, Spawn(w) PROVE NothingForgotten' /\ CatchupPlace'
  <2>1. UNCHANGED <<Queued, InHand, ToVisit>>
    BY <1>3 DEF Spawn, TypeOK, Queued, InHand, ToVisit, catchVars
  <2> QED
    BY <1>3, <2>1, AccountedKept
       DEF Spawn, Accounted, Pending, CatchupPlace, Running, catchVars, dbVars
<1>4. CASE Latest \/ LoopEnds \/ LoopFails \/ Loop \/ Drain \/ Exit \/ Closed \/ SpawnFails
           \/ LatestFails \/ Accept
  <2>1. UNCHANGED <<Queued, InHand, ToVisit, cvmBlocks, dropped, block, cpc, cstart, cend,
                    blockMap>>
    BY <1>4 DEF Latest, LoopEnds, LoopFails, Loop, Drain, Exit, Closed, SpawnFails,
       LatestFails, Accept, Queued, InHand, ToVisit, mainVars, workVars, catchVars, dbVars
  <2>2. Running' => Running
    BY <1>4 DEF Latest, LoopEnds, LoopFails, Loop, Drain, Exit, Closed, SpawnFails,
       LatestFails, Accept, Running, mainVars
  <2>3. errs'[Catchup] = "none" => errs[Catchup] = "none"
    BY <1>4, CatchupCell DEF Latest, LoopEnds, LoopFails, Loop, Drain, Exit, Closed,
       SpawnFails, LatestFails, Accept, AllCells, Catchup, Values
  <2> QED
    BY <2>1, <2>2, <2>3, AccountedKept DEF Accounted, Pending, CatchupPlace
<1> QED
  BY <1>1, <1>2, <1>3, <1>4 DEF Main

LEMMA CatchForgets ==
  ASSUME IInv, NothingForgotten, CatchupPlace, Catch \/ CatchupFails
  PROVE  NothingForgotten' /\ CatchupPlace'
<1> USE AXChainAssumption DEF IInv
<1>1. UNCHANGED <<InHand, cvmBlocks, dropped, block, mpc, climit>>
  BY DEF Catch, CatchupSelect, CatchupVisit, CatchupEnds, CatchupSend, CatchupFails,
     InHand, mainVars, workVars, dbVars
<1>2. CASE CatchupSelect
  <2>1. UNCHANGED <<Queued, errs, cstart>>
    BY <1>2 DEF CatchupSelect, Queued
  <2>2. Running /\ errs[Catchup] = "none" => ToVisit \subseteq ToVisit'
    BY <1>1, <1>2, <2>1
       DEF CatchupSelect, CatchupPlace, ToVisit, Running, Stopped, TypeOK, Blocks
  <2>3. NothingForgotten'
    BY <1>1, <2>1, <2>2 DEF NothingForgotten, Pending, Running
  <2> QED
    BY <1>1, <1>2, <2>3 DEF CatchupSelect, CatchupPlace
<1>3. CASE CatchupVisit
  <2>1. UNCHANGED <<Queued, errs, blockMap, cend>>
    BY <1>3 DEF CatchupVisit, Queued
  <2>2. ToVisit \subseteq ToVisit' \cup cvmBlocks
    BY <1>1, <1>3 DEF CatchupVisit, CatchupPlace, ToVisit, TypeOK, Blocks
  <2>3. NothingForgotten'
    BY <1>1, <2>1, <2>2, AccountedKept DEF Accounted, Pending, Running
  <2> QED
    BY <1>1, <1>3, <2>1, <2>3 DEF CatchupVisit, CatchupPlace
<1>4. CASE CatchupEnds
  <2>1. UNCHANGED <<Queued, errs, blockMap, cstart, cend>>
    BY <1>4 DEF CatchupEnds, Queued
  <2>2. errs[Catchup] = "none" => ToVisit \subseteq ToVisit'
    BY <1>1, <1>4 DEF CatchupEnds, ToVisit
  <2>3. NothingForgotten'
    BY <1>1, <2>1, <2>2 DEF NothingForgotten, Pending, Running
  <2>4. CatchupPlace'
    BY <1>1, <1>4, <2>1
       DEF CatchupEnds, CatchupPlace, Running, Stopped, Senders, TypeOK
  <2> QED
    BY <2>3, <2>4
<1>5. CASE CatchupSend
  <2>1. [block |-> cstart, errs |-> Catchup] \in Job
    BY <1>5 DEF CatchupSend, TypeOK, Senders, Job, Blocks, AllCells, Catchup
  <2>2. Queued' = Queued \cup {cstart}
    BY <1>5, <2>1, QueuedSend DEF CatchupSend, TypeOK, Queued
  <2>3. ToVisit \subseteq ToVisit' \cup {cstart}
    BY <1>1, <1>5 DEF CatchupSend, ToVisit, TypeOK, Blocks
  <2>4. NothingForgotten'
    BY <1>1, <1>5, <2>2, <2>3, AccountedKept DEF CatchupSend, Accounted, Pending, Running
  <2> QED
    BY <1>1, <1>5, <2>4 DEF CatchupSend, CatchupPlace
<1>6. CASE CatchupFails
  <2>1. errs'[Catchup] # "none"
    BY <1>6 DEF CatchupFails, TypeOK, AllCells, Catchup
  <2> QED
    BY <1>1, <1>6, <2>1 DEF CatchupFails, NothingForgotten, CatchupPlace
<1> QED
  BY <1>2, <1>3, <1>4, <1>5, <1>6 DEF Catch

LEMMA WorkerForgets ==
  ASSUME IInv, NothingForgotten, CatchupPlace,
         NEW w \in Workers, Work(w) \/ WorkerFails(w) \/ WorkerEnds(w)
  PROVE  NothingForgotten' /\ CatchupPlace'
<1> USE AXChainAssumption DEF IInv
<1>1. /\ UNCHANGED <<ToVisit, block, mpc, cpc, cstart, cend, blockMap>>
      /\ cvmBlocks \subseteq cvmBlocks' /\ dropped \subseteq dropped'
  BY DEF Work, Receive, Skip, ReadBlock, WriteRow, UpdateBlock, WorkerFails, WorkerEnds,
     ToVisit, mainVars, catchVars, dbVars
<1>2. CatchupPlace'
  BY <1>1 DEF CatchupPlace, Running
<1>3. errs'[Catchup] = "none" => errs[Catchup] = "none"
  BY CatchupCell DEF Work, Receive, Skip, ReadBlock, WriteRow, UpdateBlock, WorkerFails,
     WorkerEnds, TypeOK, Job, Values
<1>4. SUFFICES Accounted \subseteq Accounted'
  BY <1>1, <1>2, <1>3, AccountedKept DEF Running
<1>5. CASE Receive(w)
  <2>1. Queued = Queued' \cup {Head(msgChan).block}
    BY <1>5, QueuedReceive DEF Receive, TypeOK, Queued
  <2>2. job'[w] = Head(msgChan) /\ wpc'[w] = "read"
        /\ \A v \in Workers : v # w => job'[v] = job[v] /\ wpc'[v] = wpc[v]
    BY <1>5 DEF Receive, TypeOK
  <2>3. InHand \cup {Head(msgChan).block} \subseteq InHand'
    BY <1>5, <2>2 DEF Receive, InHand
  <2> QED
    BY <1>1, <2>1, <2>3 DEF Accounted, Pending
<1>6. CASE ReadBlock(w) \/ WriteRow(w) \/ WorkerEnds(w)
  <2>1. /\ UNCHANGED <<msgChan, job>>
        /\ {v \in Workers : wpc'[v] \notin {"off", "idle"}}
             = {v \in Workers : wpc[v] \notin {"off", "idle"}}
    BY <1>6 DEF ReadBlock, WriteRow, WorkerEnds, TypeOK
  <2>2. UNCHANGED <<Queued, InHand>>
    BY <2>1 DEF Queued, InHand
  <2> QED
    BY <1>1, <2>2 DEF Accounted, Pending
<1>7. CASE Skip(w) \/ UpdateBlock(w) \/ WorkerFails(w)
  <2>1. UNCHANGED Queued /\ job[w].block \in cvmBlocks' \cup dropped'
    BY <1>7 DEF Skip, UpdateBlock, WorkerFails, Queued
  <2>2. \A v \in Workers : v # w => job'[v] = job[v] /\ wpc'[v] = wpc[v]
    BY <1>7 DEF Skip, UpdateBlock, WorkerFails, Release, TypeOK
  <2>3. InHand \subseteq InHand' \cup {job[w].block}
    BY <2>2 DEF InHand
  <2> QED
    BY <1>1, <2>1, <2>3 DEF Accounted, Pending
<1> QED
  BY <1>5, <1>6, <1>7 DEF Work

LEMMA StepForgets ==
  IInv /\ NothingForgotten /\ CatchupPlace /\ [Next]_vars => NothingForgotten' /\ CatchupPlace'
<1> SUFFICES ASSUME IInv, NothingForgotten, CatchupPlace, [Next]_vars
             PROVE  NothingForgotten' /\ CatchupPlace'
  OBVIOUS
<1>1. CASE Crash
  BY <1>1 DEF Crash, NothingForgotten, CatchupPlace, Running
<1>2. CASE UNCHANGED vars
  BY <1>2 DEF NothingForgotten, CatchupPlace, Running, Pending, Queued, InHand, ToVisit,
     vars, dbVars, mainVars, workVars, catchVars
<1> QED
  BY <1>1, <1>2, MainForgets, CatchForgets, WorkerForgets DEF Next

\* While a run goes on, a block it has passed is recorded, queued, in a worker's
\* hand, still to be visited by the catch-up, or was given up after an error
\* (runProcessor, catchupBlock, blockProcessor).
THEOREM AXChainNothingForgotten == Spec => []NothingForgotten
<1>1. Init => NothingForgotten /\ CatchupPlace
  BY DEF Init, NothingForgotten, CatchupPlace, Running
<1> QED
  BY <1>1, StepForgets, AXChainInvariant, PTL DEF Spec
=============================================================================
