---------------------------- MODULE ReplayProofs ----------------------------
(***************************************************************************)
(* Proofs about Replay, for any chains, rows, workers and queue size.      *)
(***************************************************************************)
EXTENDS Replay, TLAPS

\* The parts of vars, so that a proof about a step need not unfold them again.
USE DEF mainVars, readerVars, workVars

LEMMA InitIInv == Init => IInv
<1> SUFFICES ASSUME Init PROVE IInv
  OBVIOUS
<1> USE ReplayAssumption DEF Init
<1>1. TypeOK
  BY DEF TypeOK
<1>2. ReadersLaunched
  <2>1. \A k \in ContractReaders : <<AXchain, k>> \in Topics
    BY DEF Topics
  <2> QED
    BY <2>1 DEF ReadersLaunched
<1>3. EndDetected /\ AtRow
  BY DEF EndDetected, AtRow
<1>4. Progress
  BY DEF Progress
<1> QED
  BY <1>1, <1>2, <1>3, <1>4 DEF IInv

-----------------------------------------------------------------------------
\* A job of a topic's current row.
LEMMA JobType ==
  ASSUME TypeOK, NEW t \in Topics, pos[t] <= Len(Pool[t])
  PROVE  [row |-> Pool[t][pos[t]], topic |-> t] \in Job
<1>1. Pool[t] \in Seq(Rows)
  BY ReplayAssumption
<1>2. pos[t] \in 1 .. Len(Pool[t])
  BY <1>1 DEF TypeOK
<1> QED
  BY <1>1, <1>2 DEF Job

LEMMA NextTypeOK == IInv /\ [Next]_vars => TypeOK'
<1> SUFFICES ASSUME IInv, [Next]_vars PROVE TypeOK'
  OBVIOUS
<1> USE ReplayAssumption DEF IInv, TypeOK, Ended
<1>1. CASE Connect
  BY <1>1 DEF Connect
<1>2. CASE ConnectFails
  BY <1>2 DEF ConnectFails, MayFail
<1>3. ASSUME NEW c \in Chains, handleReader(c) PROVE TypeOK'
  BY <1>3 DEF handleReader, Launch
<1>4. ASSUME NEW c \in Chains, handleReaderFails(c) PROVE TypeOK'
  BY <1>4 DEF handleReaderFails, MayFail
<1>5. CASE handleCReader \/ handleCReaderFails
  BY <1>5 DEF handleCReader, handleCReaderFails, Launch, MayFail
<1>6. CASE LoadWaitGroup \/ JobCnt \/ Report \/ ReadError
  BY <1>6 DEF LoadWaitGroup, JobCnt, Report, ReadError
<1>7. ASSUME NEW t \in Topics, SelectIds(t) \/ SelectIdsFails(t) \/ NextRow(t)
                               \/ NextRowFails(t) \/ ReaderStops(t)
      PROVE TypeOK'
  <2>1. CASE SelectIds(t) \/ NextRow(t) \/ ReaderStops(t)
    BY <2>1 DEF SelectIds, NextRow, ReaderStops, Ends
  <2>2. CASE SelectIdsFails(t)
    BY <2>2 DEF SelectIdsFails, Ends, MayFail
  <2>3. CASE NextRowFails(t)
    BY <2>3 DEF NextRowFails, Ends
  <2> QED
    BY <1>7, <2>1, <2>2, <2>3
<1>8. ASSUME NEW t \in Topics, Enque(t) PROVE TypeOK'
  <2>1. [row |-> Pool[t][pos[t]], topic |-> t] \in Job
    BY <1>8, JobType DEF Enque, AtRow
  <2>2. jobCh' \in Seq(Job) /\ Len(jobCh') <= QueueSize
    BY <1>8, <2>1 DEF Enque
  <2>3. pos' \in [Topics -> Nat \ {0}]
    BY <1>8 DEF Enque
  <2> QED
    BY <1>8, <2>2, <2>3 DEF Enque
<1>9. ASSUME NEW w \in Workers, Take(w) PROVE TypeOK'
  <2>1. Head(jobCh) \in Job /\ Tail(jobCh) \in Seq(Job) /\ Len(Tail(jobCh)) <= QueueSize
    BY <1>9 DEF Take
  <2> QED
    BY <1>9, <2>1 DEF Take
<1>10. ASSUME NEW w \in Workers, Consume(w) PROVE TypeOK'
  <2>1. job[w].row \in Rows
    BY <1>10 DEF Consume, Job
  <2>2. job' \in [Workers -> Job \cup {NoJob}]
    BY <1>10 DEF Consume, Release
  <2> QED
    BY <1>10, <2>1, <2>2 DEF Consume
<1>11. ASSUME NEW w \in Workers, ConsumeFails(w) \/ ConsumeRefuses(w) \/ ParseFails(w) PROVE TypeOK'
  <2>1. job[w].row \in Rows
    BY <1>11 DEF ConsumeFails, ConsumeRefuses, ParseFails, Job
  <2>2. job' \in [Workers -> Job \cup {NoJob}]
    BY <1>11 DEF ConsumeFails, ConsumeRefuses, ParseFails, Release
  <2>3. CASE ConsumeFails(w) \/ ConsumeRefuses(w)
    BY <2>2, <2>3 DEF ConsumeFails, ConsumeRefuses, MayFail
  <2>4. CASE ParseFails(w)
    BY <2>1, <2>2, <2>4 DEF ParseFails
  <2> QED
    BY <1>11, <2>3, <2>4
<1>12. CASE UNCHANGED vars
  BY <1>12 DEF vars
<1> QED
  BY <1>1, <1>2, <1>3, <1>4, <1>5, <1>6, <1>7, <1>8, <1>9, <1>10, <1>11, <1>12
     DEF Next, Main, Reader, Work, Finished

-----------------------------------------------------------------------------
\* A reader that is started is not off again, one that is done stays done, and
\* readers leave Start alone.
LEMMA ReaderSteps ==
  ASSUME IInv, NEW t \in Topics, Reader(t) \/ SelectIdsFails(t)
  PROVE  /\ UNCHANGED mainVars
         /\ rpc[t] \notin {"off", "done"}
         /\ rpc'[t] # "off"
         /\ \A u \in Topics \ {t} : rpc'[u] = rpc[u]
BY DEF IInv, TypeOK, Reader, SelectIds, SelectIdsFails, NextRow, NextRowFails, ReaderStops,
       Enque, Ends

LEMMA WorkSteps ==
  ASSUME NEW w \in Workers, Work(w) \/ ConsumeFails(w)
  PROVE  UNCHANGED <<mainVars, readerVars>>
BY DEF Work, Take, Consume, ConsumeFails, ConsumeRefuses, ParseFails

LEMMA NextReadersLaunched == IInv /\ [Next]_vars => ReadersLaunched'
<1> SUFFICES ASSUME IInv, [Next]_vars PROVE ReadersLaunched'
  OBVIOUS
<1> USE ReplayAssumption DEF ReadersLaunched
<1>0. /\ \A k \in ContractReaders : <<AXchain, k>> \in Topics
      /\ \A c \in Chains : \A k \in ChainReaders : <<c, k>> \in Topics
  BY DEF Topics
<1>1. ASSUME NEW c \in Chains, handleReader(c) PROVE ReadersLaunched'
  BY <1>0, <1>1 DEF handleReader, Launch, IInv, TypeOK
<1>2. CASE handleCReader
  <2>1. ASSUME NEW t \in Topics PROVE rpc'[t] # "off"
    <3>1. CASE t \in {AXchain} \X ContractReaders
      BY <1>2, <3>1 DEF handleCReader, Launch
    <3>2. CASE t \in Chains \X ChainReaders
      <4>1. t[1] \in Chains \ unstarted /\ t[2] \in ChainReaders /\ t = <<t[1], t[2]>>
        BY <1>2, <3>2 DEF handleCReader
      <4>2. rpc[t] # "off"
        BY <4>1 DEF IInv
      <4> QED
        BY <1>2, <4>2 DEF handleCReader, Launch
    <3> QED
      BY <3>1, <3>2 DEF Topics
  <2> QED
    BY <1>0, <1>2, <2>1 DEF handleCReader
<1>3. CASE Connect \/ ConnectFails \/ handleCReaderFails \/ LoadWaitGroup \/ JobCnt \/ Report
           \/ ReadError
  BY <1>3 DEF Connect, ConnectFails, handleCReaderFails, LoadWaitGroup, JobCnt, Report,
              ReadError, IInv
<1>4. ASSUME NEW c \in Chains, handleReaderFails(c) PROVE ReadersLaunched'
  BY <1>4 DEF handleReaderFails, IInv
<1>5. ASSUME NEW t \in Topics, Reader(t) \/ SelectIdsFails(t) PROVE ReadersLaunched'
  <2>1. /\ UNCHANGED mainVars
        /\ rpc[t] \notin {"off", "done"} /\ rpc'[t] # "off"
        /\ \A u \in Topics \ {t} : rpc'[u] = rpc[u]
    BY <1>5, ReaderSteps
  <2> QED
    BY <1>0, <2>1 DEF IInv
<1>6. ASSUME NEW w \in Workers, Work(w) \/ ConsumeFails(w) PROVE ReadersLaunched'
  BY <1>6, WorkSteps DEF IInv
<1>7. CASE UNCHANGED vars
  BY <1>7 DEF vars, IInv
<1> QED
  BY <1>1, <1>2, <1>3, <1>4, <1>5, <1>6, <1>7 DEF Next, Main, Finished

\* Once no reader is left, none comes back and nothing is sent.
LEMMA NextEndDetected == IInv /\ [Next]_vars => EndDetected'
<1> SUFFICES ASSUME IInv, [Next]_vars PROVE EndDetected'
  OBVIOUS
<1> USE DEF EndDetected
<1>1. CASE LoadWaitGroup
  <2>1. \A t \in Topics : rpc[t] # "off"
    BY <1>1 DEF LoadWaitGroup, IInv, ReadersLaunched
  <2>2. \A t \in Topics : rpc[t] = "done"
    BY <1>1, <2>1 DEF LoadWaitGroup, WaitGroup
  <2> QED
    BY <1>1, <2>2 DEF LoadWaitGroup
<1>2. CASE JobCnt
  BY <1>2 DEF JobCnt, IInv
<1>3. CASE Connect \/ ConnectFails \/ handleCReader \/ handleCReaderFails \/ Report \/ ReadError
  BY <1>3 DEF Connect, ConnectFails, handleCReader, handleCReaderFails, Report, ReadError
<1>4. ASSUME NEW c \in Chains, handleReader(c) \/ handleReaderFails(c) PROVE EndDetected'
  BY <1>4 DEF handleReader, handleReaderFails
<1>5. ASSUME NEW t \in Topics, Reader(t) \/ SelectIdsFails(t) PROVE EndDetected'
  BY <1>5, ReaderSteps DEF IInv
<1>6. ASSUME NEW w \in Workers, Work(w) \/ ConsumeFails(w) PROVE EndDetected'
  <2>1. mpc = "report" => jobCh' = << >>
    BY <1>6 DEF Work, Take, Consume, ConsumeFails, ConsumeRefuses, ParseFails, IInv
  <2> QED
    BY <1>6, <2>1, WorkSteps DEF IInv
<1>7. CASE UNCHANGED vars
  BY <1>7 DEF vars, IInv
<1> QED
  BY <1>1, <1>2, <1>3, <1>4, <1>5, <1>6, <1>7 DEF Next, Main, Finished

LEMMA NextAtRow == IInv /\ [Next]_vars => AtRow'
<1> SUFFICES ASSUME IInv, [Next]_vars PROVE AtRow'
  OBVIOUS
<1> USE DEF AtRow
<1>1. ASSUME NEW T, Launch(T), UNCHANGED pos PROVE AtRow'
  BY <1>1 DEF Launch, IInv
<1>2. ASSUME NEW t \in Topics, Reader(t) \/ SelectIdsFails(t) PROVE AtRow'
  BY <1>2 DEF IInv, TypeOK, Reader, SelectIds, SelectIdsFails, NextRow, NextRowFails,
              ReaderStops, Enque, Ends
<1>3. CASE UNCHANGED readerVars
  BY <1>3 DEF IInv
<1> QED
  BY <1>1, <1>2, <1>3, WorkSteps
     DEF Next, Main, Connect, ConnectFails, handleReader, handleReaderFails, handleCReader,
         handleCReaderFails, LoadWaitGroup, JobCnt, Report, ReadError, Finished, vars

-----------------------------------------------------------------------------
(* What a row goes through when nothing fails.                              *)

\* Sending a row leaves the others in the queue and adds it.
LEMMA EnqueHands ==
  ASSUME IInv, NEW t \in Topics, Enque(t)
  PROVE  Handed \subseteq Handed' /\ Pool[t][pos[t]] \in Handed'
<1> DEFINE new == [row |-> Pool[t][pos[t]], topic |-> t]
<1>1. jobCh' = Append(jobCh, new) /\ jobCh \in Seq(Job) /\ new \in Job
  BY JobType DEF Enque, IInv, TypeOK, AtRow
<1>2. /\ Len(jobCh') = Len(jobCh) + 1 /\ Len(jobCh) \in Nat
      /\ \A j \in 1 .. Len(jobCh) : jobCh'[j] = jobCh[j]
      /\ jobCh'[Len(jobCh) + 1] = new
  BY <1>1
<1>3. InQueue \subseteq InQueue'
  BY <1>2 DEF InQueue
<1>4. Pool[t][pos[t]] \in InQueue'
  <2>1. Len(jobCh) + 1 \in 1 .. Len(jobCh') /\ jobCh'[Len(jobCh) + 1].row = Pool[t][pos[t]]
    BY <1>2
  <2> QED
    BY <2>1 DEF InQueue
<1>5. InHand' = InHand /\ consumed' = consumed
  BY DEF Enque, InHand
<1> QED
  BY <1>3, <1>4, <1>5 DEF Handed

\* Taking a job moves its row from the queue to a worker that had none.
LEMMA TakeHands ==
  ASSUME IInv, NEW w \in Workers, Take(w)
  PROVE  Handed \subseteq Handed'
<1>1. /\ jobCh \in Seq(Job) /\ jobCh # << >> /\ job[w] = NoJob
      /\ job' = [job EXCEPT ![w] = Head(jobCh)] /\ jobCh' = Tail(jobCh)
      /\ job \in [Workers -> Job \cup {NoJob}]
  BY DEF Take, IInv, TypeOK
<1>2. Head(jobCh) # NoJob
  <2>1. Head(jobCh) \in Job
    BY <1>1
  <2> QED
    BY <2>1, ReplayAssumption
<1>3. InHand \subseteq InHand' /\ Head(jobCh).row \in InHand'
  BY <1>1, <1>2 DEF InHand
<1>4. InQueue \subseteq InQueue' \cup {Head(jobCh).row}
  <2>1. ASSUME NEW j \in 1 .. Len(jobCh)
        PROVE  jobCh[j].row \in InQueue' \cup {Head(jobCh).row}
    <3>1. CASE j = 1
      BY <1>1, <3>1
    <3>2. CASE j # 1
      <4>1. j - 1 \in 1 .. Len(jobCh') /\ jobCh'[j - 1] = jobCh[j]
        BY <1>1, <3>2
      <4> QED
        BY <4>1 DEF InQueue
    <3> QED
      BY <3>1, <3>2
  <2> QED
    BY <2>1 DEF InQueue
<1>5. consumed' = consumed
  BY DEF Take
<1> QED
  BY <1>3, <1>4, <1>5 DEF Handed

\* Consuming a row moves it from the worker to the index.
LEMMA ConsumeHands ==
  ASSUME IInv, NEW w \in Workers, Consume(w)
  PROVE  Handed \subseteq Handed'
<1>1. InHand \subseteq InHand' \cup {job[w].row}
  BY DEF Consume, Release, InHand, IInv, TypeOK
<1>2. consumed' = consumed \cup {job[w].row} /\ InQueue' = InQueue
  BY DEF Consume, InQueue
<1> QED
  BY <1>1, <1>2 DEF Handed

\* While no error is stored, rows handed on are not dropped, positions only move
\* with a row that is sent, and a reader ends only behind its last row.
LEMMA QuietSteps ==
  ASSUME IInv, [Next]_vars, errs' = "nil", erased' = {}
  PROVE  /\ errs = "nil" /\ erased = {}
         /\ Handed \subseteq Handed'
         /\ \A t \in Topics :
              /\ \/ pos'[t] = pos[t]
                 \/ pos'[t] = pos[t] + 1 /\ Pool[t][pos[t]] \in Handed'
              /\ rpc'[t] = "done" => rpc[t] = "done" \/ pos'[t] > Len(Pool[t])
<1> DEFINE Goal ==
         /\ errs = "nil" /\ erased = {}
         /\ Handed \subseteq Handed'
         /\ \A t \in Topics :
              /\ \/ pos'[t] = pos[t]
                 \/ pos'[t] = pos[t] + 1 /\ Pool[t][pos[t]] \in Handed'
              /\ rpc'[t] = "done" => rpc[t] = "done" \/ pos'[t] > Len(Pool[t])
<1>1. ASSUME UNCHANGED <<errs, pos, workVars, consumed, erased>>,
             rpc' = rpc \/ \E T : Launch(T)
      PROVE  Goal
  <2>1. Handed' = Handed
    BY <1>1 DEF Handed, InQueue, InHand
  <2> QED
    BY <1>1, <2>1 DEF Launch
<1>2. ASSUME NEW t \in Topics, SelectIds(t) \/ NextRow(t) \/ ReaderStops(t) PROVE Goal
  <2>1. Handed' = Handed
    BY <1>2 DEF SelectIds, NextRow, ReaderStops, Handed, InQueue, InHand
  <2>2. UNCHANGED <<errs, erased, pos>>
    BY <1>2 DEF SelectIds, NextRow, ReaderStops
  <2>3. \A u \in Topics : rpc'[u] = "done" => rpc[u] = "done" \/ pos[u] > Len(Pool[u])
    BY <1>2 DEF SelectIds, NextRow, ReaderStops, Ends, IInv, TypeOK
  <2> QED
    BY <2>1, <2>2, <2>3
<1>3. ASSUME NEW t \in Topics, Enque(t) PROVE Goal
  <2>1. UNCHANGED <<errs, erased>>
    BY <1>3 DEF Enque
  <2>2. \A u \in Topics : pos'[u] = IF u = t THEN pos[u] + 1 ELSE pos[u]
    BY <1>3 DEF Enque, IInv, TypeOK
  <2>3. \A u \in Topics : rpc'[u] = "done" => rpc[u] = "done"
    BY <1>3 DEF Enque, IInv, TypeOK
  <2> QED
    BY <1>3, <2>1, <2>2, <2>3, EnqueHands
<1>4. ASSUME NEW w \in Workers, Take(w) PROVE Goal
  BY <1>4, TakeHands DEF Take
<1>5. ASSUME NEW w \in Workers, Consume(w) PROVE Goal
  BY <1>5, ConsumeHands DEF Consume
<1>6. ASSUME NEW w \in Workers, ParseFails(w) PROVE FALSE
  BY <1>6 DEF ParseFails
<1>7. ASSUME NEW t \in Topics, NextRowFails(t) \/ SelectIdsFails(t) PROVE FALSE
  BY <1>7 DEF NextRowFails, SelectIdsFails
<1>8. ASSUME NEW w \in Workers, ConsumeFails(w) \/ ConsumeRefuses(w) PROVE FALSE
  BY <1>8 DEF ConsumeFails, ConsumeRefuses
<1>9. ASSUME NEW c \in Chains, handleReaderFails(c) PROVE Goal
  <2>1. errs' = errs
    BY <1>9 DEF handleReaderFails
  <2> QED
    BY <1>1, <1>9, <2>1 DEF handleReaderFails
<1>10. CASE \/ Connect \/ ConnectFails \/ handleCReader \/ handleCReaderFails \/ LoadWaitGroup
            \/ JobCnt \/ Report \/ ReadError \/ (\E c \in Chains : handleReader(c))
            \/ UNCHANGED vars
  BY <1>1, <1>10 DEF Connect, ConnectFails, handleCReader, handleCReaderFails, LoadWaitGroup,
                     JobCnt, Report, ReadError, handleReader, vars
<1> QED
  BY <1>2, <1>3, <1>4, <1>5, <1>6, <1>7, <1>8, <1>9, <1>10
     DEF Next, Main, Reader, Work, Finished

LEMMA NextProgress == IInv /\ [Next]_vars => Progress'
<1> SUFFICES ASSUME IInv, [Next]_vars, errs' = "nil", erased' = {}, NEW t \in Topics
             PROVE  /\ \A j \in 1 .. Len(Pool[t]) : j < pos'[t] => Pool[t][j] \in Handed'
                    /\ rpc'[t] = "done" => pos'[t] > Len(Pool[t])
  BY DEF Progress
<1>1. /\ Handed \subseteq Handed'
      /\ \/ pos'[t] = pos[t]
         \/ pos'[t] = pos[t] + 1 /\ Pool[t][pos[t]] \in Handed'
      /\ rpc'[t] = "done" => rpc[t] = "done" \/ pos'[t] > Len(Pool[t])
  BY QuietSteps
<1>2. /\ \A j \in 1 .. Len(Pool[t]) : j < pos[t] => Pool[t][j] \in Handed
      /\ rpc[t] = "done" => pos[t] > Len(Pool[t])
  BY QuietSteps DEF IInv, Progress
<1>3. pos[t] \in Nat /\ Len(Pool[t]) \in Nat
  BY ReplayAssumption DEF IInv, TypeOK
<1> QED
  BY <1>1, <1>2, <1>3

-----------------------------------------------------------------------------
\* The inductive invariant holds in every reachable state.
THEOREM ReplayInvariant == Spec => []IInv
<1>1. IInv /\ [Next]_vars => IInv'
  BY NextTypeOK, NextReadersLaunched, NextEndDetected, NextProgress, NextAtRow DEF IInv
<1> QED
  BY InitIInv, <1>1, PTL DEF Spec

\* Type correctness of the replay; its queue stays within its capacity.
THEOREM ReplayTypeOK == Spec => []TypeOK
BY ReplayInvariant, PTL DEF IInv

\* For any topics, rows, workers and queue size: when Start returns nil, every
\* row is consumed or in a worker's hands, unless a row that does not parse
\* stored nil over an error (Start, workerProcessor).
THEOREM ReplayNilMeansReplayed == Spec => NilMeansReplayed
<1>1. IInv /\ [Next]_vars =>
        [mpc # "nil" /\ mpc' = "nil" /\ erased = {} =>
           \A t \in Topics : \A j \in 1 .. Len(Pool[t]) :
             Pool[t][j] \in consumed \cup InHand]_vars
  <2> SUFFICES ASSUME IInv, [Next]_vars, mpc # "nil", mpc' = "nil", erased = {},
                      NEW t \in Topics, NEW j \in 1 .. Len(Pool[t])
               PROVE  Pool[t][j] \in consumed \cup InHand
    OBVIOUS
  <2>1. mpc = "report" /\ errs = "nil"
    <3>1. ~(\E u \in Topics : Reader(u) \/ SelectIdsFails(u))
      BY ReaderSteps
    <3>2. ~(\E w \in Workers : Work(w) \/ ConsumeFails(w))
      BY WorkSteps
    <3>3. Report
      <4>1. ~(Connect \/ ConnectFails \/ handleCReader \/ handleCReaderFails \/ LoadWaitGroup
              \/ JobCnt \/ ReadError)
        BY DEF Connect, ConnectFails, handleCReader, handleCReaderFails, LoadWaitGroup, JobCnt,
               ReadError
      <4>2. ~(\E c \in Chains : handleReader(c) \/ handleReaderFails(c))
        BY DEF handleReader, handleReaderFails
      <4>3. ~UNCHANGED vars
        BY DEF vars
      <4> QED
        BY <3>1, <3>2, <4>1, <4>2, <4>3 DEF Next, Main, Finished
    <3> QED
      BY <3>3 DEF Report, IInv, TypeOK
  <2>2. rpc[t] = "done" /\ jobCh = << >>
    BY <2>1 DEF IInv, EndDetected
  <2>3. pos[t] > Len(Pool[t]) /\ (j < pos[t] => Pool[t][j] \in Handed)
    BY <2>1, <2>2 DEF IInv, Progress
  <2>4. pos[t] \in Nat /\ Len(Pool[t]) \in Nat
    BY ReplayAssumption DEF IInv, TypeOK
  <2>5. InQueue = {}
    BY <2>2 DEF InQueue
  <2> QED
    BY <2>3, <2>4, <2>5 DEF Handed
<1> QED
  BY <1>1, ReplayInvariant, PTL DEF Spec, NilMeansReplayed
=============================================================================
