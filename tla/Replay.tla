------------------------------- MODULE Replay -------------------------------
(***************************************************************************)
(* The replay (replay/replay_db.go): every row of tx_pool is consumed      *)
(* again, with updates on, by a pool of workers (utils/worker.go).         *)
(*                                                                         *)
(* Start bootstraps the chains one after the other, starts one reader      *)
(* goroutine per topic, waits until the readers are gone and the queue of  *)
(* the pool is empty, and returns what the shared error cell holds.  A     *)
(* reader sends the rows of its topic to the queue in the order of         *)
(* created_at and stops when the cell holds an error.  A worker consumes   *)
(* one row at a time and stores an error in the cell.                      *)
(*                                                                         *)
(* waitGroup, a counter every reader raises once and lowers once, is the   *)
(* set of readers that are started and not done.  The loops that repeat a  *)
(* query (QueryTxPool) or a consumption (lock errors) until it succeeds    *)
(* change nothing before they do.                                          *)
(***************************************************************************)
EXTENDS Integers, Sequences, FiniteSets

CONSTANTS
  Chains,      \* replay.config.Chains: the chains of containers
  AXchain,     \* the contract chain
  Rows,        \* rows of tx_pool
  Pool,        \* Pool[t]: the rows of topic t in the order of created_at
  Contents,    \* what the rows may hold: per row "good", a msg_key that is no id
               \* ("badKey") or a serialization that does not parse ("badBody")
  Workers,     \* worker goroutines (replayqueuethreads)
  QueueSize,   \* capacity of jobCh (replayqueuesize)
  NoJob,       \* no job in hand
  MaxErrors    \* bound: errors of the database and of writers

\* The readers of a chain, and what distinguishes them: whether a row is parsed
\* by the reader, by the worker or by the writer.
startDecision   == [topic |-> "decision", parsedBy |-> "writer"]
startConsensus  == [topic |-> "consensus", parsedBy |-> "writer"]
startAXchain    == [topic |-> "axchain", parsedBy |-> "reader"]
startAXchainTrc == [topic |-> "axchain-trc", parsedBy |-> "worker"]
startAXchainLog == [topic |-> "axchain-log", parsedBy |-> "worker"]

ChainReaders    == {startDecision, startConsensus}
ContractReaders == {startAXchain, startAXchainTrc, startAXchainLog}
Topics == (Chains \X ChainReaders) \cup ({AXchain} \X ContractReaders)

Job == [row : Rows, topic : Topics]

ASSUME ReplayAssumption ==
  /\ AXchain \notin Chains
  /\ Pool \in [Topics -> Seq(Rows)]
  /\ Contents \subseteq [Rows -> {"good", "badKey", "badBody"}]
  /\ QueueSize \in Nat \ {0}
  /\ NoJob \notin Job
  /\ MaxErrors \in Nat

VARIABLES
  content,   \* what the rows hold
  mpc,       \* where Start is
  unstarted, \* chains whose handleReader is still to come
  errs,      \* replay.errs: "nil" or "error"
  rpc,       \* rpc[t]: where the reader of topic t is
  pos,       \* pos[t]: the row it is at
  jobCh,     \* the queue: rows with their topics
  job,       \* job[w]: the row and topic in the hands of worker w
  consumed,  \* rows the writers have consumed
  erased,    \* history: rows for which nil was stored instead of an error
  errors     \* errors so far

mainVars   == <<mpc, unstarted>>
readerVars == <<rpc, pos>>
workVars   == <<jobCh, job>>
vars == <<content, mainVars, errs, readerVars, workVars, consumed, erased, errors>>

Ended == {"nil", "error", "fatal", "panic"}

TypeOK ==
  /\ content \in Contents
  /\ mpc \in {"connect", "chains", "wait", "jobs", "report", "log", "return"} \cup Ended
  /\ unstarted \subseteq Chains
  /\ errs \in {"nil", "error"}
  /\ rpc \in [Topics -> {"off", "select", "next", "enque", "done"}]
  /\ pos \in [Topics -> Nat \ {0}]
  /\ jobCh \in Seq(Job) /\ Len(jobCh) <= QueueSize
  /\ job \in [Workers -> Job \cup {NoJob}]
  /\ consumed \subseteq Rows
  /\ erased \subseteq Rows
  /\ errors \in Nat

Init ==
  /\ content \in Contents
  /\ mpc = "connect" /\ unstarted = Chains
  /\ errs = "nil"
  /\ rpc = [t \in Topics |-> "off"]
  /\ pos = [t \in Topics |-> 1]
  /\ jobCh = << >>
  /\ job = [w \in Workers |-> NoJob]
  /\ consumed = {}
  /\ erased = {}
  /\ errors = 0

\* An error of the database or of a writer.
MayFail == errors < MaxErrors /\ errors' = errors + 1

\* The process goes on: not after log.Fatalln or a panic.
Alive == mpc \notin {"fatal", "panic"}

-----------------------------------------------------------------------------
(* Start.                                                                   *)

Connect ==
  /\ mpc = "connect"
  /\ mpc' = "chains"
  /\ UNCHANGED <<content, unstarted, errs, readerVars, workVars, consumed, erased, errors>>

ConnectFails ==
  /\ mpc = "connect"
  /\ MayFail
  /\ mpc' = "error"
  /\ UNCHANGED <<content, unstarted, errs, readerVars, workVars, consumed, erased>>

Launch(T) == rpc' = [t \in Topics |-> IF t \in T THEN "select" ELSE rpc[t]]

\* Bootstrap the next chain (the chains are a map, in any order) and start its
\* readers.
handleReader(c) ==
  /\ mpc = "chains"
  /\ c \in unstarted
  /\ unstarted' = unstarted \ {c}
  /\ Launch({c} \X ChainReaders)
  /\ UNCHANGED <<content, mpc, errs, pos, workVars, consumed, erased, errors>>

\* NewWriter or Bootstrap fails, and only Bootstrap stores its error: Start ends
\* the process, whatever the readers started before are doing.
handleReaderFails(c) ==
  /\ mpc = "chains"
  /\ c \in unstarted
  /\ MayFail
  /\ errs' \in {errs, "error"}
  /\ mpc' = "fatal"
  /\ UNCHANGED <<content, unstarted, readerVars, workVars, consumed, erased>>

\* All chains are started: start the readers of the contract chain.
handleCReader ==
  /\ mpc = "chains"
  /\ unstarted = {}
  /\ mpc' = "wait"
  /\ Launch({AXchain} \X ContractReaders)
  /\ UNCHANGED <<content, unstarted, errs, pos, workVars, consumed, erased, errors>>

\* NewWriter of the contract chain fails: Start ends the process.
handleCReaderFails ==
  /\ mpc = "chains"
  /\ unstarted = {}
  /\ MayFail
  /\ mpc' = "fatal"
  /\ UNCHANGED <<content, unstarted, errs, readerVars, workVars, consumed, erased>>

WaitGroup == {t \in Topics : rpc[t] \notin {"off", "done"}}

\* Mutant: the queue is looked at before the readers.
LoadWaitGroupJobsFirst ==
  /\ mpc = "wait"
  /\ jobCh = << >>
  /\ mpc' = "jobs"
  /\ UNCHANGED <<content, unstarted, errs, readerVars, workVars, consumed, erased, errors>>

\* The end of the run, in two reads: no reader is left ...
LoadWaitGroup ==
  /\ mpc = "wait"
  /\ WaitGroup = {}
  /\ mpc' = "jobs"
  /\ UNCHANGED <<content, unstarted, errs, readerVars, workVars, consumed, erased, errors>>

\* ... and the queue is empty; jobs in the workers' hands are not waited for.
JobCnt ==
  /\ mpc = "jobs"
  /\ mpc' = IF jobCh = << >> THEN "report" ELSE "wait"
  /\ UNCHANGED <<content, unstarted, errs, readerVars, workVars, consumed, erased, errors>>

\* The result: the cell is read once for the test ...
Report ==
  /\ mpc = "report"
  /\ mpc' = IF errs = "error" THEN "log" ELSE "nil"
  /\ UNCHANGED <<content, unstarted, errs, readerVars, workVars, consumed, erased, errors>>

\* ... once for the log and once for the result, where nil is no error and the
\* type assertion panics.
ReadError ==
  /\ mpc \in {"log", "return"}
  /\ mpc' = IF errs = "nil" THEN "panic" ELSE IF mpc = "log" THEN "return" ELSE "error"
  /\ UNCHANGED <<content, unstarted, errs, readerVars, workVars, consumed, erased, errors>>

-----------------------------------------------------------------------------
(* The readers.                                                             *)

Ends(t) == rpc' = [rpc EXCEPT ![t] = "done"]

\* The ids of the rows of the topic.
SelectIds(t) ==
  /\ Alive
  /\ rpc[t] = "select"
  /\ rpc' = [rpc EXCEPT ![t] = "next"]
  /\ UNCHANGED <<content, mainVars, errs, pos, workVars, consumed, erased, errors>>

SelectIdsFails(t) ==
  /\ Alive
  /\ rpc[t] = "select"
  /\ MayFail
  /\ errs' = "error"
  /\ Ends(t)
  /\ UNCHANGED <<content, mainVars, pos, workVars, consumed, erased>>

Readable(t) ==
  /\ content[Pool[t][pos[t]]] # "badKey"
  /\ t[2].parsedBy = "reader" => content[Pool[t][pos[t]]] # "badBody"

\* The next row, unless the cell holds an error by then.
NextRow(t) ==
  /\ Alive
  /\ rpc[t] = "next"
  /\ pos[t] <= Len(Pool[t])
  /\ errs = "nil"
  /\ Readable(t)
  /\ rpc' = [rpc EXCEPT ![t] = "enque"]
  /\ UNCHANGED <<content, mainVars, errs, pos, workVars, consumed, erased, errors>>

\* A row that cannot be read is an error and ends the reader.
NextRowFails(t) ==
  /\ Alive
  /\ rpc[t] = "next"
  /\ pos[t] <= Len(Pool[t])
  /\ errs = "nil"
  /\ ~Readable(t)
  /\ errs' = "error"
  /\ Ends(t)
  /\ UNCHANGED <<content, mainVars, pos, workVars, consumed, erased, errors>>

ReaderStops(t) ==
  /\ Alive
  /\ rpc[t] = "next"
  /\ pos[t] > Len(Pool[t]) \/ errs = "error"
  /\ Ends(t)
  /\ UNCHANGED <<content, mainVars, errs, pos, workVars, consumed, erased, errors>>

\* Mutant: the queue has no bound.
EnqueUnbounded(t) ==
  /\ Alive
  /\ rpc[t] = "enque"
  /\ jobCh' = Append(jobCh, [row |-> Pool[t][pos[t]], topic |-> t])
  /\ pos' = [pos EXCEPT ![t] = @ + 1]
  /\ rpc' = [rpc EXCEPT ![t] = "next"]
  /\ UNCHANGED <<content, mainVars, errs, job, consumed, erased, errors>>

\* Send the row to the workers; blocks while the queue is full.
Enque(t) ==
  /\ Alive
  /\ rpc[t] = "enque"
  /\ Len(jobCh) < QueueSize
  /\ jobCh' = Append(jobCh, [row |-> Pool[t][pos[t]], topic |-> t])
  /\ pos' = [pos EXCEPT ![t] = @ + 1]
  /\ rpc' = [rpc EXCEPT ![t] = "next"]
  /\ UNCHANGED <<content, mainVars, errs, job, consumed, erased, errors>>

-----------------------------------------------------------------------------
(* The workers.                                                             *)

Take(w) ==
  /\ Alive
  /\ job[w] = NoJob
  /\ jobCh # << >>
  /\ job' = [job EXCEPT ![w] = Head(jobCh)]
  /\ jobCh' = Tail(jobCh)
  /\ UNCHANGED <<content, mainVars, errs, readerVars, consumed, erased, errors>>

\* Trace and log rows are parsed by the worker.
Parses(w) == job[w].topic[2].parsedBy = "worker" => content[job[w].row] # "badBody"

\* Decisions and vertices are parsed by the writer.
Accepts(w) == job[w].topic[2].parsedBy = "writer" => content[job[w].row] # "badBody"

Release(w) == job' = [job EXCEPT ![w] = NoJob]

\* The writer consumes the row, also when the cell holds an error.
Consume(w) ==
  /\ Alive
  /\ job[w] # NoJob
  /\ Parses(w)
  /\ Accepts(w)
  /\ consumed' = consumed \cup {job[w].row}
  /\ Release(w)
  /\ UNCHANGED <<content, mainVars, errs, readerVars, jobCh, erased, errors>>

\* The writer returns an error that is no lock error.
ConsumeFails(w) ==
  /\ Alive
  /\ job[w] # NoJob
  /\ Parses(w)
  /\ MayFail
  /\ errs' = "error"
  /\ Release(w)
  /\ UNCHANGED <<content, mainVars, readerVars, jobCh, consumed, erased>>

\* The writer refuses the row: an error as well.
ConsumeRefuses(w) ==
  /\ Alive
  /\ job[w] # NoJob
  /\ ~Accepts(w)
  /\ errs' = "error"
  /\ Release(w)
  /\ UNCHANGED <<content, mainVars, readerVars, jobCh, consumed, erased, errors>>

\* Mutant: a row that does not parse is put back.
ParseFailsRequeue(w) ==
  /\ Alive
  /\ job[w] # NoJob
  /\ ~Parses(w)
  /\ Len(jobCh) < QueueSize
  /\ jobCh' = Append(jobCh, job[w])
  /\ Release(w)
  /\ UNCHANGED <<content, mainVars, errs, readerVars, consumed, erased, errors>>

\* A trace or a log that does not parse: the worker stores consumererr, which is
\* nil at this point, so the cell holds no error afterwards.
ParseFails(w) ==
  /\ Alive
  /\ job[w] # NoJob
  /\ ~Parses(w)
  /\ errs' = "nil"
  /\ erased' = erased \cup {job[w].row}
  /\ Release(w)
  /\ UNCHANGED <<content, mainVars, readerVars, jobCh, consumed, errors>>

-----------------------------------------------------------------------------
\* After its end Start does nothing more; workers may go on.
Finished == mpc \in Ended /\ UNCHANGED vars

Main == Connect \/ (\E c \in Chains : handleReader(c)) \/ handleCReader
        \/ LoadWaitGroup \/ JobCnt \/ Report \/ ReadError
Reader(t) == SelectIds(t) \/ NextRow(t) \/ NextRowFails(t) \/ ReaderStops(t) \/ Enque(t)
Work(w) == Take(w) \/ Consume(w) \/ ConsumeRefuses(w) \/ ParseFails(w)

Next ==
  \/ Main \/ ConnectFails \/ (\E c \in Chains : handleReaderFails(c)) \/ handleCReaderFails
  \/ \E t \in Topics : Reader(t) \/ SelectIdsFails(t)
  \/ \E w \in Workers : Work(w) \/ ConsumeFails(w)
  \/ Finished

Spec == Init /\ [][Next]_vars

\* Goroutines run; a blocked send is served in turn (SF).
Fairness ==
  /\ WF_vars(Main)
  /\ \A t \in Topics : WF_vars(Reader(t)) /\ SF_vars(Enque(t))
  /\ \A w \in Workers : WF_vars(Work(w))
FairSpec == Spec /\ Fairness

-----------------------------------------------------------------------------
(* Properties.                                                              *)

InQueue == {jobCh[j].row : j \in 1 .. Len(jobCh)}
InHand  == {job[w].row : w \in {v \in Workers : job[v] # NoJob}}

Handed  == InQueue \cup InHand \cup consumed

\* When Start returns without an error, every row of every topic has been
\* consumed or is in the hands of a worker, whatever the interleaving of the
\* two reads that detect the end with readers and workers, and no error has
\* been passed over: unless an unparsable trace or log stored nil over it.
NilMeansReplayed ==
  [][mpc # "nil" /\ mpc' = "nil" /\ erased = {} =>
       \A t \in Topics : \A j \in 1 .. Len(Pool[t]) :
         Pool[t][j] \in consumed \cup InHand]_vars

\* Start comes to an end, with full queues and with errors anywhere: workers
\* keep emptying the queue after an error, so no reader stays blocked.
EventuallyEnds == <>(mpc \in Ended)

-----------------------------------------------------------------------------
(* The inductive invariant.                                                 *)

\* The readers that run, by where Start is.
ReadersLaunched ==
  /\ mpc \in {"connect", "chains"} => \A k \in ContractReaders : rpc[<<AXchain, k>>] = "off"
  /\ mpc \in {"wait", "jobs", "report", "log", "return"} =>
       unstarted = {} /\ \A t \in Topics : rpc[t] # "off"
  /\ \A c \in Chains \ unstarted : \A k \in ChainReaders : rpc[<<c, k>>] # "off"

\* After the first read no reader is left, after the second no job.
EndDetected ==
  /\ mpc \in {"jobs", "report"} => \A t \in Topics : rpc[t] = "done"
  /\ mpc = "report" => jobCh = << >>

\* While no error is stored and none was erased, each reader has passed on all
\* the rows before its position, and a reader that is done has passed them all.
Progress ==
  errs = "nil" /\ erased = {} =>
    \A t \in Topics :
      /\ \A j \in 1 .. Len(Pool[t]) :
           j < pos[t] => Pool[t][j] \in Handed
      /\ rpc[t] = "done" => pos[t] > Len(Pool[t])

\* A reader that sends has a row to send.
AtRow == \A t \in Topics : rpc[t] = "enque" => pos[t] <= Len(Pool[t])

IInv == TypeOK /\ ReadersLaunched /\ EndDetected /\ Progress /\ AtRow
=============================================================================
