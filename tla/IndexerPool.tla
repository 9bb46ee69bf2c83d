---------------------------- MODULE IndexerPool ----------------------------
(***************************************************************************)
(* The indexer (stream/consumers/indexer.go): from tx_pool to the index.   *)
(*                                                                         *)
(* In every process an iterator goroutine reads the unprocessed rows of    *)
(* tx_pool again and again and sends them to the LocalTxPool channel;      *)
(* producers of the process offer their fresh rows to it directly.         *)
(* MaxTheads worker goroutines receive from the channel, hand the row to   *)
(* the processor of its topic, which writes the index in one transaction,  *)
(* mark the row processed, and remember it in the IndexedList, a bounded   *)
(* set of ids that saves processing them again.                            *)
(*                                                                         *)
(* The jobs of one pass of the iterator share an error cell: an error of   *)
(* any of them ends the pass and makes workers skip the rest of it.  Jobs  *)
(* of producers have none.  Cells are numbered, 0 for none, and a number   *)
(* is taken again when no job refers to it.                                *)
(***************************************************************************)
EXTENDS Integers, Sequences, FiniteSets

CONSTANTS
  Machines,            \* processes running an indexer on the shared database
  Threads,             \* worker goroutines of all of them
  MachineOf,           \* the process of a worker
  Rows,                \* ids of tx_pool rows
  NoRow,               \* not a row
  CreatedAt,           \* created_at of a row: its container's time or its producer's clock
  Poison,              \* rows whose processor always returns an error
  Known,               \* rows whose topic has a processor (fsm)
  MaxTxPoolSize,       \* capacity of LocalTxPool
  MaxSizedList,        \* size of the IndexedList
  MaximumRecordsRead,  \* limit of the messages of one pass
  Cells,               \* numbers of error cells
  MaxFailures          \* bound: errors, crashes and repeated offers in a behaviour

ASSUME IndexerAssumption ==
  /\ MachineOf \in [Threads -> Machines]
  /\ NoRow \notin Rows
  /\ CreatedAt \in [Rows -> Nat]
  /\ Known \subseteq Rows /\ Poison \subseteq Known
  /\ MaxTxPoolSize \in Nat \ {0}
  /\ MaxSizedList \in Nat \ {0}
  /\ MaximumRecordsRead \in Nat
  /\ Cells \subseteq Nat \ {0}
  /\ MaxFailures \in Nat

Job   == [row : Rows, errs : Cells \cup {0}]
NoJob == [row |-> NoRow, errs |-> 0]

VARIABLES
  txPool,       \* rows of the table tx_pool
  processed,    \* rows with processed = 1
  index,        \* rows whose effect is in the index tables
  localTxPool,  \* localTxPool[m]: the channel of process m
  indexedList,  \* indexedList[m]: its IndexedList, newest first
  errSet,       \* errSet[m]: its error cells that hold an error
  pc,           \* pc[w]: where worker w is
  job,          \* job[w]: the job in hand
  ipc,          \* ipc[m]: where the iterator of m is
  result,       \* result[m]: rows of the open result set not yet visited
  current,      \* current[m]: the row about to be sent
  cell,         \* cell[m]: the error cell of the pass
  readMessages, \* readMessages[m]: rows sent in the pass
  failures      \* errors, crashes and repeated offers so far

dbVars   == <<txPool, processed, index>>
workVars == <<pc, job>>
iterVars == <<ipc, result, current, cell, readMessages>>
vars     == <<dbVars, localTxPool, indexedList, errSet, workVars, iterVars, failures>>

Elements(s) == {s[j] : j \in 1 .. Len(s)}

TypeOK ==
  /\ txPool \in SUBSET Rows /\ processed \in SUBSET Rows /\ index \in SUBSET Rows
  /\ localTxPool \in [Machines -> Seq(Job)]
  /\ \A m \in Machines : Len(localTxPool[m]) <= MaxTxPoolSize
  /\ indexedList \in [Machines -> Seq(Rows)]
  /\ errSet \in [Machines -> SUBSET Cells]
  /\ pc \in [Threads -> {"idle", "admit", "process", "status", "push"}]
  /\ job \in [Threads -> Job \cup {NoJob}]
  /\ ipc \in [Machines -> {"select", "loop", "send", "wait"}]
  /\ result \in [Machines -> SUBSET Rows]
  /\ current \in [Machines -> Rows \cup {NoRow}]
  /\ cell \in [Machines -> Cells \cup {0}]
  /\ readMessages \in [Machines -> Nat]
  /\ failures \in Nat

Init ==
  /\ txPool = {} /\ processed = {} /\ index = {}
  /\ localTxPool = [m \in Machines |-> << >>]
  /\ indexedList = [m \in Machines |-> << >>]
  /\ errSet = [m \in Machines |-> {}]
  /\ pc = [w \in Threads |-> "idle"]
  /\ job = [w \in Threads |-> NoJob]
  /\ ipc = [m \in Machines |-> "select"]
  /\ result = [m \in Machines |-> {}]
  /\ current = [m \in Machines |-> NoRow]
  /\ cell = [m \in Machines |-> 0]
  /\ readMessages = [m \in Machines |-> 0]
  /\ failures = 0

\* Failures, and rows offered once more, take from one budget.
MayFail == failures < MaxFailures /\ failures' = failures + 1

-----------------------------------------------------------------------------
(* IndexedList.                                                             *)

Exists(m, r) == r \in Elements(indexedList[m])

\* PushFront leaves an id that is there alone, and drops the oldest beyond the size.
PushFront(l, r) ==
  IF r \in Elements(l) THEN l
  ELSE LET longer == <<r>> \o l
       IN IF Len(longer) > MaxSizedList THEN SubSeq(longer, 1, MaxSizedList) ELSE longer

-----------------------------------------------------------------------------
(* Producers.                                                               *)

\* UpdateTxPool: insert the row unless it is there, and offer it to the channel,
\* if there is room.  A producer that resumes, or that of another process,
\* sends rows that are there already.
Produce(m, r) ==
  /\ IF r \in txPool THEN MayFail ELSE UNCHANGED failures
  /\ txPool' = txPool \cup {r}
  /\ IF Len(localTxPool[m]) < MaxTxPoolSize
     THEN localTxPool' = [localTxPool EXCEPT ![m] = Append(@, [row |-> r, errs |-> 0])]
     ELSE UNCHANGED localTxPool
  /\ UNCHANGED <<processed, index, indexedList, errSet, workVars, iterVars>>

-----------------------------------------------------------------------------
(* iterateTxPool.                                                           *)

\* Cells of process m that something still refers to.
InUse(m) == {j.errs : j \in Elements(localTxPool[m])}
            \cup {job[w].errs : w \in {v \in Threads : MachineOf[v] = m /\ pc[v] # "idle"}}

\* Mutant: the error cell of an earlier pass is used again as it is.
SelectKeepingErrs(m) ==
  /\ ipc[m] = "select"
  /\ ipc' = [ipc EXCEPT ![m] = "loop"]
  /\ result' = [result EXCEPT ![m] = (txPool \cap Known) \ processed]
  /\ \E c \in Cells \ InUse(m) :
       /\ \A d \in Cells \ InUse(m) : c <= d
       /\ cell' = [cell EXCEPT ![m] = c]
  /\ readMessages' = [readMessages EXCEPT ![m] = 0]
  /\ UNCHANGED <<dbVars, localTxPool, indexedList, errSet, workVars, current, failures>>

\* Open the result set: the unprocessed rows of the known topics, as of now.
Select(m) ==
  /\ ipc[m] = "select"
  /\ ipc' = [ipc EXCEPT ![m] = "loop"]
  /\ result' = [result EXCEPT ![m] = (txPool \cap Known) \ processed]
  /\ \E c \in Cells \ InUse(m) :
       /\ \A d \in Cells \ InUse(m) : c <= d
       /\ cell' = [cell EXCEPT ![m] = c]
       /\ errSet' = [errSet EXCEPT ![m] = @ \ {c}]
  /\ readMessages' = [readMessages EXCEPT ![m] = 0]
  /\ UNCHANGED <<dbVars, localTxPool, indexedList, workVars, current, failures>>

\* The next row in the order of created_at, unless the pass is over.
Visit(m) ==
  /\ ipc[m] = "loop"
  /\ cell[m] \notin errSet[m]
  /\ readMessages[m] <= MaximumRecordsRead
  /\ \E r \in result[m] :
       /\ \A q \in result[m] : CreatedAt[r] <= CreatedAt[q]
       /\ result' = [result EXCEPT ![m] = @ \ {r}]
       /\ IF Exists(m, r)
          THEN UNCHANGED <<ipc, current, readMessages>>
          ELSE /\ ipc' = [ipc EXCEPT ![m] = "send"]
               /\ current' = [current EXCEPT ![m] = r]
               /\ readMessages' = [readMessages EXCEPT ![m] = @ + 1]
  /\ UNCHANGED <<dbVars, localTxPool, indexedList, errSet, workVars, cell, failures>>

\* Mutant: the send does not wait for room.
SendAnyway(m) ==
  /\ ipc[m] = "send"
  /\ localTxPool' = [localTxPool EXCEPT
                       ![m] = Append(@, [row |-> current[m], errs |-> cell[m]])]
  /\ current' = [current EXCEPT ![m] = NoRow]
  /\ ipc' = [ipc EXCEPT ![m] = "loop"]
  /\ UNCHANGED <<dbVars, indexedList, errSet, workVars, result, cell, readMessages,
                 failures>>

\* The send blocks while the channel is full.
Send(m) ==
  /\ ipc[m] = "send"
  /\ Len(localTxPool[m]) < MaxTxPoolSize
  /\ localTxPool' = [localTxPool EXCEPT
                       ![m] = Append(@, [row |-> current[m], errs |-> cell[m]])]
  /\ current' = [current EXCEPT ![m] = NoRow]
  /\ ipc' = [ipc EXCEPT ![m] = "loop"]
  /\ UNCHANGED <<dbVars, indexedList, errSet, workVars, result, cell, readMessages,
                 failures>>

\* The pass ends: no row left, an error of one of its jobs, or enough rows sent.
EndLoop(m) ==
  /\ ipc[m] = "loop"
  /\ \/ result[m] = {}
     \/ cell[m] \in errSet[m]
     \/ readMessages[m] > MaximumRecordsRead
  /\ ipc' = [ipc EXCEPT ![m] = "wait"]
  /\ result' = [result EXCEPT ![m] = {}]
  /\ UNCHANGED <<dbVars, localTxPool, indexedList, errSet, workVars, current, cell,
                 readMessages, failures>>

\* Wait for the channel to drain, but not for longer than five seconds.
EndWait(m) ==
  /\ ipc[m] = "wait"
  /\ ipc' = [ipc EXCEPT ![m] = "select"]
  /\ UNCHANGED <<dbVars, localTxPool, indexedList, errSet, workVars, result, current,
                 cell, readMessages, failures>>

-----------------------------------------------------------------------------
(* handleTxPool.                                                            *)

\* Receive a job.
Receive(w) ==
  LET m == MachineOf[w] IN
  /\ pc[w] = "idle"
  /\ localTxPool[m] # << >>
  /\ localTxPool' = [localTxPool EXCEPT ![m] = Tail(@)]
  /\ pc' = [pc EXCEPT ![w] = "admit"]
  /\ job' = [job EXCEPT ![w] = Head(localTxPool[m])]
  /\ UNCHANGED <<dbVars, indexedList, errSet, iterVars, failures>>

\* Skip it when its row is in the list, when its pass has an error, or when no
\* processor has its topic.
Skipped(w) ==
  LET m == MachineOf[w] IN
  Exists(m, job[w].row) \/ job[w].errs \in errSet[m] \/ job[w].row \notin Known

Admit(w) ==
  /\ pc[w] = "admit"
  /\ pc' = [pc EXCEPT ![w] = IF Skipped(w) THEN "idle" ELSE "process"]
  /\ job' = [job EXCEPT ![w] = IF Skipped(w) THEN NoJob ELSE @]
  /\ UNCHANGED <<dbVars, localTxPool, indexedList, errSet, iterVars, failures>>

\* Mutant: the error of Process is logged and ignored.
ProcessIgnoringError(w) ==
  /\ pc[w] = "process"
  /\ job[w].row \notin Poison
  /\ index' \in {index, index \cup {job[w].row}}
  /\ pc' = [pc EXCEPT ![w] = "status"]
  /\ UNCHANGED <<txPool, processed, localTxPool, indexedList, errSet, job, iterVars,
                 failures>>

\* Process: the index transaction commits (lock errors were retried inside).
Process(w) ==
  /\ pc[w] = "process"
  /\ job[w].row \notin Poison
  /\ index' = index \cup {job[w].row}
  /\ pc' = [pc EXCEPT ![w] = "status"]
  /\ UNCHANGED <<txPool, processed, localTxPool, indexedList, errSet, job, iterVars,
                 failures>>

\* Mutant: the error of updateTxPollStatus is logged and ignored.
UpdateStatusIgnoringError(w) ==
  /\ pc[w] = "status"
  /\ processed' \in {processed, processed \cup {job[w].row}}
  /\ pc' = [pc EXCEPT ![w] = "push"]
  /\ UNCHANGED <<txPool, index, localTxPool, indexedList, errSet, job, iterVars,
                 failures>>

\* updateTxPollStatus.
UpdateStatus(w) ==
  /\ pc[w] = "status"
  /\ processed' = processed \cup {job[w].row}
  /\ pc' = [pc EXCEPT ![w] = "push"]
  /\ UNCHANGED <<txPool, index, localTxPool, indexedList, errSet, job, iterVars,
                 failures>>

\* Remember the row and go for the next job.
Remember(w) ==
  LET m == MachineOf[w] IN
  /\ pc[w] = "push"
  /\ indexedList' = [indexedList EXCEPT ![m] = PushFront(@, job[w].row)]
  /\ pc' = [pc EXCEPT ![w] = "idle"]
  /\ job' = [job EXCEPT ![w] = NoJob]
  /\ UNCHANGED <<dbVars, localTxPool, errSet, iterVars, failures>>

-----------------------------------------------------------------------------
(* Failures.                                                                *)

\* The error goes to the cell of the pass, if the job has one.
Abandon(w) ==
  LET m == MachineOf[w] IN
  /\ errSet' = [errSet EXCEPT ![m] = @ \cup ({job[w].errs} \cap Cells)]
  /\ pc' = [pc EXCEPT ![w] = "idle"]
  /\ job' = [job EXCEPT ![w] = NoJob]
  /\ UNCHANGED <<txPool, localTxPool, indexedList, iterVars>>

\* The processor refuses the message; its transaction rolls back.
Refuse(w) ==
  /\ pc[w] = "process"
  /\ job[w].row \in Poison
  /\ Abandon(w)
  /\ UNCHANGED <<index, processed, failures>>

\* Process or updateTxPollStatus fails; at the server it may have happened all
\* the same.
Fail(w) ==
  /\ MayFail
  /\ pc[w] \in {"process", "status"} /\ job[w].row \notin Poison
  /\ Abandon(w)
  /\ \/ UNCHANGED <<index, processed>>
     \/ pc[w] = "process" /\ index' = index \cup {job[w].row} /\ UNCHANGED processed
     \/ pc[w] = "status" /\ processed' = processed \cup {job[w].row} /\ UNCHANGED index

\* The result set breaks off: an error of the iterator or its timeout.
BreakOff(m) ==
  /\ MayFail
  /\ ipc[m] = "loop"
  /\ ipc' = [ipc EXCEPT ![m] = "wait"]
  /\ result' = [result EXCEPT ![m] = {}]
  /\ UNCHANGED <<dbVars, localTxPool, indexedList, errSet, workVars, current, cell,
                 readMessages>>

\* A process stops and starts again with empty memory.
Crash(m) ==
  /\ MayFail
  /\ localTxPool' = [localTxPool EXCEPT ![m] = << >>]
  /\ indexedList' = [indexedList EXCEPT ![m] = << >>]
  /\ errSet' = [errSet EXCEPT ![m] = {}]
  /\ pc' = [w \in Threads |-> IF MachineOf[w] = m THEN "idle" ELSE pc[w]]
  /\ job' = [w \in Threads |-> IF MachineOf[w] = m THEN NoJob ELSE job[w]]
  /\ ipc' = [ipc EXCEPT ![m] = "select"]
  /\ result' = [result EXCEPT ![m] = {}]
  /\ current' = [current EXCEPT ![m] = NoRow]
  /\ cell' = [cell EXCEPT ![m] = 0]
  /\ readMessages' = [readMessages EXCEPT ![m] = 0]
  /\ UNCHANGED dbVars

-----------------------------------------------------------------------------
Iterate(m) == Select(m) \/ Visit(m) \/ Send(m) \/ EndLoop(m) \/ EndWait(m)
Work(w) ==
  Receive(w) \/ Admit(w) \/ Process(w) \/ Refuse(w) \/ UpdateStatus(w) \/ Remember(w)

Next ==
  \/ \E m \in Machines, r \in Rows : Produce(m, r)
  \/ \E m \in Machines : Iterate(m)
  \/ \E w \in Threads : Work(w)
  \/ \E w \in Threads : Fail(w)
  \/ \E m \in Machines : BreakOff(m) \/ Crash(m)

Spec == Init /\ [][Next]_vars

\* Goroutines run.  A blocked send is served before a later offer: the runtime
\* hands a freed slot to the waiting sender (SF).
Fairness ==
  /\ \A m \in Machines : WF_vars(Iterate(m)) /\ SF_vars(Send(m))
  /\ \A w \in Threads : WF_vars(Work(w))
FairSpec == Spec /\ Fairness

-----------------------------------------------------------------------------
(* Properties.                                                              *)

\* A row is marked processed only after its effect is in the index, so that no
\* crash, error or race between workers of any process leaves a row that is
\* marked and not indexed: nothing would read it again.
ProcessedIndexed == processed \subseteq index

\* Whatever a process skips because of its IndexedList is marked in the
\* database: the list never hides a row that still needs processing.
ListProcessed ==
  \A m \in Machines : Elements(indexedList[m]) \subseteq processed

\* What a worker has done for the job in hand, by where it is.
WorkDone ==
  \A w \in Threads :
    /\ pc[w] # "idle" => job[w] \in Job
    /\ pc[w] \in {"status", "push"} => job[w].row \in index
    /\ pc[w] = "push" => job[w].row \in processed

\* The iterator has a row in hand when it is about to send.
SendReady == \A m \in Machines : ipc[m] = "send" => current[m] \in Rows

IInv == TypeOK /\ SendReady /\ WorkDone /\ ProcessedIndexed /\ ListProcessed

\* Every row of a known topic that reaches tx_pool is processed in the end:
\* at-least-once, over lost offers, failed passes, full channels and restarts.
EventuallyProcessed ==
  \A r \in Known \ Poison : (r \in txPool) ~> (r \in processed)
=============================================================================
