------------------------- MODULE IndexerPoolProofs -------------------------
(***************************************************************************)
(* Proofs about IndexerPool, for any number of processes, workers and      *)
(* rows, any channel and list sizes, and any number of failures.           *)
(***************************************************************************)
EXTENDS IndexerPool, TLAPS

\* What the IndexedList holds after PushFront was there or is the new id.
LEMMA PushFrontElements ==
  ASSUME NEW l \in Seq(Rows), NEW r \in Rows
  PROVE  /\ PushFront(l, r) \in Seq(Rows)
         /\ Elements(PushFront(l, r)) \subseteq Elements(l) \cup {r}
<1> DEFINE longer == <<r>> \o l
<1>1. /\ longer \in Seq(Rows)
      /\ Len(longer) = Len(l) + 1
      /\ \A j \in 1 .. Len(longer) : longer[j] = IF j = 1 THEN r ELSE l[j - 1]
  OBVIOUS
<1>2. Elements(longer) \subseteq Elements(l) \cup {r}
  BY <1>1 DEF Elements
<1>3. ASSUME Len(longer) > MaxSizedList
      PROVE  /\ SubSeq(longer, 1, MaxSizedList) \in Seq(Rows)
             /\ Elements(SubSeq(longer, 1, MaxSizedList)) \subseteq Elements(longer)
  <2> DEFINE cut == SubSeq(longer, 1, MaxSizedList)
  <2>1. /\ cut \in Seq(Rows)
        /\ Len(cut) = MaxSizedList
        /\ \A j \in 1 .. MaxSizedList : cut[j] = longer[j]
    BY <1>1, <1>3, IndexerAssumption
  <2>2. 1 .. MaxSizedList \subseteq 1 .. Len(longer)
    BY <1>1, <1>3, IndexerAssumption
  <2> QED
    BY <2>1, <2>2 DEF Elements
<1> QED
  BY <1>1, <1>2, <1>3 DEF PushFront

LEMMA InitIInv == Init => IInv
<1> SUFFICES ASSUME Init PROVE IInv
  OBVIOUS
<1>1. TypeOK
  BY IndexerAssumption DEF Init, TypeOK, Job, NoJob
<1>2. SendReady /\ WorkDone /\ ProcessedIndexed /\ ListProcessed
  BY DEF Init, SendReady, WorkDone, ProcessedIndexed, ListProcessed, Elements
<1> QED
  BY <1>1, <1>2 DEF IInv

-----------------------------------------------------------------------------
(* The three kinds of step.                                                 *)

LEMMA ProduceStep ==
  ASSUME IInv, NEW m \in Machines, NEW r \in Rows, Produce(m, r)
  PROVE  IInv'
<1> USE IndexerAssumption DEF IInv
<1>1. [row |-> r, errs |-> 0] \in Job
  BY DEF Job
<1>2. localTxPool' \in [Machines -> Seq(Job)]
      /\ \A n \in Machines : Len(localTxPool'[n]) <= MaxTxPoolSize
  <2> DEFINE longer == Append(localTxPool[m], [row |-> r, errs |-> 0])
  <2>1. localTxPool[m] \in Seq(Job)
    BY DEF TypeOK
  <2>2. longer \in Seq(Job) /\ Len(longer) = Len(localTxPool[m]) + 1
    BY <1>1, <2>1
  <2>3. CASE Len(localTxPool[m]) < MaxTxPoolSize
    <3>1. localTxPool' = [localTxPool EXCEPT ![m] = longer] /\ Len(longer) <= MaxTxPoolSize
      BY <2>1, <2>2, <2>3 DEF Produce
    <3> HIDE DEF longer
    <3> QED
      BY <2>2, <3>1 DEF TypeOK
  <2>4. CASE ~(Len(localTxPool[m]) < MaxTxPoolSize)
    BY <2>4 DEF Produce, TypeOK
  <2> QED
    BY <2>3, <2>4
<1>3. TypeOK'
  BY <1>2 DEF Produce, TypeOK, iterVars, workVars, MayFail
<1>4. SendReady' /\ WorkDone' /\ ProcessedIndexed' /\ ListProcessed'
  BY DEF Produce, SendReady, WorkDone, ProcessedIndexed, ListProcessed, iterVars,
         workVars, Elements
<1> QED
  BY <1>3, <1>4

\* The iterator touches neither the database nor the workers.
LEMMA IterateStep ==
  ASSUME IInv, NEW m \in Machines, Iterate(m) \/ BreakOff(m)
  PROVE  IInv'
<1> USE IndexerAssumption DEF IInv
<1>0. UNCHANGED <<txPool, processed, index, indexedList, pc, job>>
  BY DEF Iterate, Select, Visit, Send, EndLoop, EndWait, BreakOff, dbVars, workVars
<1>1. WorkDone' /\ ProcessedIndexed' /\ ListProcessed'
  BY <1>0 DEF WorkDone, ProcessedIndexed, ListProcessed, Elements
<1>2. CASE Select(m)
  BY <1>0, <1>1, <1>2 DEF Select, TypeOK, SendReady
<1>3. CASE Visit(m)
  <2>1. TypeOK'
    <3>1. PICK r \in result[m] :
            /\ result' = [result EXCEPT ![m] = @ \ {r}]
            /\ \/ UNCHANGED <<ipc, current, readMessages>>
               \/ /\ ipc' = [ipc EXCEPT ![m] = "send"]
                  /\ current' = [current EXCEPT ![m] = r]
                  /\ readMessages' = [readMessages EXCEPT ![m] = @ + 1]
      BY <1>3 DEF Visit
    <3>2. /\ readMessages[m] + 1 \in Nat
          /\ r \in Rows
          /\ result[m] \ {r} \in SUBSET Rows
      BY DEF TypeOK
    <3>3. result' \in [Machines -> SUBSET Rows]
      BY <3>1, <3>2 DEF TypeOK
    <3>4. CASE UNCHANGED <<ipc, current, readMessages>>
      BY <1>0, <1>3, <3>3, <3>4 DEF Visit, TypeOK
    <3>5. CASE /\ ipc' = [ipc EXCEPT ![m] = "send"]
               /\ current' = [current EXCEPT ![m] = r]
               /\ readMessages' = [readMessages EXCEPT ![m] = @ + 1]
      <4>1. readMessages' \in [Machines -> Nat]
        BY <3>2, <3>5 DEF TypeOK
      <4>2. ipc' \in [Machines -> {"select", "loop", "send", "wait"}]
        BY <3>5 DEF TypeOK
      <4>3. current' \in [Machines -> Rows \cup {NoRow}]
        BY <3>2, <3>5 DEF TypeOK
      <4> QED
        BY <1>0, <1>3, <3>3, <4>1, <4>2, <4>3 DEF Visit, TypeOK
    <3> QED
      BY <3>1, <3>4, <3>5
  <2>2. SendReady'
    BY <1>3 DEF Visit, TypeOK, SendReady
  <2> QED
    BY <1>1, <2>1, <2>2
<1>4. CASE Send(m)
  <2>1. [row |-> current[m], errs |-> cell[m]] \in Job
    BY <1>4 DEF Send, TypeOK, SendReady, Job
  <2>2. /\ localTxPool' \in [Machines -> Seq(Job)]
        /\ \A n \in Machines : Len(localTxPool'[n]) <= MaxTxPoolSize
    BY <1>4, <2>1 DEF Send, TypeOK
  <2>3. TypeOK'
    BY <1>0, <1>4, <2>2 DEF Send, TypeOK
  <2>4. SendReady'
    BY <1>4 DEF Send, TypeOK, SendReady
  <2> QED
    BY <1>1, <2>3, <2>4
<1>5. CASE EndLoop(m) \/ EndWait(m) \/ BreakOff(m)
  <2>1. UNCHANGED <<localTxPool, errSet, current, cell, readMessages>>
    BY <1>5 DEF EndLoop, EndWait, BreakOff
  <2>2. /\ ipc' = [ipc EXCEPT ![m] = "wait"] \/ ipc' = [ipc EXCEPT ![m] = "select"]
        /\ result' = [result EXCEPT ![m] = {}] \/ result' = result
    BY <1>5 DEF EndLoop, EndWait, BreakOff
  <2>3. failures' \in Nat
    BY <1>5 DEF EndLoop, EndWait, BreakOff, MayFail, TypeOK
  <2>4. TypeOK'
    BY <1>0, <2>1, <2>2, <2>3 DEF TypeOK
  <2>5. SendReady'
    BY <2>1, <2>2 DEF TypeOK, SendReady
  <2> QED
    BY <1>1, <2>4, <2>5
<1> QED
  BY <1>2, <1>3, <1>4, <1>5 DEF Iterate

\* A worker's steps: the row is indexed before it is marked, and marked before
\* it is remembered.
LEMMA WorkStep ==
  ASSUME IInv, NEW w \in Threads, Work(w) \/ Fail(w)
  PROVE  IInv'
<1> USE IndexerAssumption DEF IInv
<1>0. UNCHANGED <<txPool, iterVars>>
  BY DEF Work, Receive, Admit, Process, Refuse, Abandon, UpdateStatus, Remember, Fail,
         dbVars
<1>1. SendReady'
  BY <1>0 DEF SendReady, iterVars
<1>2. MachineOf[w] \in Machines
  OBVIOUS
<1>4. CASE Receive(w)
  <2>1. Head(localTxPool[MachineOf[w]]) \in Job
    BY <1>2, <1>4 DEF Receive, TypeOK
  <2>2. /\ Tail(localTxPool[MachineOf[w]]) \in Seq(Job)
        /\ Len(Tail(localTxPool[MachineOf[w]])) <= MaxTxPoolSize
    BY <1>2, <1>4 DEF Receive, TypeOK
  <2>3. TypeOK'
    BY <1>0, <1>2, <1>4, <2>1, <2>2 DEF Receive, TypeOK, dbVars, iterVars
  <2>4. WorkDone' /\ ProcessedIndexed' /\ ListProcessed'
    BY <1>4, <2>1 DEF Receive, TypeOK, WorkDone, ProcessedIndexed, ListProcessed,
       dbVars, Elements
  <2> QED
    BY <1>1, <2>3, <2>4
<1>5. CASE Admit(w)
  <2>1. TypeOK'
    BY <1>0, <1>5 DEF Admit, TypeOK, dbVars, iterVars
  <2>2. WorkDone' /\ ProcessedIndexed' /\ ListProcessed'
    BY <1>5 DEF Admit, TypeOK, WorkDone, ProcessedIndexed, ListProcessed, dbVars,
       Elements
  <2> QED
    BY <1>1, <2>1, <2>2
<1>6. CASE Process(w)
  <2>1. job[w] \in Job /\ job[w].row \in Rows
    BY <1>6 DEF Process, WorkDone, Job
  <2>2. TypeOK'
    BY <1>0, <1>6, <2>1 DEF Process, TypeOK, iterVars
  <2>3. WorkDone' /\ ProcessedIndexed' /\ ListProcessed'
    BY <1>6, <2>1 DEF Process, TypeOK, WorkDone, ProcessedIndexed, ListProcessed,
       Elements
  <2> QED
    BY <1>1, <2>2, <2>3
<1>7. CASE UpdateStatus(w)
  <2>1. job[w] \in Job /\ job[w].row \in Rows /\ job[w].row \in index
    BY <1>7 DEF UpdateStatus, WorkDone, Job
  <2>2. TypeOK'
    BY <1>0, <1>7, <2>1 DEF UpdateStatus, TypeOK, iterVars
  <2>3. WorkDone' /\ ProcessedIndexed' /\ ListProcessed'
    BY <1>7, <2>1 DEF UpdateStatus, TypeOK, WorkDone, ProcessedIndexed, ListProcessed,
       Elements
  <2> QED
    BY <1>1, <2>2, <2>3
<1>8. CASE Remember(w)
  <2>1. job[w].row \in Rows /\ job[w].row \in processed
    BY <1>8 DEF Remember, WorkDone, Job
  <2> DEFINE m == MachineOf[w]
             l == PushFront(indexedList[m], job[w].row)
  <2>2. l \in Seq(Rows) /\ Elements(l) \subseteq Elements(indexedList[m]) \cup {job[w].row}
    BY <1>2, <2>1, PushFrontElements DEF TypeOK
  <2> HIDE DEF l
  <2>3. indexedList' = [indexedList EXCEPT ![m] = l]
    BY <1>8 DEF Remember, l
  <2>4. TypeOK'
    BY <1>0, <1>8, <2>2, <2>3 DEF Remember, TypeOK, dbVars, iterVars
  <2>5. \A n \in Machines : Elements(indexedList'[n]) \subseteq processed
    BY <1>2, <2>1, <2>2, <2>3 DEF ListProcessed, TypeOK
  <2>6. ListProcessed'
    BY <1>8, <2>5 DEF ListProcessed, Remember, dbVars, Elements
  <2>7. WorkDone' /\ ProcessedIndexed'
    BY <1>8 DEF Remember, TypeOK, WorkDone, ProcessedIndexed, dbVars
  <2> QED
    BY <1>1, <2>4, <2>6, <2>7
<1>9. CASE Refuse(w) \/ Fail(w)
  <2>1. job[w] \in Job /\ job[w].row \in Rows /\ pc[w] \in {"process", "status"}
    BY <1>9 DEF Refuse, Fail, WorkDone, Job
  <2>2. /\ Abandon(w)
        /\ failures' \in Nat
        /\ \/ index' = index /\ processed' = processed
           \/ index' = index \cup {job[w].row} /\ processed' = processed
           \/ index' = index /\ processed' = processed \cup {job[w].row} /\ pc[w] = "status"
    BY <1>9 DEF Refuse, Fail, MayFail, TypeOK
  <2>3. /\ job' = [job EXCEPT ![w] = NoJob] /\ pc' = [pc EXCEPT ![w] = "idle"]
        /\ UNCHANGED <<localTxPool, indexedList>>
        /\ errSet' \in [Machines -> SUBSET Cells]
    BY <1>2, <2>2 DEF Abandon, TypeOK
  <2>4. TypeOK'
    BY <1>0, <2>1, <2>2, <2>3 DEF TypeOK, iterVars
  <2>5. WorkDone' /\ ProcessedIndexed'
    BY <2>1, <2>2, <2>3 DEF TypeOK, WorkDone, ProcessedIndexed
  <2>6. ListProcessed'
    BY <2>2, <2>3 DEF ListProcessed, Elements
  <2> QED
    BY <1>1, <2>4, <2>5, <2>6
<1> QED
  BY <1>4, <1>5, <1>6, <1>7, <1>8, <1>9 DEF Work

LEMMA CrashStep ==
  ASSUME IInv, NEW m \in Machines, Crash(m)
  PROVE  IInv'
<1> USE IndexerAssumption DEF IInv
<1>1. TypeOK'
  BY DEF Crash, TypeOK, dbVars, NoJob, MayFail
<1>2. SendReady' /\ WorkDone' /\ ProcessedIndexed'
  BY DEF Crash, TypeOK, SendReady, WorkDone, ProcessedIndexed, dbVars
<1>3. ListProcessed'
  BY DEF Crash, TypeOK, ListProcessed, dbVars, Elements
<1> QED
  BY <1>1, <1>2, <1>3

LEMMA StepIInv == IInv /\ [Next]_vars => IInv'
<1> SUFFICES ASSUME IInv, [Next]_vars PROVE IInv'
  OBVIOUS
<1>1. CASE UNCHANGED vars
  BY <1>1 DEF IInv, TypeOK, SendReady, WorkDone, ProcessedIndexed, ListProcessed,
     Elements, vars, dbVars, workVars, iterVars
<1>2. CASE Next
  BY <1>2, ProduceStep, IterateStep, WorkStep, CrashStep DEF Next
<1> QED
  BY <1>1, <1>2

-----------------------------------------------------------------------------
\* The inductive invariant.
THEOREM IndexerInvariant == Spec => []IInv
BY InitIInv, StepIInv, PTL DEF Spec

\* Types, and no channel beyond its capacity.
THEOREM IndexerTypeOK == Spec => []TypeOK
<1>1. IInv => TypeOK
  BY DEF IInv
<1> QED
  BY <1>1, IndexerInvariant, PTL

\* handleTxPool marks a row processed only after its effect is in the index.
THEOREM IndexerProcessedIndexed == Spec => []ProcessedIndexed
<1>1. IInv => ProcessedIndexed
  BY DEF IInv
<1> QED
  BY <1>1, IndexerInvariant, PTL

\* The IndexedList never hides a row that still needs processing.
THEOREM IndexerListProcessed == Spec => []ListProcessed
<1>1. IInv => ListProcessed
  BY DEF IInv
<1> QED
  BY <1>1, IndexerInvariant, PTL
=============================================================================
