--------------------------- MODULE ResponseCache ---------------------------
(***************************************************************************)
(* The cache of API responses: LCache (utils/ttlmapcache.go) behind        *)
(* DelayCache (utils/delay_cache.go), whose single worker stores what the  *)
(* handlers leave in its queue.  A key of the map stands for itself: its   *)
(* bucket is one of 256 the keys are spread over, and a step on a key      *)
(* holds the lock of its bucket.                                           *)
(***************************************************************************)
EXTENDS Clock, Sequences

CONSTANTS
  TTL,              \* TTL of a response, in ticks
  WorkerQueueSize   \* capacity of the worker's channel

ASSUME CacheAssumption == TTL \in Nat /\ WorkerQueueSize \in Nat

VARIABLES
  items,    \* bucket.m: key -> [value, expire]
  jobCh,    \* the worker's channel: <<[key, value], ...>>
  job,      \* what the worker took from it: at most one job
  sweep     \* keys collected by expire() and not yet looked at again

cacheVars == <<items, jobCh, job, sweep>>

Expired(k) == now > items[k].expire

\* LCache.Get
Hit(k) == k \in DOMAIN items /\ ~Expired(k)

\* Mutant: the channel has no capacity.
TryEnqueUnbounded(j) == jobCh' = Append(jobCh, j)

\* Worker.TryEnque: a job that finds the channel full is dropped.
TryEnque(j) ==
  jobCh' = IF Len(jobCh) < WorkerQueueSize THEN Append(jobCh, j) ELSE jobCh

\* LCache.Put: a key that is there keeps its value and lives longer.
Put(k, v) ==
  LET value == IF k \in DOMAIN items THEN items[k].value ELSE v
  IN  items' = [x \in DOMAIN items \cup {k} |->
                  IF x = k THEN [value |-> value, expire |-> now + TTL]
                  ELSE items[x]]

\* The worker takes a job ...
Take ==
  /\ job = << >> /\ jobCh # << >>
  /\ job' = <<Head(jobCh)>>
  /\ jobCh' = Tail(jobCh)
  /\ UNCHANGED <<now, items, sweep>>

\* ... and DelayCache.Processor stores it.
Store ==
  /\ job # << >>
  /\ Put(job[1].key, job[1].value)
  /\ job' = << >>
  /\ UNCHANGED <<now, jobCh, sweep>>

\* LCache.expire, once a second: collects the expired keys of a bucket ...
Collect(k) ==
  /\ k \in DOMAIN items \ sweep
  /\ Expired(k)
  /\ sweep' = sweep \cup {k}
  /\ UNCHANGED <<now, items, jobCh, job>>

\* Mutant: deletes what it collected without looking again.
DeleteUnchecked(k) ==
  /\ k \in sweep
  /\ sweep' = sweep \ {k}
  /\ items' = [x \in DOMAIN items \ {k} |-> items[x]]
  /\ UNCHANGED <<now, jobCh, job>>

\* ... and then takes the lock for each of them and looks again.
Delete(k) ==
  /\ k \in sweep
  /\ sweep' = sweep \ {k}
  /\ items' = IF k \in DOMAIN items /\ Expired(k)
              THEN [x \in DOMAIN items \ {k} |-> items[x]] ELSE items
  /\ UNCHANGED <<now, jobCh, job>>

CacheInit == items = << >> /\ jobCh = << >> /\ job = << >> /\ sweep = {}

CacheNext ==
  \/ Take \/ Store
  \/ \E k \in DOMAIN items \cup sweep : Collect(k) \/ Delete(k)
=============================================================================
