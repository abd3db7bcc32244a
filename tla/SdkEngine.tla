------------------------------- MODULE SdkEngine -------------------------------
(***************************************************************************)
(* The measurements of a service, from the middleware of the SDK to Redis:  *)
(* fastapi_alertengine/middleware.py, engine.py and storage.py, in several   *)
(* processes (instances) of the one service.                                *)
(*                                                                         *)
(* The middleware queues one metric for every request.  drain() takes them  *)
(* in batches, adds them up in memory by minute and endpoint, writes them   *)
(* to a stream and publishes the minutes that are over.  Nothing in a pass  *)
(* of drain() awaits, so it is one step.  Time is counted in flush          *)
(* intervals, of which a minute has Bucket.                                 *)
(***************************************************************************)
EXTENDS Naturals, Sequences, FiniteSets, FiniteSetsExt, SequencesExt

CONSTANTS
  Instances,   \* processes of the service
  Fields,      \* path|method|status group
  Bucket,      \* agg_bucket_seconds, in flush intervals
  QueueSize,   \* MAX_QUEUE_SIZE
  BatchSize,   \* _DRAIN_BATCH_SIZE
  MaxKeys,     \* MAX_AGG_KEYS
  CbThreshold, \* circuit_breaker_threshold
  BufferSize,  \* memory_buffer_maxlen
  MaxTime,     \* bound on the clock
  MaxMetrics,  \* bound on the requests served
  MaxRuns      \* bound on the runs of an instance

ASSUME EngineAssumption ==
  /\ IsFiniteSet(Instances)
  /\ {Bucket, QueueSize, BatchSize, MaxKeys, CbThreshold, MaxRuns} \subseteq Nat \ {0}
  /\ {BufferSize, MaxTime, MaxMetrics} \subseteq Nat

VARIABLES
  now,        \* flush intervals since the start
  run,        \* runs of an instance: from its start to its final flush, and what
              \* drain() does after that flush as a run of its own
  mode,       \* down, or what start() found: redis or memory
  stopping,   \* instances that have made their final flush and still run
  queue,      \* _queue
  agg,        \* _agg: counts of (minute, field), for those that have any
  flushed,    \* _last_agg_flush_ts
  cb,         \* the circuit breaker of the writes, and its buffer
  hash,       \* the published counts in Redis, 0 for none
  stream,     \* metrics written to the stream
  served,     \* metrics the middleware has tried to queue
  seen,       \* metrics aggregated, of every (minute, field)
  writers,    \* runs that published something of it
  failed      \* minutes some of whose counts were lost on the way

vars == <<now, run, mode, stopping, queue, agg, flushed, cb, hash, stream, served,
          seen, writers, failed>>

redisVars == <<hash, stream>>
history   == <<seen, writers, failed>>

-------------------------------------------------------------------------------
Minute == now \div Bucket
Keys == (0..(MaxTime \div Bucket)) \X Fields

Closed == [state |-> "closed", failures |-> 0, buffer |-> <<>>, dropped |-> 0]
Nothing == [k \in {} |-> 0]

Init == /\ now = 0
        /\ run = [i \in Instances |-> 0]
        /\ mode = [i \in Instances |-> "down"]
        /\ stopping = {}
        /\ queue = [i \in Instances |-> <<>>]
        /\ agg = [i \in Instances |-> Nothing]
        /\ flushed = [i \in Instances |-> 0]
        /\ cb = [i \in Instances |-> Closed]
        /\ hash = [k \in Keys |-> 0]
        /\ stream = 0
        /\ served = 0
        /\ seen = [k \in Keys |-> 0]
        /\ writers = [k \in Keys |-> {}]
        /\ failed = {}

(* start(): a ping decides, for as long as the process lives, whether it uses *)
(* Redis.                                                                     *)
Start(i) ==
  /\ mode[i] = "down"
  /\ run[i] < MaxRuns
  /\ run' = [run EXCEPT ![i] = @ + 1]
  /\ \E m \in {"redis", "memory"} : mode' = [mode EXCEPT ![i] = m]
  /\ flushed' = [flushed EXCEPT ![i] = 0]
  /\ cb' = [cb EXCEPT ![i] = Closed]
  /\ UNCHANGED <<now, stopping, queue, agg, redisVars, served, history>>

ServeAll(i, f) ==    \* a queue without a limit
  /\ mode[i] # "down" /\ i \notin stopping
  /\ served < MaxMetrics
  /\ served' = served + 1
  /\ queue' = [queue EXCEPT ![i] = Append(@, f)]
  /\ UNCHANGED <<now, run, mode, stopping, agg, flushed, cb, redisVars, history>>

(* enqueue_metric drops what does not fit, and counts that.                   *)
Queued(q, f) == IF Len(q) < QueueSize THEN Append(q, f) ELSE q

(* The middleware, after a request.                                           *)
Serve(i, f) ==
  /\ mode[i] # "down" /\ i \notin stopping
  /\ served < MaxMetrics
  /\ served' = served + 1
  /\ queue' = [queue EXCEPT ![i] = Queued(@, f)]
  /\ UNCHANGED <<now, run, mode, stopping, agg, flushed, cb, redisVars, history>>

-------------------------------------------------------------------------------
(* _aggregate_batch: counts by the minute of the pass.  A field new to it is  *)
(* left out if its first metric finds MaxKeys keys.                           *)
Of(batch, f) == {j \in DOMAIN batch : batch[j] = f}
Sooner(batch, g, f) == \E j \in Of(batch, g) : \A m \in Of(batch, f) : j < m

NewFields(counts, batch) == {f \in Range(batch) : <<Minute, f>> \notin DOMAIN counts}
Admitted(counts, batch) ==
  LET new == NewFields(counts, batch)
  IN  {f \in new : Cardinality(DOMAIN counts)
                     + Cardinality({g \in new : Sooner(batch, g, f)}) < MaxKeys}

Aggregated(counts, batch) ==
  [k \in DOMAIN counts \cup ({Minute} \X Admitted(counts, batch)) |->
     (IF k \in DOMAIN counts THEN counts[k] ELSE 0)
       + IF k[1] = Minute THEN Cardinality(Of(batch, k[2])) ELSE 0]

(* _cb_should_attempt_write lets a write through an open breaker when the     *)
(* cooldown is over; _cb_record_success and _cb_record_failure.               *)
Probed(b) == [b EXCEPT !.state = IF @ = "open" THEN "half_open" ELSE @]
Succeeded(b) == [Closed EXCEPT !.buffer = IF b.state = "closed" THEN b.buffer ELSE <<>>,
                               !.dropped = b.dropped]
Failed(b) ==
  [b EXCEPT !.failures = @ + 1,
            !.state = IF @ = "half_open" \/ (@ = "closed" /\ b.failures + 1 >= CbThreshold)
                      THEN "open" ELSE @]

Kept(b, batch) ==
  LET room == BufferSize - Len(b.buffer)
      kept == IF room < Len(batch) THEN room ELSE Len(batch)
  IN  [b EXCEPT !.buffer = @ \o SubSeq(batch, 1, kept), !.dropped = @ + Len(batch) - kept]

(* write_batch catches every error, and whoever calls it cannot tell a batch  *)
(* that was written from one that was not.                                    *)
WriteOutcomes == {"written", "swallowed"}

(* _cb_write_batch_safe, which drains the buffer as well when a write         *)
(* succeeds: the breaker after it and what was written.                       *)
Skip(b, batch)  == [cb |-> Kept(b, batch), wrote |-> 0]
Write(b, batch, outcome) ==
  LET n == Len(batch) + (IF b.state = "closed" THEN 0 ELSE Len(b.buffer))
  IN  CASE outcome = "raised"    -> [cb |-> Kept(Failed(b), batch), wrote |-> 0]
        [] outcome = "written"   -> [cb |-> Succeeded(b), wrote |-> n]
        [] outcome = "swallowed" -> [cb |-> Succeeded(b), wrote |-> 0]

SafeWrites(b, batch) ==
  {Write(Probed(b), batch, outcome) : outcome \in WriteOutcomes}
    \cup IF b.state = "open" THEN {Skip(b, batch)} ELSE {}

(* _flush_aggregates once an interval is over: the minutes before this one    *)
(* leave the memory, for Redis if it answers.  If it stops answering halfway,  *)
(* part of them is written.                                                   *)
Due(i) == now > flushed[i]

Publish(i, counts, keys, lost) ==
  \E part \in SUBSET keys :
    /\ part # {} => mode[i] = "redis"
    /\ hash' = [k \in Keys |-> IF k \in part THEN counts[k] ELSE hash[k]]
    /\ writers' = [k \in Keys |-> IF k \in part THEN writers[k] \cup {<<i, run[i]>>}
                                  ELSE writers[k]]
    /\ failed' = failed \cup lost \cup IF part = keys THEN {} ELSE {k[1] : k \in keys}

Without(counts, keys) == [k \in DOMAIN counts \ keys |-> counts[k]]

AnyMinute(counts)   == DOMAIN counts
LongPast(counts)    == {k \in DOMAIN counts : k[1] + 1 < Minute}
PastMinutes(counts) == {k \in DOMAIN counts : k[1] < Minute}

(* A pass of drain().                                                         *)
Drain(i) ==
  LET n      == Min({BatchSize, Len(queue[i])})
      batch  == SubSeq(queue[i], 1, n)
      counts == Aggregated(agg[i], batch)
      keys   == IF Due(i) THEN PastMinutes(counts) ELSE {}
      lost   == IF Admitted(agg[i], batch) = NewFields(agg[i], batch) THEN {} ELSE {Minute}
  IN
  /\ mode[i] # "down"
  /\ n > 0 \/ Due(i)
  /\ queue' = [queue EXCEPT ![i] = SubSeq(@, n + 1, Len(@))]
  /\ agg' = [agg EXCEPT ![i] = Without(counts, keys)]
  /\ flushed' = [flushed EXCEPT ![i] = now]
  /\ seen' = [k \in Keys |-> IF k[1] = Minute THEN seen[k] + Cardinality(Of(batch, k[2]))
                             ELSE seen[k]]
  /\ IF mode[i] = "memory" \/ n = 0 THEN UNCHANGED <<cb, stream>>
     ELSE \E result \in SafeWrites(cb[i], batch) :
            /\ cb' = [cb EXCEPT ![i] = result.cb]
            /\ stream' = stream + result.wrote
  /\ Publish(i, counts, keys, lost)
  /\ UNCHANGED <<now, run, mode, stopping, served>>

(* Shutdown, after the last request: flush_all_aggregates publishes what is   *)
(* in memory, this minute's counts included.  The queue is not drained, and   *)
(* drain() is not cancelled: it may make further passes until the process is  *)
(* gone.                                                                      *)
Stop(i) ==
  /\ mode[i] # "down" /\ i \notin stopping
  /\ run[i] < MaxRuns
  /\ run' = [run EXCEPT ![i] = @ + 1]
  /\ stopping' = stopping \cup {i}
  /\ agg' = [agg EXCEPT ![i] = Nothing]
  /\ Publish(i, agg[i], DOMAIN agg[i], {})
  /\ UNCHANGED <<now, mode, queue, flushed, cb, stream, served, seen>>

(* The process ends, of itself after its final flush or killed before it, and *)
(* its memory is gone.                                                        *)
Kill(i) ==
  /\ mode[i] # "down"
  /\ mode' = [mode EXCEPT ![i] = "down"]
  /\ stopping' = stopping \ {i}
  /\ queue' = [queue EXCEPT ![i] = <<>>]
  /\ agg' = [agg EXCEPT ![i] = Nothing]
  /\ cb' = [cb EXCEPT ![i] = Closed]
  /\ failed' = failed \cup {k[1] : k \in DOMAIN agg[i]}
  /\ UNCHANGED <<now, run, flushed, redisVars, served, seen, writers>>

Tick == /\ now < MaxTime
        /\ now' = now + 1
        /\ UNCHANGED <<run, mode, stopping, queue, agg, flushed, cb, redisVars, served,
                       history>>

Next == \/ \E i \in Instances : \/ Start(i) \/ Drain(i) \/ Stop(i) \/ Kill(i)
                                \/ \E f \in Fields : Serve(i, f)
        \/ Tick

Spec == Init /\ [][Next]_vars

(* drain() is a task of the event loop that sleeps and goes on.               *)
FairSpec == Spec /\ WF_vars(Tick) /\ \A i \in Instances : WF_vars(Drain(i))

-------------------------------------------------------------------------------
(* The state of each instance and what is in Redis keep their types.          *)
TypeOK == /\ now \in 0..MaxTime
          /\ run \in [Instances -> 0..MaxRuns]
          /\ mode \in [Instances -> {"down", "redis", "memory"}]
          /\ stopping \subseteq Instances
          /\ \A i \in Instances :
               /\ queue[i] \in Seq(Fields) /\ Len(queue[i]) <= QueueSize
               /\ DOMAIN agg[i] \subseteq Keys /\ Cardinality(DOMAIN agg[i]) <= MaxKeys
               /\ \A k \in DOMAIN agg[i] : agg[i][k] \in 1..MaxMetrics
               /\ Len(cb[i].buffer) <= BufferSize
               /\ cb[i].state \in {"closed", "open", "half_open"}
          /\ flushed \in [Instances -> 0..MaxTime]
          /\ hash \in [Keys -> 0..MaxMetrics]
          /\ failed \subseteq 0..(MaxTime \div Bucket)

(* Who has counted an endpoint's minute, and the metrics it comes to.         *)
Counting(k) == {i \in Instances : k \in DOMAIN agg[i]}
InMemory(k) == {o \in Instances \X (1..MaxMetrics) :
                  k \in DOMAIN agg[o[1]] /\ o[2] <= agg[o[1]][k]}

(* The published count of an endpoint's minute and those still in memory are  *)
(* together every metric aggregated for it, as long as one run of one         *)
(* instance has it all to itself, there was room for it and Redis took what   *)
(* was published: no metric is counted twice, late or in a minute already     *)
(* published.                                                                 *)
MinutesExact ==
  \A k \in Keys :
    (/\ k[1] \notin failed
     /\ Counting(k) # {} => writers[k] = {}
     /\ Cardinality(writers[k]) <= 1)
      => hash[k] + Cardinality(InMemory(k)) = seen[k]

(* A minute that is over leaves the memory of every instance, if any of them  *)
(* measured anything in it.                                                   *)
MinutesPublished ==
  \A i \in Instances, k \in Keys :
    (k[1] < MaxTime \div Bucket /\ k \in DOMAIN agg[i]) ~> k \notin DOMAIN agg[i]

===============================================================================
