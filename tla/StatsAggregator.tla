--------------------------- MODULE StatsAggregator ---------------------------
(***************************************************************************)
(* The stats aggregator thread of the monitor server,                     *)
(* src/src/monitor-server/threads/stats-aggregator.thread.ts, run by      *)
(* several replicas against one Redis.                                     *)
(*                                                                         *)
(* Each replica's ticker calls run(): acquireLock(keyLockStatsAggregator, *)
(* 10000 ms, blocking) and then a waterfall of Redis round trips: reset,  *)
(* getRates (HGETALL keyIndexRates, fold the fresh rates into `data`,     *)
(* HDEL the expired fields without waiting), getConsumersHeartbeats,      *)
(* getQueues/getQueueSize, getDLQQueues/getQueueSize, sanitizeData and    *)
(* publish; its callback ticks again.  An error anywhere is thrown, which *)
(* ends the thread.  The lock is never released: it lapses after its TTL. *)
(* Each round trip is one step.  The namespace/queue layer of `data` is   *)
(* one queue, and queue sizes are not kept: no property reads them.       *)
(***************************************************************************)
EXTENDS Naturals, FiniteSetsExt, Functions, TLC, LockManager

CONSTANTS
    Replicas,       \* monitor servers running the thread
    Producers,      \* producer ids with a rate field
    Consumers,      \* consumer ids with rate fields and a heartbeat
    ConsumerTypes,  \* KEY_RATE_CONSUMER_{PROCESSING,ACKNOWLEDGED,...}
    RateValues,     \* the rates a writer may store
    RateExpiry,     \* hasExpired: older than 1000 ms
    MaxTime,        \* the clock stops here
    RedisErrors     \* whether a command may answer an error

ASSUME RedisErrors \in BOOLEAN

VARIABLES
    now,        \* Date.now()
    lock,       \* keyLockStatsAggregator: [owner, expiry]
    index,      \* keyIndexRates: rate key -> [rate, ts]
    online,     \* consumers whose keyHeartBeat field is fresh (10000 ms)
    pc,         \* pc[r]: the round trip replica r waits for
    data,       \* data[r]: this.data of replica r
    expired,    \* expired[r]: the fields its pending HDEL deletes
    seen        \* history: what replica r read in this cycle

vars == <<now, lock, index, online, pc, data, expired, seen>>

Kinds == {"input"} \cup ConsumerTypes

RateKeys == {[type |-> "input", id |-> p] : p \in Producers}
            \cup {[type |-> t, id |-> c] : t \in ConsumerTypes, c \in Consumers}

(* f is a function from part of S to T. *)
IsPartial(f, S, T) == DOMAIN f \subseteq S /\ \A x \in DOMAIN f : f[x] \in T

(* TAggregatedStatsQueueConsumer: rates and resources are optional.     *)
ConsumerStats == [hasRates : BOOLEAN, rates : [ConsumerTypes -> Nat],
                  resources : BOOLEAN]

(* TAggregatedStats for the one queue: the total rates by kind, and the   *)
(* producers' input rates and the consumers' stats by id.                *)
IsStats(d) ==
    /\ DOMAIN d = {"rates", "producers", "consumers"}
    /\ d.rates \in [Kinds -> Nat]
    /\ IsPartial(d.producers, Producers, Nat)
    /\ IsPartial(d.consumers, Consumers, ConsumerStats)

(* The steps of a cycle, each waiting for one Redis reply. *)
CycleSteps == {"rates", "hdel", "beats", "queues", "sizes", "dlq", "dlqsizes",
               "publish"}

(* The outcomes a command's callback may see. *)
Outcomes == IF RedisErrors THEN {TRUE, FALSE} ELSE {TRUE}

-----------------------------------------------------------------------------
(* reset(): this.data with zero rates and no queues. *)
Reset == [rates |-> [k \in Kinds |-> 0], producers |-> <<>>,
          consumers |-> <<>>]

(* hasExpired(timestamp): now - timestamp > 1000. *)
HasExpired(ts) == now - ts > RateExpiry

(* addConsumerIfNotExists: a new consumer has neither rates nor resources. *)
AddConsumer(d, c) ==
    IF c \in DOMAIN d.consumers THEN d.consumers[c]
    ELSE [hasRates |-> FALSE, rates |-> [t \in ConsumerTypes |-> 0],
          resources |-> FALSE]

(* addProducerIfNotExists: a new producer has input rate 0. *)
AddProducer(d, p) ==
    IF p \in DOMAIN d.producers THEN d.producers ELSE (p :> 0) @@ d.producers

(* handleProducerRate: add to the input total, set the producer's rate. *)
HandleProducerRate(d, p, v) ==
    [d EXCEPT !.rates["input"] = @ + v,
              !.producers = [AddProducer(d, p) EXCEPT ![p] = v]]

(* handleConsumerRate: give the consumer rates (missing ones 0), add to  *)
(* the total of the type and set the consumer's rate of the type.        *)
HandleConsumerRate(d, c, t, v) ==
    LET cs == AddConsumer(d, c)
    IN  [d EXCEPT !.rates[t] = @ + v,
                  !.consumers = (c :> [cs EXCEPT !.hasRates = TRUE,
                                                 !.rates[t] = v]) @@ @]

HandleRateSwapped(k, d) ==
    IF k.type = "input"
    THEN HandleConsumerRate(d, k.id, CHOOSE t \in ConsumerTypes : TRUE, index[k].rate)
    ELSE HandleProducerRate(d, k.id, index[k].rate)

(* One field of the HGETALL reply, dispatched on the extracted key. *)
HandleRate(k, d) ==
    IF k.type = "input" THEN HandleProducerRate(d, k.id, index[k].rate)
    ELSE HandleConsumerRate(d, k.id, k.type, index[k].rate)

SanitizeNeedsBoth(d) ==
    [d EXCEPT !.consumers = RestrictValues(@, LAMBDA s : s.hasRates \/ s.resources)]

(* sanitizeData: drop every consumer without rates or without resources. *)
Sanitize(d) ==
    [d EXCEPT !.consumers = RestrictValues(@, LAMBDA s : s.hasRates /\ s.resources)]

-----------------------------------------------------------------------------
(* The constructor: every replica's ticker is about to call run(). *)
Init ==
    /\ now = 0
    /\ lock = FreeLock
    /\ index = <<>>
    /\ online = {}
    /\ pc = [r \in Replicas |-> "acquire"]
    /\ data = [r \in Replicas |-> Reset]
    /\ expired = [r \in Replicas |-> {}]
    /\ seen = [r \in Replicas |-> [rates |-> <<>>, online |-> {}]]

Tick ==
    /\ now < MaxTime
    /\ now' = now + 1
    /\ UNCHANGED <<lock, index, online, pc, data, expired, seen>>

(* A producer's or consumer's rate ticker HSETs "rate|timestamp". *)
WriteRate(k, v) ==
    /\ index' = (k :> [rate |-> v, ts |-> now]) @@ index
    /\ index' # index
    /\ UNCHANGED <<now, lock, online, pc, data, expired, seen>>

(* A consumer's beat() HSETs a fresh heartbeat. *)
HeartbeatHset(c) ==
    /\ c \notin online
    /\ online' = online \cup {c}
    /\ UNCHANGED <<now, lock, index, pc, data, expired, seen>>

(* The consumer's heartbeat is older than the 10 s window. *)
HeartbeatLapses(c) ==
    /\ c \in online
    /\ online' = online \ {c}
    /\ UNCHANGED <<now, lock, index, pc, data, expired, seen>>

(* run(): the blocking acquireLock returns once the key is free; its     *)
(* callback starts the waterfall with reset() and sends HGETALL.         *)
Run(r) ==
    /\ pc[r] = "acquire"
    /\ LockFree(lock, now)
    /\ lock' = Acquired(r, now)
    /\ data' = [data EXCEPT ![r] = Reset]
    /\ seen' = [seen EXCEPT ![r] = [rates |-> <<>>, online |-> {}]]
    /\ pc' = [pc EXCEPT ![r] = "rates"]
    /\ UNCHANGED <<now, index, online, expired>>

GetRatesNoEmptyCallback(r) ==
    /\ pc[r] = "rates"
    /\ LET fresh == {k \in DOMAIN index : ~HasExpired(index[k].ts)}
           stale == DOMAIN index \ fresh
       IN  /\ data' = [data EXCEPT ![r] = FoldSet(HandleRate, @, fresh)]
           /\ expired' = [expired EXCEPT ![r] = stale]
           /\ pc' = [pc EXCEPT ![r] = IF index = <<>> THEN "rates"
                                      ELSE IF stale # {} THEN "hdel" ELSE "beats"]
           /\ seen' = [seen EXCEPT ![r].rates = [k \in fresh |-> index[k].rate]]
    /\ UNCHANGED <<now, lock, index, online>>

(* getRates: the HGETALL reply; fresh fields are handled, expired ones   *)
(* collected and, if any, HDELed without waiting before cb().           *)
GetRates(r) ==
    /\ pc[r] = "rates"
    /\ LET fresh == {k \in DOMAIN index : ~HasExpired(index[k].ts)}
           stale == DOMAIN index \ fresh
       IN  /\ data' = [data EXCEPT ![r] = FoldSet(HandleRate, @, fresh)]
           /\ expired' = [expired EXCEPT ![r] = stale]
           /\ pc' = [pc EXCEPT ![r] = IF stale # {} THEN "hdel" ELSE "beats"]
           /\ seen' = [seen EXCEPT ![r].rates = [k \in fresh |-> index[k].rate]]
    /\ UNCHANGED <<now, lock, index, online>>

(* The HDEL of the expired fields is applied, before the next command of *)
(* the same client; its error, if any, is ignored (noop callback).       *)
HdelExpired(r) ==
    /\ pc[r] = "hdel"
    /\ \E ok \in Outcomes :
          index' = IF ok THEN Restrict(index, DOMAIN index \ expired[r]) ELSE index
    /\ expired' = [expired EXCEPT ![r] = {}]
    /\ pc' = [pc EXCEPT ![r] = "beats"]
    /\ UNCHANGED <<now, lock, online, data, seen>>

(* getConsumersHeartbeats: every online consumer gets resources. *)
GetConsumersHeartbeats(r) ==
    /\ pc[r] = "beats"
    /\ data' = [data EXCEPT ![r] =
                  [@ EXCEPT !.consumers =
                      [c \in DOMAIN @ \cup online |->
                         [AddConsumer(data[r], c) EXCEPT
                            !.resources = @ \/ c \in online]]]]
    /\ seen' = [seen EXCEPT ![r].online = online]
    /\ pc' = [pc EXCEPT ![r] = "queues"]
    /\ UNCHANGED <<now, lock, index, online, expired>>

(* getQueues: the reply is the list of queues; LLEN is sent only when it *)
(* is not empty, else getDLQQueues is sent at once.                     *)
GetQueues(r) ==
    /\ pc[r] = "queues"
    /\ \E empty \in BOOLEAN :
          pc' = [pc EXCEPT ![r] = IF empty THEN "dlq" ELSE "sizes"]
    /\ UNCHANGED <<now, lock, index, online, data, expired, seen>>

(* getDLQQueues: likewise, then the sizes, or straight on to sanitizeData *)
(* and publish.                                                          *)
GetDLQQueues(r) ==
    /\ pc[r] = "dlq"
    /\ \E empty \in BOOLEAN :
          /\ pc' = [pc EXCEPT ![r] = IF empty THEN "publish" ELSE "dlqsizes"]
          /\ data' = [data EXCEPT ![r] = IF empty THEN Sanitize(@) ELSE @]
    /\ UNCHANGED <<now, lock, index, online, expired, seen>>

(* getQueueSize: the LLEN replies; after the dead-letter queues the      *)
(* waterfall runs sanitizeData and sends PUBLISH.                        *)
GetQueueSize(r) ==
    /\ \/ /\ pc[r] = "sizes"
          /\ pc' = [pc EXCEPT ![r] = "dlq"]
          /\ UNCHANGED data
       \/ /\ pc[r] = "dlqsizes"
          /\ pc' = [pc EXCEPT ![r] = "publish"]
          /\ data' = [data EXCEPT ![r] = Sanitize(@)]
    /\ UNCHANGED <<now, lock, index, online, expired, seen>>

(* The PUBLISH of JSON.stringify(data) is applied; the waterfall's final *)
(* callback calls ticker.nextTick(), so run() comes again.               *)
Publish(r) ==
    /\ pc[r] = "publish"
    /\ pc' = [pc EXCEPT ![r] = "acquire"]
    /\ UNCHANGED <<now, lock, index, online, data, expired, seen>>

(* A command answers an error, which run() or getRates throws: the thread *)
(* ends and the lock it holds stays until its TTL.                        *)
Fail(r) ==
    /\ RedisErrors
    /\ pc[r] \in (CycleSteps \ {"hdel"}) \cup {"acquire"}
    /\ pc' = [pc EXCEPT ![r] = "crashed"]
    /\ UNCHANGED <<now, lock, index, online, data, expired, seen>>

(* The async.waterfall run() starts once it holds the lock: its steps in  *)
(* order, each continuing when the previous one's Redis reply arrives.    *)
Cycle(r) ==
    \/ Run(r)
    \/ GetRates(r)
    \/ HdelExpired(r)
    \/ GetConsumersHeartbeats(r)
    \/ GetQueues(r)
    \/ GetDLQQueues(r)
    \/ GetQueueSize(r)
    \/ Publish(r)

Next ==
    \/ Tick
    \/ \E k \in RateKeys, v \in RateValues : WriteRate(k, v)
    \/ \E c \in Consumers : HeartbeatHset(c) \/ HeartbeatLapses(c)
    \/ \E r \in Replicas : Cycle(r) \/ Fail(r)

(* The ticker and every callback run when due; writers and errors have   *)
(* no fairness.                                                          *)
Fairness ==
    /\ WF_vars(Tick)
    /\ \A r \in Replicas : WF_vars(Cycle(r))

Spec == Init /\ [][Next]_vars /\ Fairness

-----------------------------------------------------------------------------
TypeOK ==
    /\ now \in 0..MaxTime
    /\ lock \in [owner : Replicas \cup {NoOwner}, expiry : 0..MaxTime + LockTTL]
    /\ IsPartial(index, RateKeys, [rate : RateValues, ts : 0..MaxTime])
    /\ online \subseteq Consumers
    /\ pc \in [Replicas -> CycleSteps \cup {"acquire", "crashed"}]
    /\ DOMAIN data = Replicas /\ \A r \in Replicas : IsStats(data[r])
    /\ expired \in [Replicas -> SUBSET RateKeys]

(* The snapshot reset/getRates/getConsumersHeartbeats/sanitizeData build *)
(* and publish is exactly the one the replica's own reads determine: each *)
(* total is the sum of the rates that were fresh at its HGETALL, and the  *)
(* consumers are those with a fresh rate that were online at its         *)
(* heartbeat read, with 0 for the types they had no fresh rate of.       *)
Expected(s) ==
    LET fresh == DOMAIN s.rates
        Rate(k) == s.rates[k]
        KeyOf(t, x) == [type |-> t, id |-> x]
        rated == {k.id : k \in {k \in fresh : k.type \in ConsumerTypes}}
    IN  [rates |-> [t \in Kinds |->
                      MapThenSumSet(Rate, {k \in fresh : k.type = t})],
         producers |-> [p \in {k.id : k \in {k \in fresh : k.type = "input"}} |->
                          Rate(KeyOf("input", p))],
         consumers |-> [c \in rated \cap s.online |->
                          [hasRates |-> TRUE, resources |-> TRUE,
                           rates |-> [t \in ConsumerTypes |->
                                        IF KeyOf(t, c) \in fresh
                                        THEN Rate(KeyOf(t, c)) ELSE 0]]]]

SnapshotMatchesReads ==
    [][\A r \in Replicas : Publish(r) => data[r] = Expected(seen[r])]_vars

(* Every cycle that took the lock reaches PUBLISH and ticks again, unless *)
(* an error ends the thread: no branch of getRates, getQueueSize or the   *)
(* empty-list paths leaves the waterfall without calling its callback.   *)
CycleCompletes ==
    \A r \in Replicas : pc[r] = "rates" ~> pc[r] \in {"acquire", "crashed"}

=============================================================================
