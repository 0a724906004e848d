# TLA+ models of redis-smq

This directory holds TLA+ models of the message-queue broker in `src/`,
the TLC configurations that check them, and `PROJECT.json`, which lists the
components, the runs, the mutants that show each property can fail, the map
from every modelled definition to the source lines it translates, the
findings and the hazards.

## 1. Inventory

The source in `src/` is a slice of the repository: several files come from
different versions of it (the per-queue `Scheduler` in `src/src/scheduler.ts`
and the global `ScheduleHandler` both exist). The message, broker, consumer,
lock manager and Redis client classes are *not* under `src/`; where a model
needs them they are modelled from `spec.md` and marked `spec_modelled` in the
map.

| Component | Source | State it keeps | Operations that change state |
|---|---|---|---|
| Scheduler | `src/src/scheduler.ts` | Redis sorted set `keyQueueScheduledMessages` (member = serialised message, score = fire time), hash `keyIndexScheduledMessages` (id -> member); the process-wide `instance` | `schedule`, `enqueueScheduledMessages` (ZRANGEBYSCORE, then one MULTI per due member: ZREM, enqueue, and for periodic messages ZADD+HSET of the next occurrence), `deleteScheduledMessage` (HGET, then MULTI of ZREM+HDEL), `getSingletonInstance`, `quit` |
| Scheduling engine | `scheduler.ts` `getNextScheduledTimestamp` (copy in `schedule.handler.ts`) | the message flags `delayed`, `scheduledRepeatCount`, `scheduledCronFired` | next timestamp: delay first, then repeat only between cron ticks after the first cron, else cron (resets count), else repeat |
| ScheduleHandler | `src/src/system/message-manager/handlers/schedule.handler.ts` | global scheduled sorted set | `schedule` (ZADD), `enqueueScheduledMessages` (ZRANGEBYSCORE, then MULTI of ZREM, LPUSH to the queue or ZADD of the JSON to the priority set, ZADD of the next occurrence), `deleteScheduled` |
| EnqueueHandler | `src/src/system/message-manager/handlers/enqueue.handler.ts` | pending list `keyQueue`, priority set `keyQueuePriority` (ids) + hash `keyPendingMessagesWithPriority` (id -> JSON) | `enqueue` (RPUSH, or ZADD id + HSET JSON), `deletePendingMessage` (lock + positional delete), `deletePendingMessageWithPriority` (lock + HDEL+ZREM) |
| RequeueWorker | `src/src/system/workers/requeue.worker.ts` | requeue list `keyQueueRequeue` | every tick: LRANGE 0..99, then one MULTI of LREM + attempts+1 + LPUSH (or ZADD of the JSON) per entry; an EXEC error is thrown |
| HeartBeat | `src/src/heartbeat.js` | local `state` UP/DOWN, `timer`, `shutdownNow`; Redis hash `keyHeartBeat` (consumer -> {timestamp, usage}) | `start`, `beat` (HSET then 1s timer), `stop` (installs `shutdownNow`, run by the next timer: HDEL), `isOnline` / `getOnlineConsumers` (read, and HDEL records older than 10s) |
| StatsAggregatorThread | `src/src/monitor-server/threads/stats-aggregator.thread.ts` | the per-tick snapshot `data`; Redis rate hash `keyIndexRates` | every tick under a 10s lock: reset, read rates (HDEL expired ones), heartbeats, queue sizes, sanitize, publish |
| QueueManagerFrontend | `src/src/system/queue-manager/queue-manager-frontend.ts` | static `instance` | `getSingletonInstance` (asynchronous client creation), `quit`; the rest delegates |
| ConsumerFrontend, monitor services, DTOs, events, types | the remaining files | none of their own | delegation, event forwarding, validation, declarations |
| Consumer / broker lifecycle, Lock manager | not under `src/` (spec 4.2 to 4.4) | in-flight markers, acknowledged and dead-letter lists; lock key with token and TTL | dequeue, acknowledge, unacknowledge (retry / retry with delay / dead-letter), expire, recovery of orphaned in-flight messages; acquire/release |

How they interact: every component is a separate Redis client; the only
shared state is Redis, and every multi-key change is a MULTI/EXEC, which is
atomic. Nothing orders the steps of different clients, so any read followed
by a later write (HGET then MULTI, ZRANGEBYSCORE then MULTI, LRANGE then
MULTI) can interleave with every other client. Tickers run one invocation at
a time per process; several processes may each run one. Callbacks and timers
(heartbeat) interleave with API calls inside one process.

What is hard: read-then-write sequences without WATCH across clients;
periodic messages whose serialised flags change at every reschedule, so the
sorted-set member changes identity; failures of one MULTI among many; timers
versus stop/start in the heartbeat; staleness windows (10s heartbeat, 1s
rates); singletons created by asynchronous callbacks.

Properties that make each component correct:

* Scheduler: every scheduled occurrence is enqueued exactly once or deleted;
  at most one entry per message; every entry deletable by id; a delete that
  answered true is final; the
  recurrence follows delay, cron, repeat as spec 4.1 promises.
* Pending structures: every priority entry is retrievable and deletable by
  id; no message is re-pushed twice by the requeue worker; FIFO order.
* HeartBeat: stop eventually takes the heartbeat DOWN; the record is
  refreshed while UP; a client is never used after it was ended; a live
  consumer is not reported offline because of a stale HDEL.
* StatsAggregator: a published snapshot is what the replica read; every
  cycle finishes.
* Singleton: at most one client is created and every created client is
  halted by quit.
* Lifecycle: a message is in exactly one place; a message held by a dead
  consumer is requeued exactly once; at most `retryThreshold` retries, then
  dead-letter.

The hazards, each at its source line, are in `PROJECT.json` under `hazards`.

## 2. Plan

Modules in the order they are built (the most important behaviour first):

1. `Scheduler` (done): the scheduled set, the sweep, deletion and the
   recurrence algorithm of `scheduler.ts`.
2. `PendingQueues` (done): `EnqueueHandler.enqueue`, `ScheduleHandler`'s
   sweep and the `RequeueWorker` writing the same pending list and priority
   structures.
3. `HeartBeat` (done): the publisher's start/stop/timer state machine and
   the readers' stale HDEL.
4. `StatsAggregator` (done): the aggregation cycle of several replicas
   under the TTL lock of the Lock Manager (spec_modelled, spec 4.3).
5. `LockManager` (done for `EnqueueHandler`): the lock key's operators,
   shared by `StatsAggregator` and the lock-guarded
   `deletePendingMessageWithPriority` in `PendingQueues` (non-blocking
   acquire, token-checked release). The other lock-guarded deletes reach
   helpers that are not under `src/`.
6. `MessageLifecycle` (spec_modelled from spec 4.2/4.4, composed with
   `HeartBeat`'s online signal and `PendingQueues`): dequeue, ack, unack,
   retry, dead-letter, recovery.
7. `Singleton` (QueueManagerFrontend/Scheduler `getSingletonInstance`,
   `quit`): not modelled, see section 5.

## 3. Modules and runs

Shared modules: `ScheduleTimestamp.tla` holds the scheduling engine
(`getNextScheduledTimestamp`, `isSchedulable`, `isPeriodic`, the cron
abstraction) as pure operators over the constants `Msgs` and
`Directives`; `scheduler.ts` and `schedule.handler.ts` carry the same code,
so both component modules extend it. `RedisOps.tla` gives the Redis
commands (ZADD, ZREM, HSET, HDEL, LPUSH, RPUSH, LREM 1, LRANGE) as
operators on the value of a key. `LockManager.tla` (spec 4.3, the class
is not under `src/`) gives the lock key as a record of owner and expiry:
`LockFree` (SET NX succeeds), `Acquired`, `Released` (compare-and-delete
on the token). The lock's own promises (one owner while the TTL runs, a
release frees only the caller's token) follow from these definitions and
involve no code under `src/`, so no run checks them; the runs check what
the code does under the lock.

### Scheduler (`Scheduler.tla`, `MCScheduler.tla`)

State: `scheduled` is the sorted set as a function from member to score;
a member is the record `[id, delayed, count, cronFired]`, the parts of the
serialised message that change; `index` is the id hash. `sweeper[s]` is the
batch a sweep fetched and has not processed; `held[a]` is the member an
administrator's HGET returned. `plan`, `fired`, `cancelled` and `deleted`
are history variables: the kinds of timestamps chosen, the enqueues, the
members removed by deletes and the ids whose delete answered true.

Actions: `Schedule` (schedule + scheduleAtTimestamp), `FetchDue`
(ZRANGEBYSCORE 0 now), `ProcessScheduled` (the per-member MULTI of
enqueueScheduledMessage + scheduleAtNextTimestamp), `ExecFails` (that MULTI
failing), `DeleteGet` (HGET), `DeleteExec` (MULTI ZREM+HDEL), `Tick`
(Date.now() advancing). `NextScheduledTimestamp` translates
getNextScheduledTimestamp; cron expressions are abstracted to "every c
units", so cron-parser's `next()` is the first multiple of c after now.
The enqueue into the pending list is counted in `fired`; what happens to it
there is the subject of later modules.

Bounds: two messages, m1 (cron every 3, 2 repeats 1 apart) and m2 (delay 2
then 2 immediate repeats, period 0), clock 1..7. This gives two full cron
windows with their repeats, the period-0 edge, delay followed by repeats,
and lets every branch of getNextScheduledTimestamp fire.

Fairness: none, and no liveness property. Whether the sweep runs again
after a failed MULTI is up to its caller, which is not under `src/`; the
tickers that are under `src/` throw on a callback error and never re-arm.
Deadlock is
not checked: the model's clock stops at MaxTime, after which the real
ticker only performs empty fetches, which change nothing.

| Run | Expect | Shows |
|---|---|---|
| `scheduler_sweep` | pass | one sweeper: exactly-once sweep even with failing MULTIs |
| `scheduler_admin` | pass | with deletes: at most one entry per message; the recurrence is delay, then cron before repeats, at most `repeat` repeats per cron window |
| `scheduler_delete_resurrects` | violation | a delete that answered true is undone by a sweep that fetched the message before it |
| `scheduler_stale_index` | violation | a delete whose HGET read the member before a sweep rescheduled it misses the new member and HDELs its index entry: the message stays scheduled and can no longer be deleted by id (spec 3) |

### PendingQueues (`PendingQueues.tla`, `MCPendingQueues.tla`)

State: `withPriority` is `config.priorityQueue`, chosen in `Init` from
`PriorityModes` and never changed, so one run covers both modes. `queue`
is `keyQueue` (head first), `prio` is `keyQueuePriority` (member to score;
a member is an id or a whole serialised message), `prioHash` is
`keyPendingMessagesWithPriority`, `requeue` is `keyQueueRequeue`,
`scheduled` the global scheduled set of `ScheduleHandler`. `sweeper[s]` is
a sweep's fetched batch and `worker[w]` a requeue worker's LRANGE reply
whose MULTI is not yet sent. `inflight` and `done` stand for the consumer
side (spec 4.2, not under `src/`); `entered`/`arrivals` record the order of
arrival in `keyQueue`.

Actions: `Schedule` (ScheduleHandler.schedule), `Enqueue`
(EnqueueHandler.enqueue, RPUSH or ZADD id + HSET), `FetchDue` and
`ProcessScheduled`/`ExecFails` (the sweep: per message a MULTI of ZREM,
LPUSH or ZADD of the message, ZADD of the next occurrence),
`RequeueFetch` (LRANGE 0..LrangeLimit-1), `IncrAttempts` and
`RequeueExec` (one MULTI of LREM 1, attempts+1 and LPUSH/ZADD per entry
read), `RequeueFails` (the LRANGE or the EXEC answers an error, which
onTick throws: the worker process ends, and a failed EXEC applies
nothing; `ended` holds the workers ended so), and
`deletePendingMessageWithPriority` in three steps for each
administrator in `Admins`: `DeleteLock` (lockFN's non-blocking acquire of
`keyLockDeletePendingMessageWithPriority`; a refused acquire answers
LockContention and changes nothing, so it is a stutter),
`DeletePendingWithPriority` (the MULTI of HDEL+ZREM by id) and
`DeleteRelease` (the token-checked release). `delLock` is the lock key and
`admin[a]` the step an administrator is at, with the id and the moment
its TTL runs out. From the spec only:
`Dequeue` (head of the list), `DequeuePriority` (lowest-score id, read
through the hash), `Acknowledge`, `Unacknowledge` (to the requeue list
below `MaxAttempts`, else dead-lettered).

Bounds: three messages, one delayed by 1 (so it travels through the
scheduled set and the sweep) and two plain; one unacknowledged delivery
each (`MaxAttempts = 1`); `LrangeLimit = 2`, below the three entries the
requeue list can hold, so a tick that leaves a remainder happens; clock
1..3. Two administrators and a TTL of one unit: within a clock of 3 one
administrator's lock can lapse in the middle of its delete and the other
can take it before the first releases. The delayed message has the highest priority score so that the
id-addressed messages are dequeued before it.

Fairness: none for the sweep (see `Scheduler`); the requeue worker's read and MULTI
are weakly fair while its process lives (its Ticker re-arms after each
run); its thrown error has no fairness, it may or may not happen.
Consumers, producers and administrators need not act. The fairness
conditions keep `withPriority` unchanged, as every step does.

| Run | Expect | Shows |
|---|---|---|
| `pending` | pass | both modes, one sweeper and one requeue worker: one location per message at every step, deletes by id included; every requeued message leaves the requeue list even when the backlog exceeds one LRANGE, unless the worker has ended on a thrown error, and a failed EXEC loses no message; two administrators' deletes, overlapping when the lock's TTL lapses mid-delete, keep one location per message |
| `pending_priority_format` | violation | the sweep (and the requeue worker) put the serialised message, not the id, into `keyQueuePriority` |
| `pending_fifo` | violation | a swept message is LPUSHed ahead of messages RPUSHed before it |

### HeartBeat (`HeartBeat.tla`, `MCHeartBeat.tla`)

State: the closure of `HeartBeat(instance)`: `state` (UP/DOWN),
`shutdownNow`, `timer` (the time it was armed, 0 = none) and `client`
(`redisClientInstance` as the number of the client, 0 = null; `gen`
counts the clients created and `ended` those closed by `end(true)`).
`connecting` is a pending `getNewInstance` callback and `pending` the
commands sent and not yet applied. `record` is the consumer's field of
`keyHeartBeat` (its timestamp, 0 = absent); `reader[r]` is a reader with
an HDEL in flight. `crashed` is a TypeError thrown from a callback;
`starts`, `wanted` and `lastBeat` are history.

Actions: `Start` (start(): UP and connect only if DOWN), `Connected` (the
client callback: beat), `Stop` (install `shutdownNow` if UP and none yet),
`HsetDone` (HSET applied; on success arm the 1 s timer), `TimerFires`
(run `shutdownNow`, i.e. DOWN and HDEL, or beat again), `HdelDone` (HDEL
applied; on success end and null the *current* client),
`ReaderJudgesOffline` (isOnline/getOnlineConsumers: a record older than
the window gets an HDEL without waiting), `ReaderHdel`, `Tick`.

Bounds: the 1 s timer is one unit and the 10 s window two, so a timer
late by more than the window happens within a clock of 6; one or two
starts; one reader or none; Redis errors on or off per run.

Fairness: the clock, the client callback, the timer and the callbacks of
sent commands are weakly fair (Node runs them when due). Start, stop and
readers are calls of the application and need not happen.

| Run | Expect | Shows |
|---|---|---|
| `heartbeat` | pass | with OK answers and a reader: a stop always takes the heartbeat DOWN, and while UP the record is refreshed after every instant |
| `heartbeat_hset_error` | violation | an HSET error ends the timer chain, so a later stop never completes |
| `heartbeat_restart_client` | violation | the HDEL callback of the first session ends the client of the second, whose next beat calls hset on null |
| `heartbeat_stale_hdel` | violation | a reader deletes a record the consumer has just refreshed, so a live consumer reads offline |

### StatsAggregator (`StatsAggregator.tla`, `MCStatsAggregator.tla`)

State: `lock` is `keyLockStatsAggregator` (owner and expiry); `index` is
`keyIndexRates` (rate key to rate and timestamp); `online` is the set of
consumers whose heartbeat is within the 10 s window (the heartbeat itself
is `HeartBeat`'s subject). Per replica: `pc[r]` is the Redis reply the
waterfall waits for, `data[r]` is `this.data` (totals, producers and
consumers of the one queue), `expired[r]` the fields of its pending HDEL,
and the history `seen[r]` the fresh rates and online consumers it read in
this cycle.

Actions: `Run` (the blocking acquireLock returns; reset), `GetRates`
(HGETALL: `HandleRate` folds every fresh field through
`handleProducerRate`/`handleConsumerRate`; expired fields go to an HDEL),
`HdelExpired` (applied or failed; its error is ignored),
`GetConsumersHeartbeats`, `GetQueues`/`GetDLQQueues` (an empty list skips
the LLEN round trip), `GetQueueSize` (after the dead-letter sizes,
sanitizeData), `Publish`, `Fail` (an error thrown, which ends the thread).
The environment: `WriteRate` (the rate tickers of producers and
consumers), `HeartbeatHset`/`HeartbeatLapses`, `Tick`. The lock's acquire
(`LockFree`, `Acquired` of `LockManager`) is modelled from spec 4.3; there is no release,
because the aggregator never calls one.

`IsStats`, `ConsumerStats` and `Kinds` translate the aggregated-stats
types of `src/types/index.ts`. `Cycle` is the waterfall of `run()`.

Bounds: two replicas (needed for contention on the lock), one
producer and one consumer with one rate type, rate 1. One unit is 1 s; the
rate window is one unit and the lock TTL, 10 s in the code, is also one
unit, so within a clock of 2 a replica holds the lock twice, a rate
expires and a cycle outlives the TTL.

Fairness: every step of a replica's cycle is weakly fair (the ticker and
the Redis callbacks run when due) and so is the clock; writers,
heartbeats and errors have none.

| Run | Expect | Shows |
|---|---|---|
| `stats` | pass | a published snapshot equals what the replica read (totals include consumers that sanitizeData then drops); every cycle reaches PUBLISH or ends the thread |

## 4. Findings

See `PROJECT.json` `findings`.

* Scheduler: a delete of a periodic message that answered true is undone
  by a sweep that fetched the message earlier; a delete racing a
  reschedule leaves the message scheduled with no index entry.
* Pending structures: priority entries written by the sweep and by the
  requeue worker are not id-addressable, and both push at the opposite end
  of the list from `enqueue`.
* HeartBeat: an HSET error makes a later stop never complete; the HDEL
  callback of a stopped session ends the client of the next one; a
  reader's HDEL can delete a record that was just refreshed.

Races found while modelling and kept as hazards rather than runs: two sweepers, or two requeue workers, reading the same entry push
it twice; the aggregator's HDEL deletes a rate refreshed after its HGETALL;
a cycle outliving the 10 s lock, which is never released or extended, runs
beside another replica's (spec 4.3 requires cycles to finish within the
TTL, so this breaks no promise).

## 5. Not modelled

The monitor-server services, DTOs, `ConsumerFrontend`, `events.ts` and
`types/index.ts` hold no state. Formatting, logging and resource usage in
heartbeat payloads are left out; only the timestamp matters to any property.
In `PendingQueues`, `publishedAt` (set by `enqueue`) and message payloads are
left out; the periodic re-add of the sweep is modelled but not exercised by
the bounds, whose scheduled message is delay-only (periodic recurrence is
checked in `Scheduler`). A restart of a requeue worker that ended on an
error is not modelled: it is up to a parent process not under `src/`. In `StatsAggregator`, namespaces and queues are collapsed to one
queue (`addQueueIfNotExists` is not mapped), queue sizes are not kept
(the LLEN round trips are, with their empty-list branches), and `quit()`
is left out. The singletons (`QueueManagerFrontend` and
`Scheduler.getSingletonInstance`/`quit`) are not modelled. Each keeps only
a static reference, and its behaviour is two races: two concurrent first
calls each create a client, and a caller keeps a frontend whose client
`quit` halted. These are listed as hazards. A run for either would only
show the race. Nothing in the spec, the comments or the tests states a
property for them, and spec 9 marks the singletons for replacement. `deletePendingMessage` and `ScheduleHandler.deleteScheduled` are
not modelled: under their lock they call positional and sorted-set delete
helpers that are not under `src/`.
