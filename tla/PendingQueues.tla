---------------------------- MODULE PendingQueues ----------------------------
(***************************************************************************)
(* The pending structures of a queue and the three writers of them:       *)
(*  - EnqueueHandler.enqueue (enqueue.handler.ts): RPUSH of the message to *)
(*    the list keyQueue, or, in priority mode, ZADD of the id to the       *)
(*    sorted set keyQueuePriority and HSET of the message to the hash      *)
(*    keyPendingMessagesWithPriority, in one transaction;                  *)
(*  - ScheduleHandler (schedule.handler.ts): schedule() adds the message   *)
(*    to the global scheduled set; each sweep fetches the due members and  *)
(*    runs, per member, a MULTI of ZREM, LPUSH of the message to keyQueue  *)
(*    (or ZADD of the message itself to keyQueuePriority) and the ZADD of  *)
(*    its next occurrence;                                                 *)
(*  - RequeueWorker (requeue.worker.ts): each tick reads the first 100     *)
(*    entries of keyQueueRequeue with LRANGE, then sends one MULTI that,   *)
(*    per entry, LREMs it, increments its attempts and LPUSHes it (or      *)
(*    ZADDs it) back into the pending structure.                           *)
(* The consumer side (dequeue, acknowledge, unacknowledge) is not under    *)
(* src/; it is modelled from spec 4.2 only as far as it feeds these        *)
(* structures.  Each MULTI is one step; the steps of different clients     *)
(* interleave.                                                             *)
(***************************************************************************)
EXTENDS ScheduleTimestamp, RedisOps, LockManager, Naturals, Sequences,
        SequencesExt, FiniteSets

CONSTANTS
    Priority,     \* [Msgs -> Nat]: message.getSetPriority(undefined)
    PriorityModes, \* the values config.priorityQueue may have
    Sweepers,     \* processes running the ScheduleHandler sweep
    Workers,      \* RequeueWorker processes
    MaxTime,      \* the clock (Date.now()) stops here
    MaxAttempts,  \* unacknowledged deliveries after which a message is
                  \* dead-lettered instead of requeued
    LrangeLimit,  \* entries read per requeue tick (100 in the code)
    Admins        \* clients calling deletePendingMessageWithPriority

ASSUME PriorityModes \subseteq BOOLEAN /\ LrangeLimit \in Nat \ {0}

VARIABLES
    withPriority, \* config.priorityQueue, the same for every component
    now,        \* Date.now()
    scheduled,  \* keyQueueScheduled: message -> fire timestamp
    queue,      \* keyQueue: list of messages, head first
    prio,       \* keyQueuePriority: member (an id or a message) -> priority
    prioHash,   \* keyPendingMessagesWithPriority: id -> message
    requeue,    \* keyQueueRequeue: list of messages, head first
    produced,   \* ids handed to the producer
    sweeper,    \* sweeper[s]: due messages fetched and not yet processed
    worker,     \* worker[w]: the LRANGE reply whose MULTI is not yet sent
    ended,      \* RequeueWorker processes ended by a thrown Redis error
    inflight,   \* messages held by consumers (spec 4.2)
    done,       \* ids acknowledged, dead-lettered (spec 4.2) or deleted
    entered,    \* history: entered[m] = order in which m last entered keyQueue
    arrivals,   \* history: number of insertions into keyQueue so far
    delLock,    \* keyLockDeletePendingMessageWithPriority: [owner, expiry]
    admin       \* admin[a]: the step of a's delete, its id, and the expiry
                \* of the lock it took

vars == <<withPriority, now, scheduled, queue, prio, prioHash, requeue,
          produced, sweeper, worker, ended, inflight, done, entered,
          arrivals, delLock, admin>>

(* A serialised message: its id, scheduling flags and attempts. *)
Message == [id : Msgs, delayed : BOOLEAN, count : 0..MaxRepeat + 1,
            cronFired : BOOLEAN, attempts : 0..MaxAttempts]

NewMessage(m) == [id |-> m, delayed |-> FALSE, count |-> 0,
                  cronFired |-> FALSE, attempts |-> 0]

(* The position of m in the arrival order when a message of m enters     *)
(* keyQueue as the k-th of a batch.                                       *)
Arrive(m, k) == [entered EXCEPT ![m] = arrivals + k]

(* An administrator with no delete in progress. *)
AdminIdle == [pc |-> "idle", id |-> CHOOSE m \in Msgs : TRUE, until |-> 0]

-----------------------------------------------------------------------------
Init ==
    /\ withPriority \in PriorityModes
    /\ now = 1
    /\ scheduled = <<>>
    /\ queue = <<>>
    /\ prio = <<>>
    /\ prioHash = <<>>
    /\ requeue = <<>>
    /\ produced = {}
    /\ sweeper = [s \in Sweepers |-> {}]
    /\ worker = [w \in Workers |-> <<>>]
    /\ ended = {}
    /\ inflight = {}
    /\ done = {}
    /\ entered = [m \in Msgs |-> 0]
    /\ arrivals = 0
    /\ delLock = FreeLock
    /\ admin = [a \in Admins |-> AdminIdle]

(* Date.now() advances. *)
Tick ==
    /\ now < MaxTime
    /\ now' = now + 1
    /\ UNCHANGED <<scheduled, queue, prio, prioHash, requeue, produced,
                   sweeper, worker, ended, inflight, done, entered, arrivals,
                   delLock, admin>>

(* ScheduleHandler.schedule(message): ZADD of the message, serialised     *)
(* after getNextScheduledTimestamp updated its flags, when the timestamp  *)
(* is positive.                                                           *)
Schedule(m) ==
    /\ m \notin produced
    /\ LET nxt == NextScheduledTimestamp(NewMessage(m), now)
       IN  /\ nxt.ts > 0
           /\ scheduled' = Zadd(scheduled, nxt.msg, nxt.ts)
    /\ produced' = produced \cup {m}
    /\ UNCHANGED <<now, queue, prio, prioHash, requeue, sweeper, worker, ended,
                   inflight, done, entered, arrivals, delLock, admin>>

(* EnqueueHandler.enqueue(client, message, withPriority) for a message    *)
(* that schedule() answered false for: RPUSH to keyQueue, or ZADD of the *)
(* id with HSET of the message (zpushhset, one transaction).             *)
Enqueue(m) ==
    /\ m \notin produced
    /\ NextScheduledTimestamp(NewMessage(m), now).ts = 0
    /\ LET msg == NewMessage(m)
       IN  IF withPriority
           THEN /\ prio' = Zadd(prio, m, Priority[m])
                /\ prioHash' = Hset(prioHash, m, msg)
                /\ UNCHANGED <<queue, entered, arrivals>>
           ELSE /\ queue' = Rpush(queue, msg)
                /\ entered' = Arrive(m, 1)
                /\ arrivals' = arrivals + 1
                /\ UNCHANGED <<prio, prioHash>>
    /\ produced' = produced \cup {m}
    /\ UNCHANGED <<now, scheduled, requeue, sweeper, worker, ended, inflight,
                   done, delLock, admin>>

(* enqueueScheduledMessages, fetch: ZRANGEBYSCORE 0 now; an empty reply  *)
(* changes nothing.                                                       *)
FetchDue(s) ==
    /\ sweeper[s] = {}
    /\ LET due == {e \in DOMAIN scheduled : scheduled[e] <= now}
       IN  /\ due # {}
           /\ sweeper' = [sweeper EXCEPT ![s] = due]
    /\ UNCHANGED <<now, scheduled, queue, prio, prioHash, requeue, produced,
                   worker, ended, inflight, done, entered, arrivals, delLock,
                   admin>>

(* enqueueScheduledMessages, per fetched message e: one MULTI of ZREM e,  *)
(* ZADD of e itself to keyQueuePriority (priority mode) or LPUSH of e to *)
(* keyQueue, and ZADD of the next occurrence when there is one.  The      *)
(* pushed message is serialised before getNextScheduledTimestamp runs.   *)
ProcessScheduled(s, e) ==
    /\ e \in sweeper[s]
    /\ LET nxt == NextScheduledTimestamp(e, now)
           removed == Zrem(scheduled, e)
       IN  scheduled' = IF nxt.ts > 0 THEN Zadd(removed, nxt.msg, nxt.ts)
                        ELSE removed
    /\ IF withPriority
       THEN /\ prio' = Zadd(prio, e, Priority[e.id])
            /\ UNCHANGED <<queue, entered, arrivals>>
       ELSE /\ queue' = Lpush(queue, e)
            /\ entered' = Arrive(e.id, 1)
            /\ arrivals' = arrivals + 1
            /\ UNCHANGED prio
    /\ sweeper' = [sweeper EXCEPT ![s] = @ \ {e}]
    /\ UNCHANGED <<now, prioHash, requeue, produced, worker, ended, inflight,
                   done, delLock, admin>>

(* The MULTI for e fails: async.each reports the error, nothing applies. *)
ExecFails(s, e) ==
    /\ e \in sweeper[s]
    /\ sweeper' = [sweeper EXCEPT ![s] = @ \ {e}]
    /\ UNCHANGED <<now, scheduled, queue, prio, prioHash, requeue, produced,
                   worker, ended, inflight, done, entered, arrivals, delLock,
                   admin>>

(* Consumer, dequeue (spec 4.2): the head of keyQueue, or in priority     *)
(* mode the id of lowest score, read through the hash and removed from   *)
(* both; a member of lowest score that is not an id blocks the dequeue.  *)
Dequeue ==
    /\ ~withPriority
    /\ queue # <<>>
    /\ inflight' = inflight \cup {Head(queue)}
    /\ queue' = Tail(queue)
    /\ UNCHANGED <<now, scheduled, prio, prioHash, requeue, produced, sweeper,
                   worker, ended, done, entered, arrivals, delLock, admin>>

DequeuePriority ==
    /\ withPriority
    /\ \E id \in DOMAIN prio :
           /\ \A x \in DOMAIN prio : prio[id] <= prio[x]
           /\ id \in Msgs
           /\ id \in DOMAIN prioHash
           /\ inflight' = inflight \cup {prioHash[id]}
           /\ prio' = Zrem(prio, id)
           /\ prioHash' = Hdel(prioHash, id)
    /\ UNCHANGED <<now, scheduled, queue, requeue, produced, sweeper, worker,
                   ended, done, entered, arrivals, delLock, admin>>

(* Consumer, acknowledge (spec 4.2); done also holds deleted messages. *)
Acknowledge(j) ==
    /\ j \in inflight
    /\ inflight' = inflight \ {j}
    /\ done' = done \cup {j.id}
    /\ UNCHANGED <<now, scheduled, queue, prio, prioHash, requeue, produced,
                   sweeper, worker, ended, entered, arrivals, delLock, admin>>

(* Consumer, unacknowledge (spec 4.2): below the retry threshold the     *)
(* message goes to the tail of keyQueueRequeue, else it is dead-lettered. *)
Unacknowledge(j) ==
    /\ j \in inflight
    /\ inflight' = inflight \ {j}
    /\ IF j.attempts < MaxAttempts
       THEN /\ requeue' = Rpush(requeue, j)
            /\ UNCHANGED done
       ELSE /\ done' = done \cup {j.id}
            /\ UNCHANGED requeue
    /\ UNCHANGED <<now, scheduled, queue, prio, prioHash, produced, sweeper,
                   worker, ended, entered, arrivals, delLock, admin>>

(* Mutation: LRANGE keyQueueRequeue 1 99, skipping the head. *)
RequeueFetchSkipHead(w) ==
    /\ w \notin ended
    /\ worker[w] = <<>>
    /\ requeue # <<>>
    /\ worker' = [worker EXCEPT ![w] = SubSeq(Lrange(requeue, LrangeLimit), 2,
                                            Len(Lrange(requeue, LrangeLimit)))]
    /\ UNCHANGED <<now, scheduled, queue, prio, prioHash, requeue, produced,
                   sweeper, ended, inflight, done, entered, arrivals, delLock,
                   admin>>

(* RequeueWorker.onTick, read: LRANGE keyQueueRequeue 0 99.  An empty    *)
(* reply only re-arms the ticker.                                         *)
RequeueFetch(w) ==
    /\ w \notin ended
    /\ worker[w] = <<>>
    /\ requeue # <<>>
    /\ worker' = [worker EXCEPT ![w] = Lrange(requeue, LrangeLimit)]
    /\ UNCHANGED <<now, scheduled, queue, prio, prioHash, requeue, produced,
                   sweeper, ended, inflight, done, entered, arrivals, delLock,
                   admin>>

(* Mutation: the attempts are incremented twice. *)
IncrAttemptsTwice(j) == [j EXCEPT !.attempts = @ + 2]

(* message.incrAttempts() *)
IncrAttempts(j) == [j EXCEPT !.attempts = @ + 1]

(* Mutation: the MULTI lacks the LREM of the entries read. *)
RequeueExecNoLrem(w) ==
    LET batch == worker[w]
        n == Len(batch)
    IN  /\ batch # <<>>
        /\ w \notin ended
        /\ IF withPriority
           THEN /\ prio' = FoldLeft(LAMBDA z, i :
                                Zadd(z, IncrAttempts(i), Priority[i.id]),
                                prio, batch)
                /\ UNCHANGED <<queue, entered, arrivals>>
           ELSE /\ queue' = FoldLeft(LAMBDA l, i : Lpush(l, IncrAttempts(i)),
                                     queue, batch)
                /\ entered' = [m \in Msgs |->
                                 IF \E k \in 1..n : batch[k].id = m
                                 THEN arrivals +
                                      Max({k \in 1..n : batch[k].id = m})
                                 ELSE entered[m]]
                /\ arrivals' = arrivals + n
                /\ UNCHANGED prio
        /\ worker' = [worker EXCEPT ![w] = <<>>]
        /\ UNCHANGED <<now, scheduled, requeue, prioHash, produced, sweeper,
                       ended, inflight, done, delLock, admin>>

(* RequeueWorker.onTick, write: one MULTI holding, for each entry i read,  *)
(* LREM keyQueueRequeue 1 i, then LPUSH of i with one more attempt to     *)
(* keyQueue (or ZADD of it to keyQueuePriority); then the ticker re-arms. *)
(* Nothing checks that the LREM removed anything.                        *)
RequeueExec(w) ==
    LET batch == worker[w]
        n == Len(batch)
    IN  /\ batch # <<>>
        /\ w \notin ended
        /\ requeue' = FoldLeft(LAMBDA l, i : Lrem1(l, i), requeue, batch)
        /\ IF withPriority
           THEN /\ prio' = FoldLeft(LAMBDA z, i :
                                Zadd(z, IncrAttempts(i), Priority[i.id]),
                                prio, batch)
                /\ UNCHANGED <<queue, entered, arrivals>>
           ELSE /\ queue' = FoldLeft(LAMBDA l, i : Lpush(l, IncrAttempts(i)),
                                     queue, batch)
                /\ entered' = [m \in Msgs |->
                                 IF \E k \in 1..n : batch[k].id = m
                                 THEN arrivals +
                                      Max({k \in 1..n : batch[k].id = m})
                                 ELSE entered[m]]
                /\ arrivals' = arrivals + n
                /\ UNCHANGED prio
        /\ worker' = [worker EXCEPT ![w] = <<>>]
        /\ UNCHANGED <<now, scheduled, prioHash, produced, sweeper, ended,
                       inflight, done, delLock, admin>>

(* The LRANGE, or the EXEC of the worker's MULTI, answers an error:       *)
(* onTick throws, which ends the worker process before the ticker is     *)
(* re-armed.  A failed EXEC applies none of the MULTI's commands.  A tick *)
(* that finds the list empty is a stutter here, so the error is taken at  *)
(* the LRANGE of a non-empty list or at the EXEC.                         *)
RequeueFails(w) ==
    /\ w \notin ended
    /\ requeue # <<>> \/ worker[w] # <<>>
    /\ ended' = ended \cup {w}
    /\ worker' = [worker EXCEPT ![w] = <<>>]
    /\ UNCHANGED <<now, scheduled, queue, prio, prioHash, requeue, produced,
                   sweeper, inflight, done, entered, arrivals, delLock, admin>>

(* deletePendingMessageWithPriority(id) calls LockManager.lockFN on       *)
(* keyLockDeletePendingMessageWithPriority: a non-blocking acquire.  If  *)
(* the key is held the caller gets LockContention and nothing changes.   *)
DeleteLock(a, m) ==
    /\ withPriority
    /\ m \in produced
    /\ admin[a].pc = "idle"
    /\ LockFree(delLock, now)
    /\ delLock' = Acquired(a, now)
    /\ admin' = [admin EXCEPT ![a] = [pc |-> "exec", id |-> m,
                                      until |-> now + LockTTL]]
    /\ UNCHANGED <<now, scheduled, queue, prio, prioHash, requeue, produced,
                   sweeper, worker, ended, inflight, done, entered, arrivals>>

(* The locked function: one MULTI of HDEL and ZREM of the id, without     *)
(* checking that the message is there; the caller is answered success    *)
(* either way.  A removed message leaves the queue for good (done).      *)
DeletePendingWithPriority(a) ==
    /\ admin[a].pc = "exec"
    /\ LET m == admin[a].id
       IN  /\ prioHash' = Hdel(prioHash, m)
           /\ prio' = Zrem(prio, m)
           /\ done' = IF m \in DOMAIN prio THEN done \cup {m} ELSE done
    /\ admin' = [admin EXCEPT ![a].pc = "release"]
    /\ UNCHANGED <<now, scheduled, queue, requeue, produced, sweeper, worker,
                   ended, inflight, entered, arrivals, delLock>>

(* lockFN then releases the lock (compare-and-delete on its token) and   *)
(* calls back.                                                           *)
DeleteRelease(a) ==
    /\ admin[a].pc = "release"
    /\ delLock' = Released(delLock, a)
    /\ admin' = [admin EXCEPT ![a] = AdminIdle]
    /\ UNCHANGED <<now, scheduled, queue, prio, prioHash, requeue, produced,
                   sweeper, worker, ended, inflight, done, entered, arrivals>>

Step ==
    \/ Tick
    \/ \E m \in Msgs : Schedule(m) \/ Enqueue(m)
    \/ \E s \in Sweepers :
           \/ FetchDue(s)
           \/ \E e \in sweeper[s] : ProcessScheduled(s, e) \/ ExecFails(s, e)
    \/ Dequeue
    \/ DequeuePriority
    \/ \E j \in inflight : Acknowledge(j) \/ Unacknowledge(j)
    \/ \E w \in Workers :
           \/ RequeueFetch(w)
           \/ RequeueExec(w)
           \/ RequeueFails(w)
    \/ \E a \in Admins :
           \/ \E m \in Msgs : DeleteLock(a, m)
           \/ DeletePendingWithPriority(a)
           \/ DeleteRelease(a)

(* The configuration does not change while the processes run. *)
Next == Step /\ UNCHANGED withPriority

(* The requeue worker's Ticker re-arms after every successful run         *)
(* (requeue.worker.ts:48, 51), so its read and MULTI are weakly fair      *)
(* while its process lives; a requeue error, which ends the worker, need  *)
(* not happen.  The sweep's caller is not under src/, so the sweep has    *)
(* no fairness; nor have producers, consumers and administrators.         *)
Fixed(A) == A /\ UNCHANGED withPriority

Fairness ==
    \A w \in Workers :
        /\ WF_vars(Fixed(RequeueFetch(w)))
        /\ WF_vars(Fixed(RequeueExec(w)))

Spec == Init /\ [][Next]_vars /\ Fairness

-----------------------------------------------------------------------------
TypeOK ==
    /\ withPriority \in BOOLEAN
    /\ now \in 1..MaxTime
    /\ DOMAIN scheduled \subseteq Message
    /\ queue \in Seq(Message)
    /\ DOMAIN prio \subseteq Msgs \cup Message
    /\ prioHash \in [DOMAIN prioHash -> Message]
    /\ DOMAIN prioHash \subseteq Msgs
    /\ requeue \in Seq(Message)
    /\ produced \subseteq Msgs
    /\ sweeper \in [Sweepers -> SUBSET Message]
    /\ \A w \in Workers : worker[w] \in Seq(Message)
    /\ ended \subseteq Workers
    /\ inflight \subseteq Message
    /\ done \subseteq Msgs
    /\ entered \in [Msgs -> Nat]
    /\ delLock \in [owner : Admins \cup {NoOwner},
                   expiry : 0..MaxTime + LockTTL]
    /\ admin \in [Admins -> [pc : {"idle", "exec", "release"}, id : Msgs,
                              until : 0..MaxTime + LockTTL]]

(* The number of places a message of id m is in. *)
Occurrences(l, m) == Cardinality({i \in 1..Len(l) : l[i].id = m})

Copies(m) ==
      Cardinality({e \in DOMAIN scheduled : e.id = m})
    + Occurrences(queue, m)
    + Cardinality({e \in DOMAIN prio : e = m \/ (e \notin Msgs /\ e.id = m)})
    + Occurrences(requeue, m)
    + Cardinality({j \in inflight : j.id = m})
    + (IF m \in done THEN 1 ELSE 0)

(* One location (spec 2, 4.1): every produced message is in exactly one   *)
(* of scheduled, pending (list or priority set), requeue list, a          *)
(* consumer, or done.  The sweep MULTI and the requeue MULTI each move a  *)
(* message in one step; a requeue MULTI built from a stale LRANGE, or a   *)
(* sweep MULTI from a stale ZRANGEBYSCORE, pushes a second copy.          *)
ExactlyOneLocation ==
    \A m \in produced : Copies(m) = 1

(* Priority entries are addressable by id (spec 4.2): every member of     *)
(* keyQueuePriority is a message id with its message in                   *)
(* keyPendingMessagesWithPriority, which is how enqueue writes them and   *)
(* how deletePendingMessageWithPriority and the consumer find them.       *)
PriorityEntriesAddressable ==
    \A e \in DOMAIN prio :
        e \in Msgs /\ e \in DOMAIN prioHash /\ prioHash[e].id = e

(* FIFO within the pending list (spec 4.2, 5): read from the head, where  *)
(* the consumer takes them, the messages of keyQueue are in the order     *)
(* they entered it; enqueue pushes at the tail.                           *)
PendingIsFifo ==
    \A i, k \in 1..Len(queue) :
        i < k => entered[queue[i].id] < entered[queue[k].id]

(* Requeueing keeps going: every message in keyQueueRequeue eventually    *)
(* leaves it, however many entries wait beyond the 100 of one LRANGE,    *)
(* unless every RequeueWorker process has ended on a thrown error; a      *)
(* failed MULTI leaves its entries in the list for a later tick.         *)
InRequeue(m) == \E i \in 1..Len(requeue) : requeue[i].id = m

RequeueDrains ==
    \A m \in Msgs : InRequeue(m) ~> (~InRequeue(m) \/ ended = Workers)

=============================================================================
