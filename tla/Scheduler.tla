------------------------------ MODULE Scheduler ------------------------------
(***************************************************************************)
(* The scheduled-message protocol of src/src/scheduler.ts.                 *)
(*                                                                         *)
(* Redis keeps a sorted set keyQueueScheduledMessages whose members are    *)
(* the serialised messages (so a message's scheduling flags are part of    *)
(* the member) scored by the fire timestamp, and a hash                    *)
(* keyIndexScheduledMessages from message id to the member, used to delete *)
(* by id.  A producer calls schedule(); every sweeper tick calls           *)
(* enqueueScheduledMessages(), which fetches the due members with one      *)
(* ZRANGEBYSCORE and then, per member, runs one MULTI that removes it,     *)
(* enqueues it and, for a periodic message, re-adds it under the next      *)
(* timestamp.  An administrator calls deleteScheduledMessage(), an HGET    *)
(* followed by a MULTI of ZREM and HDEL.  Each MULTI is one atomic step;   *)
(* the steps of different clients interleave freely.                       *)
(***************************************************************************)
EXTENDS ScheduleTimestamp, RedisOps, Sequences, FiniteSets, Functions, TLC

CONSTANTS
    Sweepers,    \* processes running enqueueScheduledMessages on a ticker
    Admins,      \* clients calling deleteScheduledMessage
    MaxTime      \* the clock (Date.now()) stops here

ASSUME MaxTime \in Nat \ {0}

VARIABLES
    now,        \* Date.now()
    scheduled,  \* keyQueueScheduledMessages: member -> score
    index,      \* keyIndexScheduledMessages: id -> member
    produced,   \* ids already passed to schedule()
    sweeper,    \* sweeper[s]: the due members fetched and not yet processed
    held,       \* held[a]: {member returned by HGET} or {} when idle
    plan,       \* history: kinds of every timestamp chosen for a message
    fired,      \* history: number of times a message was enqueued
    cancelled,  \* history: number of members removed by a delete
    deleted     \* history: ids whose delete returned true

vars == <<now, scheduled, index, produced, sweeper, held, plan, fired,
          cancelled, deleted>>

(* A member of the sorted set: the message with its mutable scheduling    *)
(* state (delayed, scheduledRepeatCount, scheduledCronFired).             *)
Member == [id : Msgs, delayed : BOOLEAN, count : 0..MaxRepeat + 1,
           cronFired : BOOLEAN]

Kinds == {"delay", "cron", "repeat"}

FreshMessage(m) == [id |-> m, delayed |-> FALSE, count |-> 0,
                    cronFired |-> FALSE]

MembersOf(m) == {e \in DOMAIN scheduled : e.id = m}

(* scheduleAtTimestamp: ZADD of the member and HSET of the index in one  *)
(* transaction; the result is the pair of structures after it.           *)
ScheduleAtTimestamp(z, h, e, ts) ==
    [zset |-> Zadd(z, e, ts), hash |-> Hset(h, e.id, e)]

-----------------------------------------------------------------------------
Init ==
    /\ now = 1
    /\ scheduled = <<>>
    /\ index = <<>>
    /\ produced = {}
    /\ sweeper = [s \in Sweepers |-> {}]
    /\ held = [a \in Admins |-> {}]
    /\ plan = [m \in Msgs |-> <<>>]
    /\ fired = [m \in Msgs |-> 0]
    /\ cancelled = [m \in Msgs |-> 0]
    /\ deleted = {}

(* Date.now() advances. *)
Tick ==
    /\ now < MaxTime
    /\ now' = now + 1
    /\ UNCHANGED <<scheduled, index, produced, sweeper, held, plan, fired,
                   cancelled, deleted>>

(* schedule(message, cb) for a new schedulable message: its first         *)
(* timestamp is always positive, so the message is added in one MULTI.    *)
Schedule(m) ==
    /\ m \notin produced
    /\ IsSchedulable(m)
    /\ LET nxt == NextScheduledTimestamp(FreshMessage(m), now)
           tx == ScheduleAtTimestamp(scheduled, index, nxt.msg, nxt.ts)
       IN  /\ nxt.ts > 0
           /\ scheduled' = tx.zset
           /\ index' = tx.hash
           /\ plan' = [plan EXCEPT ![m] = Append(@, nxt.kind)]
    /\ produced' = produced \cup {m}
    /\ UNCHANGED <<now, sweeper, held, fired, cancelled, deleted>>

(* enqueueScheduledMessages, fetch: ZRANGEBYSCORE 0 now.  A fetch that   *)
(* returns nothing changes no state and is left out.                      *)
FetchDue(s) ==
    /\ sweeper[s] = {}
    /\ LET due == {e \in DOMAIN scheduled : scheduled[e] <= now}
       IN  /\ due # {}
           /\ sweeper' = [sweeper EXCEPT ![s] = due]
    /\ UNCHANGED <<now, scheduled, index, produced, held, plan, fired,
                   cancelled, deleted>>

(* Mutation: the MULTI lacks the ZREM of the processed member. *)
ProcessScheduledKeepsMember(s, e) ==
    /\ e \in sweeper[s]
    /\ LET m == e.id
           nxt == NextScheduledTimestamp(e, now)
           tx == ScheduleAtTimestamp(scheduled, index, nxt.msg, nxt.ts)
           again == IsPeriodic(m) /\ nxt.ts > 0
       IN  /\ scheduled' = IF again THEN tx.zset ELSE scheduled
           /\ index' = IF again THEN tx.hash ELSE index
           /\ plan' = IF again THEN [plan EXCEPT ![m] = Append(@, nxt.kind)]
                      ELSE plan
           /\ fired' = [fired EXCEPT ![m] = @ + 1]
    /\ sweeper' = [sweeper EXCEPT ![s] = @ \ {e}]
    /\ UNCHANGED <<now, produced, held, cancelled, deleted>>

(* enqueueScheduledMessages, process, for one fetched member e: one MULTI *)
(* of enqueueScheduledMessage (ZREM e, enqueue the message) and           *)
(* scheduleAtNextTimestamp (for a periodic message with a next timestamp, *)
(* ZADD and HSET of the updated message).  The MULTI is sent whatever the *)
(* sorted set holds now: nothing checks that the ZREM removed anything.   *)
ProcessScheduled(s, e) ==
    /\ e \in sweeper[s]
    /\ LET m == e.id
           nxt == NextScheduledTimestamp(e, now)
           removed == Zrem(scheduled, e)
           tx == ScheduleAtTimestamp(removed, index, nxt.msg, nxt.ts)
           again == IsPeriodic(m) /\ nxt.ts > 0
       IN  /\ scheduled' = IF again THEN tx.zset ELSE removed
           /\ index' = IF again THEN tx.hash ELSE index
           /\ plan' = IF again THEN [plan EXCEPT ![m] = Append(@, nxt.kind)]
                      ELSE plan
           /\ fired' = [fired EXCEPT ![m] = @ + 1]
    /\ sweeper' = [sweeper EXCEPT ![s] = @ \ {e}]
    /\ UNCHANGED <<now, produced, held, cancelled, deleted>>

(* The MULTI for e fails (connection error): nothing of it is applied and *)
(* async.each reports the error; e stays scheduled for a later tick.      *)
ExecFails(s, e) ==
    /\ e \in sweeper[s]
    /\ sweeper' = [sweeper EXCEPT ![s] = @ \ {e}]
    /\ UNCHANGED <<now, scheduled, index, produced, held, plan, fired,
                   cancelled, deleted>>

(* deleteScheduledMessage, getMessage: HGET of the index.  When the id is *)
(* not indexed the call answers false and changes nothing.                *)
DeleteGet(a, m) ==
    /\ held[a] = {}
    /\ m \in DOMAIN index
    /\ held' = [held EXCEPT ![a] = {index[m]}]
    /\ UNCHANGED <<now, scheduled, index, produced, sweeper, plan, fired,
                   cancelled, deleted>>

(* deleteScheduledMessage, deleteMessage: MULTI of ZREM of the member read *)
(* by HGET and HDEL of its id; the answer is true only when both removed  *)
(* something.                                                             *)
DeleteExec(a) ==
    \E e \in held[a] :
        LET zremOk == e \in DOMAIN scheduled
            hdelOk == e.id \in DOMAIN index
        IN  /\ scheduled' = Zrem(scheduled, e)
            /\ index' = Hdel(index, e.id)
            /\ cancelled' = [cancelled EXCEPT ![e.id] =
                                @ + (IF zremOk THEN 1 ELSE 0)]
            /\ deleted' = IF zremOk /\ hdelOk THEN deleted \cup {e.id}
                          ELSE deleted
            /\ held' = [held EXCEPT ![a] = {}]
            /\ UNCHANGED <<now, produced, sweeper, plan, fired>>

Next ==
    \/ Tick
    \/ \E m \in Msgs : Schedule(m)
    \/ \E s \in Sweepers :
           \/ FetchDue(s)
           \/ \E e \in sweeper[s] : ProcessScheduled(s, e) \/ ExecFails(s, e)
    \/ \E a \in Admins :
           \/ \E m \in Msgs : DeleteGet(a, m)
           \/ DeleteExec(a)

Spec == Init /\ [][Next]_vars

-----------------------------------------------------------------------------
TypeOK ==
    /\ now \in 1..MaxTime
    /\ DOMAIN scheduled \subseteq Member
    /\ \A e \in DOMAIN scheduled : scheduled[e] \in Nat
    /\ DOMAIN index \subseteq Msgs
    /\ \A m \in DOMAIN index : index[m] \in Member /\ index[m].id = m
    /\ produced \subseteq Msgs
    /\ sweeper \in [Sweepers -> SUBSET Member]
    /\ held \in [Admins -> SUBSET Member]
    /\ plan \in [Msgs -> Seq(Kinds)]
    /\ fired \in [Msgs -> Nat]
    /\ cancelled \in [Msgs -> Nat]
    /\ deleted \subseteq Msgs

(* Exactly-once sweep (spec 4.1): every timestamp ever chosen for a       *)
(* message is, at any time, either still in the sorted set, or was        *)
(* enqueued exactly once, or was removed by a delete.  A duplicate        *)
(* enqueue by a second ProcessScheduled of the same member, or a lost     *)
(* member, breaks the count.                                              *)
ScheduledExactlyOnce ==
    \A m \in produced :
        fired[m] + cancelled[m] + Cardinality(MembersOf(m)) = Len(plan[m])

(* A periodic message has at most one entry in the sorted set: the       *)
(* re-add of scheduleAtNextTimestamp always comes with the ZREM of the    *)
(* member it replaces.                                                    *)
AtMostOneScheduled ==
    \A m \in Msgs : Cardinality(MembersOf(m)) <= 1

(* Every scheduled member is reachable through the index (spec 3: the     *)
(* id index enables lookup and delete by id), so that                     *)
(* deleteScheduledMessage(id) can still remove it.                        *)
ScheduledIsIndexed ==
    \A e \in DOMAIN scheduled : e.id \in DOMAIN index /\ index[e.id] = e

(* A message whose deleteScheduledMessage answered true is never in the   *)
(* sorted set again.                                                      *)
DeleteIsFinal ==
    \A m \in deleted : MembersOf(m) = {}

(* The recurrence the scheduling engine promises (spec 4.1, 8): the       *)
(* kinds of successive timestamps of a message are: one "delay" first     *)
(* iff a delay is set; then, with a cron, "cron" first and at most        *)
(* `repeat` "repeat"s between two "cron"s; without a cron, at most        *)
(* `repeat` "repeat"s in all.                                             *)
RepeatRunsBounded(seq, n) ==
    \A i, j \in 1..Len(seq) :
        (i <= j /\ \A k \in i..j : seq[k] = "repeat") => j - i + 1 <= n

RecurrenceFollowsDirectives ==
    \A m \in Msgs :
        LET d == Directives[m]
            p == plan[m]
            body == IF d.delay > 0 /\ p # <<>> THEN Tail(p) ELSE p
        IN  /\ d.delay > 0 /\ p # <<>> => Head(p) = "delay"
            /\ \A i \in 1..Len(body) : body[i] # "delay"
            /\ IF d.cron > 0
               THEN /\ body # <<>> => Head(body) = "cron"
                    /\ RepeatRunsBounded(body, d.repeat)
               ELSE /\ \A i \in 1..Len(body) : body[i] = "repeat"
                    /\ Len(body) <= d.repeat

=====
