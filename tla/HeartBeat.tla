------------------------------ MODULE HeartBeat ------------------------------
(***************************************************************************)
(* The heartbeat of one consumer instance, src/src/heartbeat.js, and the  *)
(* readers that judge it.                                                  *)
(*                                                                         *)
(* The HeartBeat object keeps, in its closure, `state` (UP/DOWN), the      *)
(* Redis client `redisClientInstance`, the pending `timer` and            *)
(* `shutdownNow`.  start() creates a client asynchronously and beats;     *)
(* beat() HSETs {timestamp} under the consumer's field of keyHeartBeat     *)
(* and, on success, arms a 1s timer that beats again or, if stop() has    *)
(* installed shutdownNow, goes DOWN and HDELs the field; the HDEL's       *)
(* callback ends the client.  isOnline/getOnlineConsumers read the field, *)
(* judge it online when now - timestamp <= 10s, and otherwise send an     *)
(* HDEL of it without waiting.  Every Redis command is sent in one step   *)
(* and applied, with its callback run, in a later one; commands of        *)
(* different clients are applied in any order.                            *)
(***************************************************************************)
EXTENDS Naturals, FiniteSets

CONSTANTS
    Readers,     \* clients calling isOnline / getOnlineConsumers
    Interval,    \* the beat timer, 1000 ms
    Window,      \* the online window, 10000 ms
    MaxTime,     \* the clock stops here
    MaxStarts,   \* calls of start() in a behaviour
    RedisErrors  \* whether a command may answer an error

ASSUME Interval \in Nat \ {0} /\ Window \in Nat /\ RedisErrors \in BOOLEAN

VARIABLES
    now,          \* Date.now()
    state,        \* "UP" or "DOWN"
    shutdownNow,  \* stop() installed the shutdown closure
    client,       \* redisClientInstance: the number of the client, 0 = null
    gen,          \* clients created so far
    connecting,   \* a getNewInstance callback is pending
    timer,        \* the time the pending timer was armed, 0 = none
    pending,      \* commands sent and not yet applied
    ended,        \* clients closed by end(true)
    record,       \* keyHeartBeat field of the consumer: timestamp, 0 = none
    reader,       \* reader[r]: "idle", or "hdel" while its HDEL is pending
    crashed,      \* a TypeError ended the consumer process
    starts,       \* start() calls so far
    wanted,       \* history: the last of start()/stop() called
    lastBeat      \* history: the timestamp of the last HSET applied

vars == <<now, state, shutdownNow, client, gen, connecting, timer, pending,
          ended, record, reader, crashed, starts, wanted, lastBeat>>

Command == [op : {"hset", "hdel"}, cl : 1..MaxStarts, ts : 0..MaxTime]

(* The outcomes a command's callback may see. *)
Outcomes == IF RedisErrors THEN {TRUE, FALSE} ELSE {TRUE}

(* beat(), run with client number cl: when UP, send HSET of the current   *)
(* timestamp; a null client throws a TypeError out of the callback.       *)
Beat(cl) ==
    IF state' = "UP"
    THEN IF cl = 0
         THEN crashed' = TRUE /\ UNCHANGED pending
         ELSE pending' = pending \cup {[op |-> "hset", cl |-> cl, ts |-> now]}
              /\ UNCHANGED crashed
    ELSE UNCHANGED <<pending, crashed>>

-----------------------------------------------------------------------------
Init ==
    /\ now = 1
    /\ state = "DOWN"
    /\ shutdownNow = FALSE
    /\ client = 0
    /\ gen = 0
    /\ connecting = FALSE
    /\ timer = 0
    /\ pending = {}
    /\ ended = {}
    /\ record = 0
    /\ reader = [r \in Readers |-> "idle"]
    /\ crashed = FALSE
    /\ starts = 0
    /\ wanted = "none"
    /\ lastBeat = 0

Tick ==
    /\ now < MaxTime
    /\ now' = now + 1
    /\ UNCHANGED <<state, shutdownNow, client, gen, connecting, timer, pending,
                   ended, record, reader, crashed, starts, wanted, lastBeat>>

(* start(): when DOWN, go UP and ask for a new client; when UP, nothing. *)
Start ==
    /\ ~crashed
    /\ starts < MaxStarts
    /\ starts' = starts + 1
    /\ wanted' = "up"
    /\ IF state = "DOWN"
       THEN state' = "UP" /\ connecting' = TRUE
       ELSE UNCHANGED <<state, connecting>>
    /\ UNCHANGED <<now, shutdownNow, client, gen, timer, pending, ended,
                   record, reader, crashed, lastBeat>>

(* The getNewInstance callback: keep the client, beat(), emit UP. *)
Connected ==
    /\ ~crashed
    /\ connecting
    /\ connecting' = FALSE
    /\ gen' = gen + 1
    /\ client' = gen + 1
    /\ UNCHANGED state
    /\ Beat(gen + 1)
    /\ UNCHANGED <<now, shutdownNow, timer, ended, record, reader, starts,
                   wanted, lastBeat>>

(* stop(): when UP and no shutdown is installed, install shutdownNow. *)
Stop ==
    /\ ~crashed
    /\ wanted = "up"
    /\ wanted' = "down"
    /\ shutdownNow' = (shutdownNow \/ state = "UP")
    /\ UNCHANGED <<now, state, client, gen, connecting, timer, pending, ended,
                   record, reader, crashed, starts, lastBeat>>

(* Mutation: the timer records when it is due instead of when armed. *)
HsetDoneDueTime(c) ==
    /\ ~crashed
    /\ c \in pending /\ c.op = "hset"
    /\ pending' = pending \ {c}
    /\ \E ok \in Outcomes :
           IF ok /\ c.cl \notin ended
           THEN /\ record' = c.ts
                /\ lastBeat' = c.ts
                /\ timer' = now + Interval
           ELSE UNCHANGED <<record, lastBeat, timer>>
    /\ UNCHANGED <<now, state, shutdownNow, client, gen, connecting, ended,
                   reader, crashed, starts, wanted>>

(* Mutation: the HSET callback does not arm the timer. *)
HsetDoneNoTimer(c) ==
    /\ ~crashed
    /\ c \in pending /\ c.op = "hset"
    /\ pending' = pending \ {c}
    /\ \E ok \in Outcomes :
           IF ok /\ c.cl \notin ended
           THEN /\ record' = c.ts
                /\ lastBeat' = c.ts
           ELSE UNCHANGED <<record, lastBeat>>
    /\ UNCHANGED <<now, state, shutdownNow, client, gen, connecting, ended,
                   reader, crashed, starts, wanted, timer>>

(* The HSET of beat() is applied and its callback runs: on success the   *)
(* timer is armed; on an error only instance.error() is called.  A       *)
(* command of a client already ended fails.                               *)
HsetDone(c) ==
    /\ ~crashed
    /\ c \in pending /\ c.op = "hset"
    /\ pending' = pending \ {c}
    /\ \E ok \in Outcomes :
           IF ok /\ c.cl \notin ended
           THEN /\ record' = c.ts
                /\ lastBeat' = c.ts
                /\ timer' = now
           ELSE UNCHANGED <<record, lastBeat, timer>>
    /\ UNCHANGED <<now, state, shutdownNow, client, gen, connecting, ended,
                   reader, crashed, starts, wanted>>

(* Mutation: the timer callback beats without looking at shutdownNow. *)
TimerFiresIgnoresShutdown ==
    /\ ~crashed
    /\ timer # 0
    /\ now >= timer + Interval \/ now = MaxTime
    /\ timer' = 0
    /\ UNCHANGED <<state, shutdownNow>>
    /\ Beat(client)
    /\ UNCHANGED <<now, client, gen, connecting, ended, record, reader, starts,
                   wanted, lastBeat>>

(* The 1s timer fires (setTimeout fires no earlier than Interval after  *)
(* it was armed; at MaxTime, where the model's clock stops, it may fire). *)
(* With shutdownNow installed: go DOWN, clear it and HDEL the field;      *)
(* otherwise beat().                                                      *)
TimerFires ==
    /\ ~crashed
    /\ timer # 0
    /\ now >= timer + Interval \/ now = MaxTime
    /\ timer' = 0
    /\ IF shutdownNow
       THEN /\ state' = "DOWN"
            /\ shutdownNow' = FALSE
            /\ IF client = 0
               THEN crashed' = TRUE /\ UNCHANGED pending
               ELSE /\ pending' = pending \cup
                                  {[op |-> "hdel", cl |-> client, ts |-> 0]}
                    /\ UNCHANGED crashed
       ELSE /\ UNCHANGED <<state, shutdownNow>>
            /\ Beat(client)
    /\ UNCHANGED <<now, client, gen, connecting, ended, record, reader, starts,
                   wanted, lastBeat>>

(* The HDEL of the shutdown is applied and its callback runs: on success  *)
(* it ends and nulls redisClientInstance, whichever client that is now,   *)
(* and emits DOWN.                                                        *)
HdelDone(c) ==
    /\ ~crashed
    /\ c \in pending /\ c.op = "hdel"
    /\ pending' = pending \ {c}
    /\ \E ok \in Outcomes :
           IF ok /\ c.cl \notin ended
           THEN /\ record' = 0
                /\ IF client = 0
                   THEN crashed' = TRUE /\ UNCHANGED <<ended, client>>
                   ELSE /\ ended' = ended \cup {client}
                        /\ client' = 0
                        /\ UNCHANGED crashed
           ELSE UNCHANGED <<record, ended, client, crashed>>
    /\ UNCHANGED <<now, state, shutdownNow, gen, connecting, timer, reader,
                   starts, wanted, lastBeat>>

(* isOnline / getOnlineConsumers: the HGET (HGETALL) reply holds a        *)
(* timestamp older than the window, so the field is judged offline and   *)
(* an HDEL of it is sent without waiting.  A fresh or missing field      *)
(* changes nothing.                                                       *)
ReaderJudgesOffline(r) ==
    /\ reader[r] = "idle"
    /\ record # 0
    /\ now - record > Window
    /\ reader' = [reader EXCEPT ![r] = "hdel"]
    /\ UNCHANGED <<now, state, shutdownNow, client, gen, connecting, timer,
                   pending, ended, record, crashed, starts, wanted, lastBeat>>

(* The reader's HDEL is applied to whatever the field holds by then. *)
ReaderHdel(r) ==
    /\ reader[r] = "hdel"
    /\ reader' = [reader EXCEPT ![r] = "idle"]
    /\ record' = 0
    /\ UNCHANGED <<now, state, shutdownNow, client, gen, connecting, timer,
                   pending, ended, crashed, starts, wanted, lastBeat>>

Next ==
    \/ Tick
    \/ Start
    \/ Connected
    \/ Stop
    \/ TimerFires
    \/ \E c \in pending : HsetDone(c) \/ HdelDone(c)
    \/ \E r \in Readers : ReaderJudgesOffline(r) \/ ReaderHdel(r)

(* Node's event loop runs every pending callback and due timer, and      *)
(* Redis answers every command, so these steps are weakly fair; time     *)
(* advances.  The callers of start/stop and the readers need not act.    *)
Fairness ==
    /\ WF_vars(Tick)
    /\ WF_vars(Connected)
    /\ WF_vars(TimerFires)
    /\ WF_vars(\E c \in pending : HsetDone(c))
    /\ WF_vars(\E c \in pending : HdelDone(c))

Spec == Init /\ [][Next]_vars /\ Fairness

-----------------------------------------------------------------------------
TypeOK ==
    /\ now \in 1..MaxTime
    /\ state \in {"UP", "DOWN"}
    /\ shutdownNow \in BOOLEAN
    /\ client \in 0..MaxStarts /\ gen \in 0..MaxStarts
    /\ connecting \in BOOLEAN
    /\ timer \in 0..MaxTime
    /\ pending \subseteq Command
    /\ ended \subseteq 1..MaxStarts
    /\ record \in 0..MaxTime /\ lastBeat \in 0..MaxTime
    /\ reader \in [Readers -> {"idle", "hdel"}]
    /\ crashed \in BOOLEAN
    /\ wanted \in {"none", "up", "down"}

(* stop() takes effect: once stop() is the last call, the heartbeat       *)
(* eventually goes DOWN (its shutdown runs from the next timer).          *)
StopCompletes ==
    wanted = "down" ~> (state = "DOWN" \/ wanted # "down")

(* While UP and not stopping, the record keeps being refreshed: for each  *)
(* moment t, a beat stamped t or later is eventually written, as the     *)
(* timer chain beat -> HSET -> timer -> beat promises.                    *)
HeartbeatIsRefreshed ==
    \A t \in 1..MaxTime :
        (state = "UP" /\ ~shutdownNow /\ client # 0 /\ now = t)
            ~> (lastBeat >= t \/ shutdownNow \/ state = "DOWN")

(* beat() and the shutdown never run through a null redisClientInstance  *)
(* (which throws a TypeError out of a timer callback and ends the         *)
(* process).                                                              *)
ClientIsOpenWhenUsed == ~crashed

(* A consumer that is UP and beat within the window is visible: its      *)
(* field is in keyHeartBeat, so isOnline answers true for it (spec 4.4:  *)
(* online iff refreshed within 10s).                                      *)
BeatingIsVisible ==
    (state = "UP" /\ ~shutdownNow /\ lastBeat # 0 /\ now - lastBeat <= Window)
        => record # 0
=============================================================================
