\* Two replicas, one producer, one consumer with one rate type; commands may fail.
CONSTANTS
    Replicas = {a1, a2}
    Producers = {p1}
    Consumers = {c1}
    ConsumerTypes = {"processing"}
    RateValues = {1}
    RateExpiry = 1
    LockTTL = 1
    MaxTime = 2
    RedisErrors = TRUE
    NoOwner = NoOwner
SPECIFICATION Spec
INVARIANT TypeOK
PROPERTY SnapshotMatchesReads
PROPERTY CycleCompletes
\* The clock stops at MaxTime and a replica may wait for a lock that outlives it.
CHECK_DEADLOCK FALSE
