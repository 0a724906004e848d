\* Both modes of config.priorityQueue: one sweeper, one requeue worker, a
\* batch limit below the backlog; two administrators deleting by id under
\* the delete lock, whose TTL may lapse mid-delete.
CONSTANTS
    Msgs = {m1, m2, m3}
    Sweepers = {s1}
    Workers = {w1}
    PriorityModes = {FALSE, TRUE}
    MaxTime = 3
    MaxAttempts = 1
    LrangeLimit = 2
    Admins = {a1, a2}
    NoOwner = NoOwner
    LockTTL = 1
    Directives <- MCDirectives
    Priority <- MCPriority
SPECIFICATION Spec
INVARIANT TypeOK
INVARIANT ExactlyOneLocation
PROPERTY RequeueDrains
\* The model stops once the clock is at MaxTime and no client has a step left;
\* the real tickers then only poll empty sets.
CHECK_DEADLOCK FALSE
