\* List mode: the order of keyQueue.
CONSTANTS
    Msgs = {m1, m2, m3}
    Sweepers = {s1}
    Workers = {w1}
    PriorityModes = {FALSE}
    MaxTime = 3
    MaxAttempts = 1
    LrangeLimit = 2
    Admins = {a1}
    NoOwner = NoOwner
    LockTTL = 1
    Directives <- MCDirectives
    Priority <- MCPriority
SPECIFICATION Spec
INVARIANT PendingIsFifo
\* The model stops once the clock is at MaxTime and no client has a step left;
\* the real tickers then only poll empty sets.
CHECK_DEADLOCK FALSE
