\* stop() followed by start(), Redis always answers OK.
CONSTANTS
    Readers = {}
    Interval = 1
    Window = 2
    MaxTime = 6
    MaxStarts = 2
    RedisErrors = FALSE
SPECIFICATION Spec
INVARIANT ClientIsOpenWhenUsed
\* After stop the process is DOWN with nothing pending; the clock stops at MaxTime.
CHECK_DEADLOCK FALSE
