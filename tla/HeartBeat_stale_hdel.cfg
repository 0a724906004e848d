\* One start, one reader, Redis always answers OK.
CONSTANTS
    Readers = {r1}
    Interval = 1
    Window = 2
    MaxTime = 6
    MaxStarts = 1
    RedisErrors = FALSE
SPECIFICATION Spec
INVARIANT BeatingIsVisible
\* After stop the process is DOWN with nothing pending; the clock stops at MaxTime.
CHECK_DEADLOCK FALSE
