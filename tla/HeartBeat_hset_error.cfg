\* One start and one stop; Redis may answer an error.
CONSTANTS
    Readers = {}
    Interval = 1
    Window = 2
    MaxTime = 6
    MaxStarts = 1
    RedisErrors = TRUE
SPECIFICATION Spec
PROPERTY StopCompletes
\* After stop the process is DOWN with nothing pending; the clock stops at MaxTime.
CHECK_DEADLOCK FALSE
