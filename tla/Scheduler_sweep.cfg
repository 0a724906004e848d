\* One sweeper, no administrator: the sweep alone.
CONSTANTS
    Msgs = {m1, m2}
    Sweepers = {s1}
    Admins = {}
    MaxTime = 7
    Directives <- MCDirectives
SPECIFICATION Spec
INVARIANT TypeOK
INVARIANT ScheduledExactlyOnce
\* The model's clock stops at MaxTime; the ticker then only polls empty fetches.
CHECK_DEADLOCK FALSE
