\* A delete that answered true, then a sweep that had already fetched the message.
CONSTANTS
    Msgs = {m1, m2}
    Sweepers = {s1}
    Admins = {a1}
    MaxTime = 7
    Directives <- MCDirectives
SPECIFICATION Spec
INVARIANT DeleteIsFinal
\* The model's clock stops at MaxTime; the ticker then only polls empty fetches.
CHECK_DEADLOCK FALSE
