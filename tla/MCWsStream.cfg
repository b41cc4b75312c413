CONSTANTS
    NoTask = NoTask
    Tasks = {t1, t2}
    Messages = {m1, m2}
    MaxMessages = 3
SPECIFICATION Spec
INVARIANTS
    TypeOK
    NoLostWakeup
PROPERTY Promise
\* A socket whose stream is dropped comes to rest.
CHECK_DEADLOCK FALSE
