\* A write that is limited once.
SPECIFICATION Spec
CONSTANTS
    Callers = {c1, c2}
    Requests = 1
    Writes = {c2}
    Limit = 2
    Window = 3
    Threshold = 1
    MaxRetries = 1
    BaseDelay = 1
    RetryAfters = {0, 2}
    Secondary = {403, 429}
    Drain = FALSE
    Lossy = FALSE
    Deadline = 4
INVARIANTS RetriesAreWhole
\* The process stops once its requests are made.
CHECK_DEADLOCK FALSE
