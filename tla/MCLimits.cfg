\* Primary and secondary limits, other clients of the token, broken connections,
\* and the deadline of the run.
SPECIFICATION FairSpec
CONSTANTS
    Callers = {c1, c2}
    Requests = 2
    Writes = {c2}
    Limit = 3
    Window = 3
    Threshold = 3
    MaxRetries = 1
    BaseDelay = 1
    RetryAfters = {2}
    Secondary = {403, 429}
    Drain = TRUE
    Lossy = TRUE
    Deadline = 4
INVARIANTS TypeOK AppliedOnce NeverRefused
PROPERTIES EveryRequestReturns
\* The process stops once its requests are made.
CHECK_DEADLOCK FALSE
