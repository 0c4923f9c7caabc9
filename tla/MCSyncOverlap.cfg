\* Overlapping runs with different target filters over one state file; every run
\* ends, with one semaphore slot for its workers.
SPECIFICATION FairSpec
CONSTANTS
    o1 = o1
    o2 = o2
    t1 = t1
    t2 = t2
    Nil = Nil
    Items = {i1, i2}
    Runs = {r1, r2}
    Owns = {o1}
    Texts = {t1}
    MaxVersion = 1
    MaxPRs = 1
    Markers = {i1}
    Symlinks = {}
    Scopes = {{i1}, {i2}, {i1, i2}}
    Forces = {FALSE}
    DryRuns = {FALSE}
    Concurrency = 1
    CloseStalePRs = FALSE
    Seeded = TRUE
    Overlap = TRUE
    Faulty = {"source"}
    Humans = {"merge", "close"}
    Edits <- Plain
INVARIANTS RecordsAreReal
PROPERTIES SavesOwnScope RunsEnd
\* The process stops once its runs are over.
CHECK_DEADLOCK FALSE
