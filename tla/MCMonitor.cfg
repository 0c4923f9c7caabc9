\* Two repositories and a target filter; any request but the load fails, readers
\* change issues.
SPECIFICATION Spec
CONSTANTS
    Repos = {r1, r2}
    Templates = {t1}
    Hashes = {h1, h2}
    Missing = Missing
    Nil = Nil
    Monitors = {m1, m2}
    Scopes = {{r1}, {r1, r2}}
    Configured = {t1}
    AutoClose = TRUE
    MaxIssues = 3
    MaxWrites = 2
    Overlap = FALSE
    Faulty = {"list", "fetch", "close", "update", "create"}
    Readers = {"close", "retitle", "rewrite"}
SYMMETRY MCSymmetry
INVARIANTS TypeOK AtMostOneIssue
PROPERTIES DriftIsReported ResolvedIsClosed
\* The process stops once its runs are over.
CHECK_DEADLOCK FALSE
