\* The same drift, seen by two runs.
SPECIFICATION Spec
CONSTANTS
    Repos = {r1}
    Templates = {t1}
    Hashes = {h1, h2}
    Missing = Missing
    Nil = Nil
    Monitors = {m1, m2, m3}
    Scopes = {{r1}}
    Configured = {t1}
    AutoClose = TRUE
    MaxIssues = 3
    MaxWrites = 3
    Overlap = FALSE
    Faulty = {}
    Readers = {}
SYMMETRY MCSymmetry
PROPERTIES FirstDetectedKept
\* The process stops once its runs are over.
CHECK_DEADLOCK FALSE
