\* A new target with another copy cannot be read, and the issue about the others
\* is closed.  Run by hand.
SPECIFICATION Spec
CONSTANTS
    Repos = {r1, r2, r3}
    Central = r1
    Hashes = {h1, h2}
    Versions = {h1}
    Missing = Missing
    Nil = Nil
    Broken = {}
    Overlapping = {h2}
    Documented = {r1}
    Skilled = {r1, r2, r3}
    Scanners = {m1, m2}
    TierChoices <- MCTiers
    AutoClose = TRUE
    MaxIssues = 3
    MaxWrites = 1
    MaxFailedReads = 1
    Overlap = FALSE
    Faulty = {"load", "read", "list", "update", "create", "close"}
    Readers = {"close", "retitle", "rewrite"}
SYMMETRY MCSymmetry
PROPERTIES ClosedOnlyWhenAllRead
\* The process stops once its runs are over.
CHECK_DEADLOCK FALSE
