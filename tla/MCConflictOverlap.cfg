\* Two runs at once both file the same conflict.  Run by hand.
SPECIFICATION Spec
CONSTANTS
    Repos = {r1, r2, r3}
    Central = r1
    Hashes = {h1, h2}
    Versions = {h1}
    Missing = Missing
    Nil = Nil
    Broken = {}
    Overlapping = {h2}
    Documented = {r1}
    Skilled = {r1, r2, r3}
    Scanners = {m1, m2}
    TierChoices <- MCTiers
    AutoClose = TRUE
    MaxIssues = 3
    MaxWrites = 1
    MaxFailedReads = 1
    Overlap = TRUE
    Faulty = {}
    Readers = {}
SYMMETRY MCSymmetry
INVARIANTS AtMostOnePerConflict
\* The process stops once its runs are over.
CHECK_DEADLOCK FALSE
