\* A forced re-run of a first deployment.
SPECIFICATION Spec
CONSTANTS
    o1 = o1
    o2 = o2
    t1 = t1
    t2 = t2
    Nil = Nil
    Items = {i1}
    Runs = {r1, r2}
    Owns = {o1}
    Texts = {t1, t2}
    MaxVersion = 2
    MaxPRs = 3
    Markers = {i1}
    Symlinks = {}
    Scopes = {{i1}}
    Forces = {FALSE, TRUE}
    DryRuns = {FALSE}
    Concurrency = 1
    CloseStalePRs = TRUE
    Seeded = FALSE
    Overlap = FALSE
    Faulty = {}
    Humans = {}
    Edits <- Plain
PROPERTIES BaselineSurvives
\* The process stops once its runs are over.
CHECK_DEADLOCK FALSE
