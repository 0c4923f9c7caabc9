\* Nobody acts and nothing fails: the two workers of one run are enough.
SPECIFICATION Spec
CONSTANTS
    nobody = nobody
    Ids <- MCIds
    Templates <- MCTemplates
    Nobody <- nobody
    Version = "2"
    Prefix = "chore"
    Kinds <- MCKinds
    MaxFirst = 3
    PageSize = 2
    MaxActs = 0
    Faulty = {}
PROPERTY StaleAreAlwaysClosed
\* The workers end.
CHECK_DEADLOCK FALSE
