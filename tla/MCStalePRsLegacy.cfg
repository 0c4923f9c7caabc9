\* Pull requests of earlier releases, among them those of guide-x and guide/t.
SPECIFICATION Spec
CONSTANTS
    nobody = nobody
    Ids <- MCIds
    Templates <- MCTemplates
    Nobody <- nobody
    Version = "2"
    Prefix = "chore"
    Kinds <- MCLegacyKinds
    MaxFirst = 2
    PageSize = 2
    MaxActs = 1
    Faulty = {"label", "list", "close"}
PROPERTY ClosesItsOwn
\* The workers end.
CHECK_DEADLOCK FALSE
