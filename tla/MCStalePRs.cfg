\* Two of three templates of one target run, three older pull requests of any kind.
SPECIFICATION Spec
CONSTANTS
    nobody = nobody
    Ids <- MCIds
    Templates <- MCTemplates
    Nobody <- nobody
    Version = "2"
    Prefix = "chore"
    Kinds <- MCKinds
    MaxFirst = 3
    PageSize = 2
    MaxActs = 1
    Faulty = {"label", "list", "close"}
INVARIANT TypeOK
PROPERTIES ClosesItsOwn StaleAreClosed
\* The workers end.
CHECK_DEADLOCK FALSE
