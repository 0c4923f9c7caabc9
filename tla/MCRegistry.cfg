\* Four repositories of one organization, two of another, pages of two entries, two changes.
SPECIFICATION FairSpec
CONSTANTS
    o1 = o1
    o2 = o2
    O1 = O1
    t1 = t1
    Orgs = {o1, o2}
    Account <- MCAccount
    Repos <- MCRepos
    Include <- MCInclude
    Exclude <- MCExclude
    Topics = {t1}
    Taggable <- MCTaggable
    PageSize = 2
    SearchCap = 3
    MaxChanges = 2
    Faulty = {"request"}
INVARIANTS TypeOK TargetsAreWanted NothingMissed
PROPERTIES ResolveEnds
\* Resolve is called once.
CHECK_DEADLOCK FALSE
