\* A repository is deleted between two pages, and another one is missed.  Run by hand.
SPECIFICATION FairSpec
CONSTANTS
    o1 = o1
    o2 = o2
    O1 = O1
    t1 = t1
    Orgs = {o1, o2}
    Account <- MCAccount
    Repos <- MCRepos
    Include <- MCInclude
    Exclude <- MCExclude
    Topics = {t1}
    Taggable <- MCTaggable
    PageSize = 2
    SearchCap = 3
    MaxChanges = 2
    Faulty = {}
INVARIANTS NothingMissedEver
\* Resolve is called once.
CHECK_DEADLOCK FALSE
