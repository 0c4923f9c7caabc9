\* An exclude pattern in another spelling of the organization.  Run by hand.
SPECIFICATION FairSpec
CONSTANTS
    o1 = o1
    o2 = o2
    O1 = O1
    t1 = t1
    Orgs = {o1, o2}
    Account <- MCAccount
    Repos <- MCRepos
    Include <- MCInclude
    Exclude <- MCExcludeSpelled
    Topics = {t1}
    Taggable <- MCTaggable
    PageSize = 2
    SearchCap = 3
    MaxChanges = 2
    Faulty = {"request"}
INVARIANTS TargetsAreWanted
\* Resolve is called once.
CHECK_DEADLOCK FALSE
