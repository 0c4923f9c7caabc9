\* A topic has more repositories than a search hands out.  Run by hand.
SPECIFICATION FairSpec
CONSTANTS
    o1 = o1
    o2 = o2
    O1 = O1
    t1 = t1
    Orgs = {o1, o2}
    Account <- MCAccount
    Repos <- MCRepos
    Include <- MCInclude
    Exclude <- MCExclude
    Topics = {t1}
    Taggable <- MCTaggable
    PageSize = 2
    SearchCap = 3
    MaxChanges = 2
    Faulty = {}
PROPERTIES ResolveSucceeds
\* Resolve is called once.
CHECK_DEADLOCK FALSE
