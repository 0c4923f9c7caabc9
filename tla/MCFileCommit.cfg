\* Safety, refinement and liveness of CreateOrUpdateFile.
SPECIFICATION FairSpec
CONSTANTS
    Callers = {c1, c2}
    Branches = {main}
    DefaultBranch = main
    Blobs = {x}
    Oids = {o1, o2, o3}
    NoArg = NoArg
    Absent = Absent
    Unmade = Unmade
    NoOid = NoOid
INVARIANTS IInv
PROPERTIES NoLostUpdate AtomicSpec CallsReturn
