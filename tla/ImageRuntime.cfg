SPECIFICATION Spec
CONSTANTS
    Catalog <- TwoSkus
    Repo <- SharedRepo
    LeftBy = {"v4"}
    MaxTrouble = 3
INVARIANTS TypeOK
PROPERTIES SnapshotStays EnabledGetsOffered
CHECK_DEADLOCK FALSE
