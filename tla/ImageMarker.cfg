SPECIFICATION Spec
CONSTANTS
    Catalog <- OneSku
    Repo <- SharedRepo
    LeftBy = {}
    MaxTrouble = 0
INVARIANTS InstallMeansReady
CHECK_DEADLOCK FALSE
