SPECIFICATION MCSpec
CONSTANTS
    Ids = {1, 2}
    Kinds = {"blocks", "logs", "txs"}
    FilterCap = 2
    Nobody = Nobody
INVARIANTS
    UninstalledOnce
    InstallsFresh
PROPERTIES
    RequestsComplete
CHECK_DEADLOCK FALSE
