SPECIFICATION Spec

CONSTANTS
    Commands = {"restart"}
    PoolReported = TRUE
    Removable = TRUE
    Pollers = {p1}
    Timeout = 1
    Horizon = 2
    MaxBoots = 2

PROPERTIES OfflineIsRecorded

CHECK_DEADLOCK FALSE
