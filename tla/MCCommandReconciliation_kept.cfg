SPECIFICATION Spec

CONSTANTS
    Commands = {"rollback_pool"}
    PoolReported = TRUE
    Removable = TRUE
    Pollers = {p1, p2}
    Timeout = 1
    Horizon = 2
    MaxBoots = 2

PROPERTIES EvidenceIsKept

CHECK_DEADLOCK FALSE
