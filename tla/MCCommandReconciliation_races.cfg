SPECIFICATION RestartOrSingleSpec

CONSTANTS
    Commands = {"restart"}
    PoolReported = TRUE
    Removable = FALSE
    Pollers = {p1, p2}
    Timeout = 0
    Horizon = 2
    MaxBoots = 2

SYMMETRY PollerSymmetry

INVARIANTS EachTypeOK VerdictsAreGrounded AcksAreGiven

CHECK_DEADLOCK FALSE
