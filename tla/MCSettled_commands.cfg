SPECIFICATION FairSpec

PROPERTIES
    CommandsAreSettled

CHECK_DEADLOCK FALSE
