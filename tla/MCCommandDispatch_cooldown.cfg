SPECIFICATION PartSpec

CONSTANTS
    Requests = {1, 2, 3}
    NoRequest = 0
    Keys = {"k1", "k2"}
    NoKey = "no key"
    Tokens = {1, 2, 3}
    NoToken = 0
    Devices = {"d1"}
    Commands = {"restart", "update_pool"}

PROPERTIES RestartsAreSpaced

CHECK_DEADLOCK FALSE
