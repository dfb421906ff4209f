SPECIFICATION FlowSpec

CONSTANTS
    Commands = {c1}
    Probes = {}
    Agents = {a1, a2}
    Pulls = {t1, t2}
    NoCommand = NoCommand
    NoPull = NoPull
    TTL = 3
    Requeue = 1
    Limit = 2
    Horizon = 5
    Ids = {1, 2, 3}
    Macs = {"A", "B"}
    Ips = {"x", "y"}
    Requests = {"r1", "r2"}
    MaxWorkers = 2
    NoMac = "no MAC"
    NoIp = "no address"
    NoRow = 0
    Writers = {"w1", "w2"}
    SampleKeys = {"k"}
    Reports = {"ONLINE", "nothing"}
    Nothing = "nothing"
    Unkeyed = ""
    Nobody = ""
    MaxSamples = 3

SYMMETRY AgentPullSymmetry

INVARIANTS
    Inv DeliveredAtMostOnce RowsAreTrue
PROPERTIES
    ExpiredNeverRuns TerminalIsFinal ImplementsPromise
    IdentitiesAreTrue CacheIsTrue

CHECK_DEADLOCK FALSE
