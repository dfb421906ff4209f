SPECIFICATION ServicesSpec

CONSTANTS
    Orders = {"o1"}
    Invoices = {"i1"}
    Deliveries = {"d1", "d2"}
    Keys = {"k1", "k2"}
    NoPayment = "no payment"
    NoKey = "no key"

    Alerts = {"a1", "a2"}
    Backoff <- RetryBackoff
    MaxAttempts = 3
    MaxBatch = 1
    DnsCapacity = 1
    Late = 1
    MaxFaults = 1

    MaxDevices = 5
    MaxCanary = 3
    MaxBatchSize = 3

    Streams = {"s1", "s2"}
    Capacity = 2
    MaxSnapshots = 4

    Cycles = {"c1", "c2", "c3"}
    Commands = {"u1"}
    Miner <- CycleMiner
    Plug <- OutletPlug
    Method <- CommandMethod
    NoTask = "none"
    MaxCrashes = 1
    MaxTokens = 1

    Sessions = {"s1"}
    PoolThreads = {"t1", "t2"}
    Nobody = "nobody"
    Ttl = 1
    MaxWorld = 3

    Threads = {"loop", "f1"}
    Loop = "loop"
    Wallets = {"A", "B"}
    NoWallet = "no wallet"
    Configured = "B"
    MaxSwitches = 1
    MaxHangs = 1

    Purchases = {"r1", "r2"}
    Ids = {"b1"}
    Terms = {"cheap", "dear"}
    Consents = {"t1", "t2"}
    NoId = "no order"
    NoConsent = "no consent"
    MaxBids = 1
    MaxDeaths = 1
    MaxViews = 1

    Rules = {"cool", "wake"}
    Device <- RuleDevice
    Command <- RuleCommand
    Priority <- RulePriority
    MinInterval <- RuleInterval
    Recommendations = {"reboot"}
    RecCooldown <- AdviceCooldown
    Cap = 2
    BudgetWindow = 2
    MaxNow = 2

    Rigs = {"r", "q"}
    Editors = {"t", "u"}
    MaxTime = 2
    MaxRequests = 2
    MaxMishaps = 1

    \* The panel and the sweep, of a tenant that both call the same.
    Rentals = {"a"}
    Panels = {"panel"}
    Sweep = "sweep"
    PanelTenant = "t"
    SweepTenant = "t"
    NoRental = "no rental"
    RecentWindow = 1
    PruneAfter = 2
    MaxMinutes = 5
    MaxHitches = 2

INVARIANTS
    EachTypeOK
    PaymentsAreHonoured
    AlertsAreAccountedFor
    RolloutIsSafe
    NoGapNoRepeat
    OutletsAreSafe
    PilotIsDisciplined
    ReplayIsLive
    OperatorSeesOneWallet
    BidsAreAccountedFor
    LossesAreTold
PROPERTIES
    ImplementsPromise
    SessionsAreSafe
    RigDecisionsAreKept

CHECK_DEADLOCK FALSE
