SPECIFICATION PollSpec

CONSTANTS
    Threads = {"loop", "f1"}
    Loop = "loop"
    Wallets = {"A", "B"}
    NoWallet = "no wallet"
    Configured = "B"
    MaxSwitches = 1
    MaxHangs = 1

INVARIANTS HistoryIsOfTheWallet

CHECK_DEADLOCK FALSE
