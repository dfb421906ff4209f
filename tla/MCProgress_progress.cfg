SPECIFICATION FairSpec

PROPERTIES
    ClaimsAreSettled
    SettledIsFulfilled
    QueueDrains
    PollingFollowsUsers
    MinersAreFollowed
    ScreenFollowsWallet

CHECK_DEADLOCK FALSE
