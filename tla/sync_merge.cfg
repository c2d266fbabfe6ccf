SPECIFICATION Spec
CONSTANTS
    Device <- MCDevice
    DeviceId <- MCDeviceId
    OneCaller = TRUE
    PlayedAt <- MCPlayedAt
    CutoffClock <- MCCutoffClock
    MixFields = FALSE
    MaxChanges <- MCMaxChanges
    MaxClock <- MCMaxClock
INVARIANTS
    StampsAreUnique
    LatestWins
    NoPlayIsLost
    DeletedStaysDeleted
    MembershipRuleInOrder
PROPERTY LocalEditIsLatest
CHECK_DEADLOCK FALSE
