SPECIFICATION Spec
CONSTANTS
    Device <- MCDevice
    DeviceId <- MCDeviceId
    OneCaller = TRUE
    PlayedAt <- MCPlayedAt
    CutoffClock <- MCCutoffClock
    MixFields = FALSE
    MaxChanges <- MCMaxChanges
    MaxClock <- MCMaxClock
INVARIANT MembershipRule
CHECK_DEADLOCK FALSE
