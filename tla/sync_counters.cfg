SPECIFICATION Spec
CONSTANTS
    Device <- MCDevice
    DeviceId <- MCDeviceId
    OneCaller = TRUE
    PlayedAt <- MCPlayedAt
    CutoffClock <- MCCutoffClock
    MixFields = FALSE
    MaxChanges <- MCMaxChanges
    MaxClock <- MCMaxClock
PROPERTY MergeIdempotent
CHECK_DEADLOCK FALSE
