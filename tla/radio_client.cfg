SPECIFICATION Spec
CONSTANTS
    Station <- MCStation
    Kind <- MCKind
    Controller <- MCController
    MaxUnits <- MCMaxUnits
    MaxOpens <- MCMaxOpens
    MaxCalls <- MCMaxCalls
INVARIANTS
    CancelledConnectIsSilent
    ResultTellsState
    WholeAudioHeard
PROPERTY Reconnects
