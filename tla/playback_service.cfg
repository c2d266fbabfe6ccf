\* A ring of two frames filled in chunks of up to three from a track of
\* three: the ring is the limit of a chunk, the last chunk is short, and two
\* plays with two stops let each play meet what the last one left.
SPECIFICATION Spec
CONSTANTS
    RingFrames = 2
    ChunkFrames = 3
    TrackFrames = 3
    MaxPlays = 2
    MaxStops = 2
    OverlapCalls = FALSE
INVARIANTS
    HeardInOrder
    SuccessMeansHeard
    ReturnLeavesAllClosed
    StopAdmitsNothing
PROPERTIES
    PlayAlwaysReturns
CHECK_DEADLOCK FALSE
