SPECIFICATION Spec
CONSTANTS
    Capacity = 3
    MaxRequest = 4
    MaxFrames = 5
    PushAcquires = FALSE
INVARIANT WithinCallersBuffer
