\* A ring of three frames, not a power of two; callers offer and ask for up
\* to four, so that counts below, at and above the room all occur; the write
\* index reaches seven, and every slot is used twice or more.
SPECIFICATION Spec
CONSTANTS
    Capacity = 3
    MaxRequest = 4
    MaxFrames = 5
    PushAcquires = TRUE
INVARIANTS
    NeverOverfillsNorOverdraws
    QueuedFramesIntact
    PopDeliversInOrder
    NoSampleRace
PROPERTY ImplementsFifo
