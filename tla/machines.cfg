SPECIFICATION Spec
CONSTANTS
    None = None
    e1 = e1
    e2 = e2
    p1 = p1
    p2 = p2
    Feeds = {f1}
    Versions <- MCVersions
    Refreshers = {r1, r2}
    States = {"Played"}
    Positions = {0}
    MaxAttempts = 2
    Cooldown = 2
    MaxTime = 4
    MaxWrong = 4
    Peers = {d1, d2}
    Me = me
    Blocks <- MCBlocks
    Boosts = {1, 2}
    Volumes = {16}
    Ceilings = {2, 100}
    Usual = 2
    Full = 100
    Curves = {"s"}
    Fades = {0, 3}
    MaxSteps = 3
    Programs = {i1, i2}
    MaxMessages = 2
    Senders = {h1, h2}
    Requests <- MCRequests
    MaxRedirects = 1
    Failures = {"OperationTimedOut"}
    MaxHeaders = 1
    Builtins <- MCBuiltins
    Disks <- MCDisks
    UserThemes <- MCUserThemes
    Overrides <- MCOverrides
    Modes = {"light"}
    InheritedFields = {"a", "b"}
    MaxLoaded = 4
    Lookups <- MCLookups
    Period = 2
    Ttl = 2
    MaxEntries = 1
    Threads = {t1, t2}
    Ends = {endA, endB}
    Keys = {"k"}
    MaxFrames = 2
    Designs <- MCDesigns
    Filters = {0, 1, 2}
    Ramps = {0, 1, 2, 3}
    Scale = 6
    Media <- MCMedia
    MediaDisks <- MCMediaDisks
    Stem <- MCStem
    Offered <- MCOffered
    RuleTexts <- MCRuleTexts
    LibraryClock = 5
    MaxLists = 2
    MaxId = 2
    Accepts <- MCAccepts
    RuleOf <- MCRuleOf
    QueryOf <- MCQueryOf
    CanPrepare <- MCCanPrepare
    Chooses <- MCChooses
    Describes <- MCDescribes
    TermLess <- MCTermLess
INVARIANTS
    LibrarySound
    LockoutHolds
    ApplicationHolds
    ServicesKept
    SyncHolds
    SoundHolds
SYMMETRY MCSymmetry
CHECK_DEADLOCK FALSE
