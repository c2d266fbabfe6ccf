SPECIFICATION Spec
CONSTANT None = None
INVARIANTS
    RulesSelect
    TextKept
    JsonReadsBack
    
    GaplessTrimmed
    
    
    LevelsHold
    CommandsRead
    AppearanceHolds
CHECK_DEADLOCK FALSE
