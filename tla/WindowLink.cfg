CONSTANTS
    a1 = a1
    a2 = a2
    Agent = {a1, a2}
    AtStart <- OneAtStart
    AwayAtStart = {a1}
    EventCap = 1
    Ticks = TRUE
    MaxChanges = 3
SPECIFICATION FairSpec
INVARIANTS TypeOK KeysReachTheirAgent OwnershipAgrees PanesAgree
PROPERTY FoldsBack
CHECK_DEADLOCK FALSE
