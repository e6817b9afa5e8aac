CONSTANTS
    s1 = s1
    s2 = s2
    Sender = {s1, s2}
    NoItem = NoItem
    Cap = 2
    Quiet = 1
    Longest = 2
SPECIFICATION FairSpec
INVARIANTS VerdictTrue WedgeEnds NothingOvertakes OneReport
PROPERTIES NothingBetween LineMoves
CHECK_DEADLOCK FALSE
