CONSTANTS
    m1 = m1
    m2 = m2
    Msg = {m1, m2}
    Drain = {d1}
    NoMsg = NoMsg
    NoOne = NoOne
    MaxQueue = 1
    Text <- DistinctTexts
    Origin <- FromAgents
    Troubles = {"dialog", "stuck"}
    DNDKinds = {"turn"}
    MaxCrashes = 1
SYMMETRY Sym
CONSTRAINT NoOverlapYet
SPECIFICATION FileSpec
INVARIANTS FileFollows CrashCostsInHand
PROPERTY NothingTypedTwice
