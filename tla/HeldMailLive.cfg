CONSTANTS
    m1 = m1
    m2 = m2
    m3 = m3
    Msg = {m1, m2}
    Drain = {d1}
    NoMsg = NoMsg
    NoOne = NoOne
    MaxQueue = 2
    Text <- DistinctTexts
    Origin <- AgentAndUrgent
    Troubles = {"dialog", "stuck"}
    DNDKinds = {"turn"}
SPECIFICATION FairSpec
PROPERTY HeldMailMoves
