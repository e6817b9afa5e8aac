CONSTANTS
    m1 = m1
    m2 = m2
    m3 = m3
    Msg = {m1, m2, m3}
    Drain = {d1, d2}
    NoMsg = NoMsg
    NoOne = NoOne
    MaxQueue = 1
    Text <- DistinctTexts
    Origin <- FromAgents
    Troubles = {"dialog", "stop", "exit"}
    DNDKinds = {"turn"}
SYMMETRY Sym
SPECIFICATION Spec
INVARIANTS HeldMailKept NothingHeldDropped LossBounded QueueBounded
PROPERTIES FateFinal PromiseKept
