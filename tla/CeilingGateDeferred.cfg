CONSTANTS
    Agent = {a1, a2}
    NoAgent = NoAgent
    Sessions = 2
    MaxOthers = 1
    Insistent = {}
    Troubles = {"others", "park"}
SPECIFICATION FairSpec
PROPERTY DeferredMailWoken
