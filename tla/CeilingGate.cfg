CONSTANTS
    Agent = {a1, a2}
    NoAgent = NoAgent
    Sessions = 2
    MaxOthers = 1
    Insistent = {a1}
    Troubles <- AllTroubles
SPECIFICATION FairSpec
 
PROPERTIES BurstWithinCeiling 
