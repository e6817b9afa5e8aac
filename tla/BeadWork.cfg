CONSTANTS
    c1 = c1
    c2 = c2
    c3 = c3
    eng1 = eng1
    eng2 = eng2
    qa1 = qa1
    Call = {c1, c2, c3}
    Agent = {eng1, qa1}
    NoAgent = NoAgent
    NoCall = NoCall
    Custom <- UsualCustom
    Family <- RoleOf
    Commands = {"deliver", "assign", "byHand"}
    Troubles = {"crash", "bd"}
SYMMETRY Sym
CHECK_DEADLOCK FALSE
SPECIFICATION Spec
INVARIANTS LockExclusive
PROPERTY DeliverCompares
