CONSTANTS
    Msg = {m1}
    Obj = {o1, o2, o3}
    NoObj = NoObj
    MaxWakes = 1
    MaxActs = 2
    Ops = {"park", "resume"}
    Troubles = {"exit"}
SYMMETRY Sym
SPECIFICATION Spec
INVARIANT FileListsHeld
CHECK_DEADLOCK FALSE
