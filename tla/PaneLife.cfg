CONSTANTS
    Msg = {m1, m2}
    Obj = {o1, o2, o3}
    NoObj = NoObj
    MaxWakes = 1
    MaxActs = 2
    Ops = {"restart", "start", "stop", "remove", "add", "park", "resume"}
    Troubles = {"ceiling", "spawn", "slow", "exit"}
SYMMETRY Sym
SPECIFICATION Spec
INVARIANTS MailInOnePlace WakeKeepsFile NothingStranded NoChildLeaked
PROPERTY FateFinal
CHECK_DEADLOCK FALSE
