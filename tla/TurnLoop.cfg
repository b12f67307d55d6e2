CONSTANTS
    Turns = {t1, t2, t3}
    Prompts = {p1}
    Notes = {}
    Grants = {}
    Mail = {}
    Trigger = {}
    OtherKinds = {"Compact"}
    Stops = {"Interrupt"}
    Loop = Loop
    Guardians = {}
    NoTurn = NoTurn
SPECIFICATION Spec
SYMMETRY Sym
INVARIANTS
    TypeOK
    OneTask
    OneLive
    RejectionAfterCancel
