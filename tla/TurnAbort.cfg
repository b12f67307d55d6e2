CONSTANTS
    Turns = {t1, t2}
    Prompts = {p1, p2}
    Notes = {}
    Grants = {}
    Mail = {}
    Trigger = {}
    OtherKinds = {"Compact"}
    Stops = {"Interrupt", "Shutdown"}
    Loop = Loop
    Guardians = {g}
    NoTurn = NoTurn
SPECIFICATION Spec
SYMMETRY Sym
INVARIANTS
    AbortedIsDetached
    NothingVanishes
    NoDuplicate
