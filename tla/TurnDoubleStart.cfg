CONSTANTS
    Turns = {t1, t2, t3}
    Prompts = {p1, p2}
    Notes = {}
    Grants = {}
    Mail = {m1}
    Trigger = {m1}
    OtherKinds = {}
    Stops = {}
    Loop = Loop
    Guardians = {}
    NoTurn = NoTurn
SPECIFICATION Spec
INVARIANT OneTask
