CONSTANTS
    Turns = {t1, t2}
    Prompts = {p1}
    Notes = {n1}
    Grants = {q1}
    Mail = {m1}
    Trigger = {m1}
    OtherKinds = {}
    Stops = {}
    Loop = Loop
    Guardians = {}
    NoTurn = NoTurn
SPECIFICATION FairSpec
INVARIANT NoDuplicate
PROPERTY WakeupServed
