SPECIFICATION Spec
CONSTANTS
    Turns = {t1, t2}
    TStates = {s1, s2, s3, s4, s5}
    UserInputs = {u1, u2}
    Mails = {m1, m2}
    TriggerMails = {m1}
    Injections = {x1}
    OtherKinds = {}
    IdleStarts = {"User", "Automatic", "Recovery"}
    AbortOps = {}
    Loop = Loop
    Guards = {}
    Routers = {}
    DurableSleep = FALSE
    None = None
SYMMETRY Symmetry
INVARIANTS
    OnePlace
    NoStuckWork
CHECK_DEADLOCK FALSE
