SPECIFICATION Spec
CONSTANTS
    Turns = {t1, t2, t3}
    TStates = {s1, s2, s3, s4, s5, s6}
    UserInputs = {u1, u2, u3}
    Mails = {}
    TriggerMails = {}
    Injections = {}
    OtherKinds = {}
    IdleStarts = {"User", "Automatic", "Recovery"}
    AbortOps = {}
    Loop = Loop
    Guards = {g1}
    Routers = {}
    DurableSleep = FALSE
    None = None
INVARIANTS
    SingleRunner
SYMMETRY Symmetry
CHECK_DEADLOCK FALSE
