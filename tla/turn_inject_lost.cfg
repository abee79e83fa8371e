SPECIFICATION Spec
CONSTANTS
    Turns = {t1, t2}
    TStates = {s1, s2, s3, s4}
    UserInputs = {u1}
    Mails = {}
    TriggerMails = {}
    Injections = {x1}
    OtherKinds = {}
    IdleStarts = {}
    AbortOps = {}
    Loop = Loop
    Guards = {}
    Routers = {}
    DurableSleep = FALSE
    None = None
INVARIANTS
    NoSilentLoss
CHECK_DEADLOCK FALSE
