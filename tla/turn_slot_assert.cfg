SPECIFICATION Spec
CONSTANTS
    Turns = {t1, t2, t3}
    TStates = {s1, s2, s3, s4, s5}
    UserInputs = {u1, u2}
    Mails = {m1}
    TriggerMails = {m1}
    Injections = {}
    OtherKinds = {}
    IdleStarts = {"User", "Automatic", "Recovery"}
    AbortOps = {}
    Loop = Loop
    Guards = {}
    Routers = {}
    DurableSleep = FALSE
    None = None
INVARIANTS
    StartSlotFree
SYMMETRY Symmetry
CHECK_DEADLOCK FALSE
