SPECIFICATION FairSpec
CONSTANTS
    Turns = {t1, t2}
    TStates = {s1, s2, s3, s4}
    UserInputs = {u1}
    Mails = {}
    TriggerMails = {}
    Injections = {}
    OtherKinds = {}
    IdleStarts = {"User", "Automatic", "Recovery"}
    AbortOps = {}
    Loop = Loop
    Guards = {g1}
    Routers = {r1}
    DurableSleep = FALSE
    None = None
INVARIANTS
    HandleUnique
PROPERTIES
    CancelAnswered
CHECK_DEADLOCK FALSE
