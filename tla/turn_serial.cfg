SPECIFICATION Spec
CONSTANTS
    Turns = {t1, t2}
    TStates = {s1, s2, s3, s4}
    UserInputs = {u1, u2}
    Mails = {m1}
    TriggerMails = {}
    Injections = {}
    OtherKinds = {"Shell", "Compact"}
    IdleStarts = {"User", "Automatic", "Recovery"}
    AbortOps = {"Interrupted", "Shutdown", "Suspend"}
    Loop = Loop
    Guards = {}
    Routers = {}
    DurableSleep = FALSE
    None = None
INVARIANTS
    TypeOK
    StartSlotFree
    OneTerminal
    NoVanishedTurn
    NoSilentLoss
    SingleRunner
SYMMETRY Symmetry
CHECK_DEADLOCK FALSE
