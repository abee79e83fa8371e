SPECIFICATION FairSpec
CONSTANTS
    MaxRequests = 2
    MaxTurns = 2
    NoTurn = NoTurn
    NoRequest = NoRequest
INVARIANTS TypeOK OwnAnswer CancelBeforeDrop GrantOrigin GrantBeforeReply
PROPERTY RequestsReturn
CHECK_DEADLOCK FALSE
