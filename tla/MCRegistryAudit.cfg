SPECIFICATION Spec
CONSTANTS
    None = None
    MSD = 2
    SealGrace = 1
    CloseGrace = 1
    MinNotice = 1
    MaxNotice = 2
    Horizon = 5
    SealTimes = {2, 4}
    MaxRequests = 2
    MaxDeviations = 1
    MaxDoings = 3
    Requests <- MCRequests
    Upkeep <- MCUpkeep
    FirstPolicy <- MCFirstPolicy
    Amendment <- MCAmendment
    FirstCredentials <- MCCredentials
    KeyEntries <- MCKeyEntries
INVARIANTS
    HonestRegistryIsNotBlamed
    PassAccountsForEveryRequest
    UnconfirmedOnlyWhileEarly
    CheckedReceiptIsKept
    HonestReceiptHolds
CHECK_DEADLOCK FALSE
