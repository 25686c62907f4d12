SPECIFICATION Spec
CONSTANTS
    None = None
    Malformed = Malformed
    Invocations <- MCInvocations
INVARIANTS
    TypeOK
    ExtensionIsProved
    HonestExtensionHolds
    RecordedStatesAreTrue
    StatedFactsAreInTheChain
CHECK_DEADLOCK FALSE
