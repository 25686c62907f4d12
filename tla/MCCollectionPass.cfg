SPECIFICATION Spec
CONSTANTS
  None = None
  Malformed = Malformed
  ZeroHash = ZeroHash
  MaxRecords = 5
  Exports <- MCExports
INVARIANTS
  ReceiptsAreOneChain
  SettlementsTellTheTruth
  SupplementsAreOneChain
CHECK_DEADLOCK FALSE
