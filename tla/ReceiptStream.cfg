SPECIFICATION StreamSpec
CONSTANTS
  None = None
  Malformed = Malformed
  ZeroHash = ZeroHash
  Gaps = {"g"}
  Days = {"d"}
  Redactable = {"collection.receipt"}
  MaxEvents = 7
INVARIANT HonestExportPasses
CHECK_DEADLOCK FALSE
