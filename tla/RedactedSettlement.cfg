SPECIFICATION StreamSpec
CONSTANTS
  None = None
  Malformed = Malformed
  ZeroHash = ZeroHash
  Gaps = {"g"}
  Days = {"d"}
  Redactable = {"stream.settled"}
  MaxEvents = 4
INVARIANT RedactionIsOnlyNoted
CHECK_DEADLOCK FALSE
