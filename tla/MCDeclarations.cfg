SPECIFICATION Spec
CONSTANTS
  None = None
  Malformed = Malformed
  Trusted = Trusted
  Other = Other
  Junk = Junk
  MaxLines = 4
  TrustedKeys <- MCTrustedKeys
  Genuine <- MCGenuine
  Bundles <- MCBundles
INVARIANTS
  AbsencesAreDeclared
  HonestAbsencesPass
CHECK_DEADLOCK FALSE
