SPECIFICATION Spec
CONSTANTS
  None = None
  Malformed = Malformed
  ZeroHash = ZeroHash
  Trusted = Trusted
  Other = Other
  Junk = Junk
  MaxInt = 4
  MaxLines = 4
  Lines <- MCLines
  Checkpoints <- MCCheckpoints
  Bundles <- MCBundles
  TrustedKeys <- MCTrustedKeys
  Stream <- MCStream
  Log <- MCLog
  Seals <- MCSeals
INVARIANTS
  TypeOK
  CleanWalkIsOneChain
  ClosedTreeIsItsRange
  AbsencesAreAccountedFor
  CapturedRootIsOfItsSize
  NothingWrapped
  VerifiedIsSealed
  HonestExportVerifies
CHECK_DEADLOCK FALSE
