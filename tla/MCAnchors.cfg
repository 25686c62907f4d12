SPECIFICATION Spec
CONSTANTS
  None = None
  MaxDepth = 4
  Bundles <- MCBundles
INVARIANTS
  PassIsAttested
  LatestIsTheLatestAttested
  AttestedAnchorsPass
PROPERTY
  VerdictIsReached
CHECK_DEADLOCK FALSE
