SPECIFICATION StreamSpec
CONSTANT MaxLeaves = 17
INVARIANTS
  StreamedRootIsTreeRoot
  OneSubtreePerBit
  CollectedProofIsTheProof
  OnlyATruePrefixVerifies
