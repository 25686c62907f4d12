SPECIFICATION Spec
CONSTANTS
    MaxLineBytes = 3
    BufferSize = 2
    MaxFileBytes = 5
    Files <- MCFiles
INVARIANT TypeOK
PROPERTY SplitsLines
CHECK_DEADLOCK FALSE
