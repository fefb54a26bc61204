\* A block without SQL.  Parsing ends with the file.
SPECIFICATION Spec
CONSTANTS
    Kinds <- AllKinds
    MaxLines = 5
    MaxMinor = 2
INVARIANT NothingLost
CHECK_DEADLOCK FALSE
