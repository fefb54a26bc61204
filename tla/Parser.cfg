\* Every file of up to seven lines, two of them minor.  Parsing ends with the file.
SPECIFICATION Spec
CONSTANTS
    Kinds <- AllKinds
    MaxLines = 7
    MaxMinor = 2
INVARIANTS SplitAsWritten DirectionsAgree LossIsBounded
PROPERTIES AcceptsWellFormed
CHECK_DEADLOCK FALSE
