\* Two callers and two containers, with failing requests and crashes.
SPECIFICATION Spec
CONSTANTS
    w1 = w1
    w2 = w2
    i1 = i1
    i2 = i2
    NoId = NoId
    Callers <- Two
    Calls <- StarterAndCleaner
    Ids <- TwoIds
    MayFail = TRUE
INVARIANTS NothingForgotten ManagedIsThorough
