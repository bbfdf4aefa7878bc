\* Two processes that compute, suspend themselves or kill each other.
SPECIFICATION FairSpec
CONSTANTS
    TimeMod = 5
    Tick = 1
    Quantum = 2
    Users = {1}
    KeyBursts <- NoBursts
    UserEvents <- NoEvents
    Delays = {}
    UninitTimes = {0}
    ReuseSlots = FALSE
    MaxSlots = 3
    MaxUid = 2
    MaxTimerId = 0
    MaxQueue = 1
PROPERTY RunsAgain
CHECK_DEADLOCK FALSE
