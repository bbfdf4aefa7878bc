\* process/README.md:14-15, with a process started into a dead slot.
SPECIFICATION FairSpec
CONSTANTS
    TimeMod = 3
    Tick = 1
    Quantum = 2
    Users = {1}
    KeyBursts <- NoBursts
    UserEvents <- NoEvents
    Delays = {}
    UninitTimes = {0}
    ReuseSlots = TRUE
    MaxSlots = 4
    MaxUid = 3
    MaxTimerId = 0
    MaxQueue = 1
PROPERTY FirstRun
CHECK_DEADLOCK FALSE
