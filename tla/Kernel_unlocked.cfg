\* No process is started into a dead slot.  Two timers: they expire together,
\* are cancelled, outlive nothing.
SPECIFICATION Spec
CONSTANTS
    TimeMod = 3
    Tick = 1
    Quantum = 2
    Users = {1}
    KeyBursts <- OneKey
    UserEvents <- NoEvents
    Delays = {1}
    UninitTimes = {0}
    ReuseSlots = FALSE
    MaxSlots = 3
    MaxUid = 2
    MaxTimerId = 2
    MaxQueue = 1
INVARIANT TypeOK
INVARIANT LockedOnlyByStart
INVARIANT PullReturnsEvent
INVARIANT HaltsOnlyWithoutTarget
INVARIANT TimerOwnerAlive
INVARIANT TimerFiresOnce
CHECK_DEADLOCK FALSE
