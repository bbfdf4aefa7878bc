\* Three processes, of which two are in the table at a time: kills, slots reused,
\* queues filled by a timer and by queue_event.
SPECIFICATION Spec
CONSTANTS
    TimeMod = 3
    Tick = 1
    Quantum = 2
    Users = {1}
    KeyBursts <- NoBursts
    UserEvents <- OneEvent
    Delays = {1}
    UninitTimes = {0}
    ReuseSlots = TRUE
    MaxSlots = 3
    MaxUid = 3
    MaxTimerId = 1
    MaxQueue = 1
INVARIANT RunningIsOnCpu
INVARIANT SyscallsAttributed
PROPERTY TicksAccounted
PROPERTY DeliversMail
CHECK_DEADLOCK FALSE
