\* kmain, and any program, with keys and two timers.
SPECIFICATION ProgramsFairSpec
CONSTANTS
    TimeMod = 5
    Tick = 1
    Quantum = 1
    Users = {}
    KeyBursts <- Bursts
    UserEvents <- TerminateOnly
    Delays <- Durations
    UninitTimes = {0}
    ReuseSlots = FALSE
    MaxSlots = 2
    MaxUid = 1
    MaxTimerId = 2
    MaxQueue = 1
    Milli = 2
    Arguments = {1}
    Wanted = {"ANY"}
    MaxChars = 2
    MaxKeys = 1
INVARIANT EchoesTyped
PROPERTY NeverEarly
PROPERTY SleepEnds
PROPERTY KmainAnswers
CHECK_DEADLOCK FALSE
