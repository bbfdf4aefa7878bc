\* A process heap of up to three pages.
SPECIFICATION Spec
CONSTANTS
    Hdr = 1
    Page = 6
    Word = 1000
    StartSize = 5
    Limit = 18
    Sizes <- MCSizes
    None = none
INVARIANT TypeOK
INVARIANT AllocationsDisjoint
INVARIANT BlocksTile
INVARIANT UsedIsExact
INVARIANT FreeBlocksFound
INVARIANT ContentsKept
CHECK_DEADLOCK FALSE
