\* Two windows beside or inside each other, on a screen of two lines.
SPECIFICATION Spec
CONSTANTS
    Native = native
    Others = {w1, w2}
    Null = null
    Word = 64
    Width = 3
    Height = 2
    Places <- MCPlaces
    Extents <- MCExtents
    Texts <- MCTexts
    Garbage <- MCGarbage
    Junk = "char"
    Careful = TRUE
    Calls = 5
SYMMETRY Interchangeable
INVARIANT TypeOK
INVARIANT AccessesInside
PROPERTY CursorsStay
PROPERTY DrawsInside
PROPERTY ShownAsWritten
PROPERTY ResizeKeeps
CHECK_DEADLOCK FALSE
