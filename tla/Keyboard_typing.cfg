\* Characters, both shift keys, a key without a keycode and an extended one.
SPECIFICATION Spec
CONSTANTS
    Keys <- MCKeys
    MaxWire = 3
    MaxQueue = 3
INVARIANT TypeOK
INVARIANT StreamAgrees
INVARIANT StatesAgree
INVARIANT CharsAsTyped
