SPECIFICATION Spec
CONSTANTS
    first = first
    second = second
    a = a
    b = b
    Channels = {first, second}
    Operations = {a, b}
    NoRound = NoRound
    MaxRounds <- MCMaxRounds
    MaxCrashes = 1
    MaxExports = 2
INVARIANTS
    RoundsVerify
    SignedAsHeld
    SameHistory
CHECK_DEADLOCK FALSE
