SPECIFICATION Spec
CONSTANTS
    Base = 4
    W32 = 3
    W64 = 4
    Chars = {0, 3}
    LineLengths = {0, 1, 3}
    MaxLines = 2
    Numbers = {0, 5, 255}
INVARIANTS RoundTrip
CHECK_DEADLOCK FALSE
