SPECIFICATION HttpSpec
CONSTANTS
    User = {u1, u2}
    SearchId = {0, 1}
    NotANumber = NotANumber
    None = None
    Chunks = {0, 1}
    Errors = {0, 1}
    Matches = {0, 1}
    Limits = {1}
SYMMETRY Symmetry
INVARIANTS KnownOnceTold NeverGoesBack
CHECK_DEADLOCK FALSE
