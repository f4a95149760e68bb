\* The ring buffer against the full history.
SPECIFICATION Spec
CONSTANTS
    p = p
    q = q
    Names = {p, q}
    THRESHOLD = 2
    WINDOW = 2
    MaxTime = 4
    MaxRefusals = 3
INVARIANTS
    TypeOK
PROPERTIES
    HintIsExact
CHECK_DEADLOCK FALSE
