SPECIFICATION Spec
CONSTANTS
    Taps = {a, b}
    MaxInstance = 2
    Patient = FALSE
    Spurious = TRUE
    Nobody = Nobody
    Right = Right
    Empty = Empty
    wrong = wrong
    Pins = {Right, Empty}
INVARIANTS TypeOK ApprovedByPin NoStrandedThread
