SPECIFICATION Spec
CONSTANTS
    Taps = {a, b}
    MaxInstance = 1
    Patient = FALSE
    Spurious = FALSE
    Nobody = Nobody
    Right = Right
    Empty = Empty
    wrong = wrong
    Pins <- MCPins
INVARIANTS AttemptsShownAreTrue
