SPECIFICATION FairSpec
CONSTANTS
    a = a
    b = b
    Taps = {a, b}
    Nobody = Nobody
    MaxInstance = 2
    Patient = TRUE
    MaxKeys = 3
    PinLen = 2
    Right <- MCRight
    Bytes = {0, 1, 254}
    Input <- MCInput
    Garbage <- MCGarbage
INVARIANTS VerdictMatchesEntries EveryDigitHasAKey AmountShownIsAsked ToastShowsData
PROPERTIES ImplementsPinTerminal EveryTapAnswered
