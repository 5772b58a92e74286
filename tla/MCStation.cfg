SPECIFICATION FairSpec
CONSTANTS
    u1 = u1
    u2 = u2
    short = short
    long = long
    cut = cut
    front = front
    e = e
    x = x
    y = y
    z = z
    q = q
    t1 = t1
    b1 = b1
    b2 = b2
    None = None
    Uids = {u1, u2}
    Near = {u1}
    Names = {short, long, cut, front}
    Halves = {e, x, y, z, q}
    Encoded <- MCEncoded
    Decoded <- MCDecoded
    Serials = {t1}
    Amounts = {0, 1, 2}
    Buttons = {b1, b2}
    Jobs <- MCJobs
    JobsOf <- MCJobsOf
    InitialChips <- MCChips
    InitialCards <- MCCards
    Failing = TRUE
    MaxTries = 2
    MaxPresses = 2
    MaxCard = 2
    MaxEntry = 1
INVARIANTS TypeOK ChipsStayNonNegative ChipIsChargedOnce
PROPERTIES LoneActionsAgree EveryActionEnds
