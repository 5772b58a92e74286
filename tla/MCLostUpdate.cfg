SPECIFICATION Spec
CONSTANTS
    n1 = n1
    n2 = n2
    t1 = t1
    w1 = w1
    w2 = w2
    None = None
    Numbers = {n1, n2}
    Serials = {t1}
    Amounts = {0, 1, 2}
    Callers <- MCCallers
    MaxCard = 2
    MaxEntry = 3
    InitialCards <- OneCard
    Workers = {w1, w2}
    Requests <- PaymentRequests
    Failing = FALSE
INVARIANT ApprovedPaymentsAreCharged
