SPECIFICATION Spec
CONSTANTS
    Items = {i1}
    Requests = {o1}
    Numbers = {n1, n2}
    Workers = {w1}
    MaxVersion = 2
    MaxFaults = 1
    LostAnswers = FALSE
    Counter = Counter
INVARIANT
    BilledOnce
