SPECIFICATION Spec
CONSTANTS
    Callers = {c1, c2, c3}
    Internal = {c1, c2}
    Blocks = 3
    BlockSize = 4
    Attempts = 3
    Foreign <- SomeForeign
    MaxForeign = 1
INVARIANT NeverExhausted
PROPERTIES
    OnlyRacesRetry
    FullIsTrue
\* Every creation ends and the others create a bounded number of networks.
CHECK_DEADLOCK FALSE
