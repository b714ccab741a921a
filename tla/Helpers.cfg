SPECIFICATION HelperSpec
CONSTANTS
    Callers = {c1, p1}
    Probers = {p1}
    Policies = {"always", "missing", "never"}
    Kinds = {"local", "published", "other"}
    EnvNever = {TRUE, FALSE}
    Digests = {d1, d2}
    MaxMoves = 1
    Builders = {b1, b2}
    MaxEdits = 2
    MaxTime = 2
    SSHCallers = {s1, s2}
    MaxStops = 1
INVARIANTS
    IdentityOfTheImage
    HelperRemoved
    CurrentUnlessRaced
    NilMeansServed
PROPERTIES
    CancelledProbeReturns
    EnsureReturns
\* Calls end, and what others do is bounded.
CHECK_DEADLOCK FALSE
