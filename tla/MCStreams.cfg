SPECIFICATION StreamSpec
CONSTANTS
    Entries = 5
    Trees <- SomeTrees
    MaxEntries = 3
    MaxLinks = 1
    MaxLines = 2
INVARIANTS
    NilMeansCopied
    BelowRoot
    LinksRejected
    NilMeansAll
PROPERTIES
    CallEnds
    CancelReturns
    ScannersEnd
\* Calls that returned stop.
CHECK_DEADLOCK FALSE
