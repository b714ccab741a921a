SPECIFICATION FairSpec
CONSTANTS
    Kinds = {"plain", "term"}
    MaxExecs = 2
    MaxKeys = 2
INVARIANTS
    TerminalRestored
    OutputFirst
    OneReadStolen
PROPERTIES
    HangupReturns
    ResizersEnd
\* When the last Exec has returned there is nothing left to do.
CHECK_DEADLOCK FALSE
