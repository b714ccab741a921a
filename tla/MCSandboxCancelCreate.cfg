SPECIFICATION Spec
CONSTANTS
    Names <- One
    CtrNames <- OneCtrNames
    SandboxName <- OneSandbox
    ProxyName <- OneProxy
    Callers = {c1}
    Native = FALSE
    Serialised = TRUE
    Faults = {"cancel"}
    Wants <- AllWants
    MaxFaults = 1
    MaxPolls = 1
    MaxId = 3
PROPERTY FailedCreateLeavesNothing
\* With all MaxId ids handed out nobody creates any more.
CHECK_DEADLOCK FALSE
