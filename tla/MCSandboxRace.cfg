SPECIFICATION FairSpec
CONSTANTS
    Names <- One
    CtrNames <- OneCtrNames
    SandboxName <- OneSandbox
    ProxyName <- OneProxy
    Callers = {c1, c2}
    Native = FALSE
    Serialised = FALSE
    Faults = {"fail", "cancel"}
    Wants <- ProxyOrNot
    MaxFaults = 1
    MaxPolls = 1
    MaxId = 4
PROPERTIES
    ImplementsService
    OperationsReturn
\* With all MaxId ids handed out nobody creates any more.
CHECK_DEADLOCK FALSE
