SPECIFICATION Spec
CONSTANTS
    Names <- One
    CtrNames <- OneCtrNames
    SandboxName <- OneSandbox
    ProxyName <- OneProxy
    Callers = {c1, c2}
    Native = FALSE
    Serialised = FALSE
    Faults = {}
    Wants <- ProxyOrNot
    MaxFaults = 0
    MaxPolls = 1
    MaxId = 5
PROPERTY RollbackSparesLiveSidecar
\* With all MaxId ids handed out nobody creates any more.
CHECK_DEADLOCK FALSE
