SPECIFICATION Spec
CONSTANTS
    Names <- Clash
    CtrNames <- ClashCtrNames
    SandboxName <- ClashSandbox
    ProxyName <- ClashProxy
    Callers = {c1}
    Native = FALSE
    Serialised = TRUE
    Faults = {}
    Wants <- ProxyOrNot
    MaxFaults = 0
    MaxPolls = 1
    MaxId = 4
PROPERTY OnlyDeleteRemoves
\* With all MaxId ids handed out nobody creates any more.
CHECK_DEADLOCK FALSE
