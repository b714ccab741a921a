SPECIFICATION Spec
CONSTANTS
    Names <- One
    CtrNames <- OneCtrNames
    SandboxName <- OneSandbox
    ProxyName <- OneProxy
    Callers = {c1, c2}
    Native = TRUE
    Serialised = TRUE
    Faults = {"fail", "lost", "cancel", "crash"}
    Wants <- AllWants
    MaxFaults = 2
    MaxPolls = 1
    MaxId = 6
SYMMETRY CallerSymmetry
INVARIANTS
    TypeOK
    AllOrNothing
    EgressConfined
    SidecarKept
PROPERTIES
    OnlyDeleteRemoves
    DataOutlivesCreate
    DeleteCompletes
\* With all MaxId ids handed out nobody creates any more.
CHECK_DEADLOCK FALSE
