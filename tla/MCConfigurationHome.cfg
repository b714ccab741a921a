SPECIFICATION ConfSpec
CONSTANTS
    Components = {"opt", "workspace"}
    Reserved = {}
    Protected = {}
    Workspace <- TheWorkspace
    HostNames = {"home", "u", "w", ".ssh"}
    Home <- TheHome
    Denied = {".ssh"}
    MaxFollowed = 4
    MaxParts = 3
    MaxMounts = 0
    IDBits = 2
    AuthKeys = {"quay.io"}
    Contents = {}
    MaxLogins = 0
    Inputs <- HomeInputs
    Hosts <- SomeHosts
    FormPaths = {}
    MaxName = 3
INVARIANTS
    HomeRefused
CHECK_DEADLOCK FALSE
