SPECIFICATION ConfSpec
CONSTANTS
    Components = {"opt", "workspace"}
    Reserved = {}
    Protected = {}
    Workspace <- TheWorkspace
    HostNames = {"home", "u", "w"}
    Home <- TheHome
    Denied = {}
    MaxFollowed = 4
    MaxParts = 2
    MaxMounts = 0
    IDBits = 2
    AuthKeys = {"quay.io"}
    Contents = {}
    MaxLogins = 0
    Inputs <- BlankInputs
    Hosts <- SomeHosts
    FormPaths = {}
    MaxName = 3
INVARIANTS
    NoDevicesUnasked
CHECK_DEADLOCK FALSE
