SPECIFICATION ConfSpec
CONSTANTS
    Components = {"cauteum", "run", "opt", "workspace"}
    Reserved <- SomeReserved
    Protected <- SomeProtected
    Workspace <- TheWorkspace
    HostNames = {"home", "u", "w", ".ssh", ".SSH"}
    Home <- TheHome
    Denied = {".ssh"}
    MaxFollowed = 4
    MaxParts = 3
    MaxMounts = 2
    IDBits = 2
    AuthKeys = {"docker.io", "https://index.docker.io/v1/", "quay.io"}
    Contents <- SomeContents
    MaxLogins = 2
    Inputs <- SomeInputs
    Hosts <- SomeHosts
    FormPaths <- SomeFormPaths
    MaxName = 3
INVARIANTS
    ControlPathsIntact
    NoSilentFallback
    DevicesAsAsked
    ChecksAgree
    MapsFit
    ReadOnlyKept
    NameFoundAgain
\* A sandbox that was created, or refused, is the end.
CHECK_DEADLOCK FALSE
