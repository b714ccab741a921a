--------------------------- MODULE Configuration ---------------------------
(***************************************************************************)
(* From a driver's configuration and a sandbox's Spec to the container that *)
(* the engine is asked for: OpenEngineWithConfig, the two ConfigFromMap,    *)
(* Podman's NewWithConfig, and what Create checks and puts together before  *)
(* its last request.  What the program reads outside (files, sockets,       *)
(* devices) may change between two steps.                                   *)
(***************************************************************************)
EXTENDS Mounts, GPU, NativeSpec, RegistryAuth

CONSTANTS
    Inputs,       \* bound: configurations, Specs and environments
    Hosts,        \* bound: the GPUs a host may have
    FormPaths,    \* bound: targets that are tried with every kind of mount
    MaxName       \* length that names are cut to (63)

ASSUME ConfigurationAssumption == MaxName \in Nat \ {0}

Maps == Seq([cid : Nat, hid : Nat, size : Nat])
GPUHosts == {h \in [nodes : SUBSET Nat, dxg : BOOLEAN] : IsFiniteSet(h.nodes)}
AuthFiles == [state : FileStates \cup {"file"}, auths : [AuthKeys -> {"no", "bad", "good"}]]

\* The types of what the caller and the environment give.  A registry is the
\* domain of an image reference, which never has the long spelling.
ASSUME InputsAssumption ==
    /\ Hosts \subseteq GPUHosts
    /\ \A i \in Inputs :
          /\ i.config.userns \in Modes /\ i.config.uid \in Maps /\ i.config.gid \in Maps
          /\ i.config.proxy \in ProxyConfigs
          /\ i.spec \in [gpu : BOOLEAN, count : Int, cdi : Seq(Int), pids : Int]
          /\ i.name \in Seq(STRING)
          /\ i.envCDI \in Seq(Int) /\ i.driverCDI \in Seq(Int) /\ i.host \in GPUHosts
          /\ i.registry = normalizeAuthRegistry(i.registry)
          /\ i.files \in [Range(Slots) -> AuthFiles] /\ i.dockerFile \in AuthFiles

VARIABLES
    in,           \* what the caller and the environment give; its facet names
                  \* what else is varied in a behaviour (a bound)
    host,         \* the GPUs of the host
    stage,        \* how far the calls are
    why,          \* the check that failed
    made,         \* the container that is asked for
    found         \* the name PolicyHostPath looked up

confVars == <<mountVars, authVars, in, host, stage, why, made, found>>

Given == <<mountVars, authVars, in, host>>

NoContainer ==
    [name |-> <<>>, devices |-> <<>>, pids |-> 0, mounts |-> <<>>,
     native |-> FALSE, mode |-> "", table |-> FALSE, uid |-> <<>>, gid |-> <<>>]

Fails(reason) == stage' = "err" /\ why' = reason /\ UNCHANGED <<made, found>>
Goes(to) == stage' = to /\ UNCHANGED <<why, made, found>>

\* The next stage if the check succeeds, an error for the reason given if not.
Check(ok, to, reason) == IF ok THEN Goes(to) ELSE Fails(reason)

-----------------------------------------------------------------------------
(* Opening a driver.                                                        *)

normalizeKind(kind) ==
    CASE kind \in {"", "docker"} -> "docker"
      [] kind \in {"vm", "microvm"} -> "vm"
      [] kind \in {"kubernetes", "k8s"} -> "kubernetes"
      [] OTHER -> kind

Podman == normalizeKind(in.kind) = "podman"

\* Docker and Podman have factories that take a configuration; the other kinds
\* have no Engine, with or without one.
OpenEngineWithConfig ==
    /\ stage = "open"
    /\ Check(normalizeKind(in.kind) \in {"docker", "podman"}, "decode", "kind")
    /\ UNCHANGED Given

\* An empty, an unclean and a bad file are told apart as in proxy settings.
validateEgressCABundle(ca) == ca \in {"", "good"}

\* What both decoders check alike.
DecodeCommon(c) ==
    /\ ~c.unknown /\ c.typed /\ c.gatewayIP
    /\ validateGuestTLSPaths(c.tls) /\ validateEgressCABundle(c.egress)
    /\ c.pids >= 0 /\ c.inRange /\ ValidPolicy(c.policy)

\* Docker's decoder does not know Podman's fields.
DockerConfigFromMap(c) ==
    /\ DecodeCommon(c) /\ c.namespace
    /\ c.userns.mode = "" /\ c.uid = <<>> /\ c.gid = <<>> /\ files["config"].state = "unset"
    /\ validateUpstreamProxyConfig(c.proxy)

validateRegistryAuthFile == files["config"].state \notin {"absent", "unavailable", "broken"}

PodmanConfigFromMap(c) ==
    /\ DecodeCommon(c) /\ idMapListValue(c.uid) /\ idMapListValue(c.gid)
    /\ validateRegistryAuthFile /\ validateProxyConfig(c.proxy)
    /\ ValidMode(c.userns) /\ MapsFollowMode(c.userns, c.uid, c.gid)

ConfigFromMap ==
    /\ stage = "decode"
    /\ Check(IF Podman THEN PodmanConfigFromMap(in.config) ELSE DockerConfigFromMap(in.config),
             "connect", "config")
    /\ UNCHANGED Given

\* ResolveHost: the configured socket must answer; without one there is the host
\* of the environment, or the first socket that answers (DiscoverSocket).
SocketFound(c) == IF c.socket # "" THEN c.socket = "alive" ELSE in.envHost \/ in.discovered

\* Podman checks what was decoded again, against the files as they are now;
\* Docker's client only needs a socket's address.
NewWithConfig ==
    LET c == in.config IN
    /\ stage = "connect"
    /\ Check(IF ~Podman THEN c.socket # "bad"
             ELSE      /\ ValidMode(c.userns) /\ MapsFollowMode(c.userns, c.uid, c.gid)
                       /\ validateGuestTLSPaths(c.tls) /\ validateRegistryAuthFile
                       /\ validateEgressCABundle(c.egress) /\ validateProxyConfig(c.proxy)
                       /\ c.gatewayIP /\ c.pids >= 0 /\ c.inRange /\ ValidPolicy(c.policy)
                       /\ c.ssh # "unclean" /\ SocketFound(c),
             "opened", "connect")
    /\ UNCHANGED Given

-----------------------------------------------------------------------------
(* Create.                                                                  *)

ValidateGPU ==
    /\ stage = "opened"
    /\ Check(ValidateGPURequest(in.spec, in.envCDI, host), "parse", "gpu")
    /\ UNCHANGED Given

\* The nodes below /dev come and go.
Replug ==
    /\ stage \in {"parse", "build"} /\ in.facet = "gpu" /\ host = in.host
    /\ host' \in Hosts \ {host}
    /\ UNCHANGED <<mountVars, authVars, in, stage, why, made, found>>

\* cdi_devices is a list, and none of its devices is blank; then the mounts.
ParseDevices ==
    /\ stage = "parse"
    /\ Check(in.driverCDI # <<>> => Blank \notin Range(in.driverCDI), "mounts", "devices")
    /\ UNCHANGED Given

ParseNextMount(raw, m) ==
    /\ stage = "mounts" /\ in.facet = "mounts"
    /\ ParseMount(raw, m)
    /\ IF parse' = "err" THEN Fails("mounts") ELSE UNCHANGED <<stage, why, made, found>>
    /\ UNCHANGED <<authVars, in, host>>

ParseDone ==
    /\ stage = "mounts"
    /\ ParseEnds
    /\ Goes("name")
    /\ UNCHANGED <<authVars, in, host>>

\* A name is a sequence of characters: letters of either case, the dash and the
\* underscore, blanks, and characters that are dropped.
Lower(ch) == IF ch = "A" THEN "a" ELSE IF ch = "_" THEN "-" ELSE ch
Kept(ch) == ch \in {"a", "-"}

TrimDashes(s) ==
    LET rest == {i \in DOMAIN s : s[i] # "-"} IN
    IF rest = {} THEN <<>> ELSE SubSeq(s, Min(rest), Max(rest))

Cut(s) == IF Len(s) > MaxName THEN SubSeq(s, 1, MaxName) ELSE s

\* Mutant: of the two separators the dash is forgotten.
SanitizeUnderscores(s) ==
    LET kept == Selection(s, {i \in DOMAIN s : s[i] \in {"a", "A", "_"}}) IN
    Cut(TrimDashes([i \in DOMAIN kept |-> Lower(kept[i])]))

sanitizeName(s) ==
    LET lower == [i \in DOMAIN s |-> Lower(s[i])]
        kept == Selection(lower, {i \in DOMAIN lower : Kept(lower[i])})
    IN  Cut(TrimDashes(kept))

NameChecked ==
    /\ stage = "name"
    /\ Check(sanitizeName(in.name) # <<>>, "workspace", "name")
    /\ UNCHANGED Given

WorkspaceChecked ==
    /\ stage = "workspace"
    /\ workspaces' = ResolveWorkspace(in.workspace, in.links, in.iKnow)
    /\ Check(workspaces' # {}, "image", "workspace")
    /\ UNCHANGED <<bindsEnabled, mounts, parse, uploads, authVars, in, host>>

\* The image is there, or it is pulled with credentials (see Image).
ImagePresent ==
    /\ stage = "image" /\ in.facet # "auth"
    /\ Goes("build")
    /\ UNCHANGED Given

Pull(A) ==
    /\ stage = "image" /\ in.facet = "auth"
    /\ A
    /\ CASE auth'.pc = "done" -> Goes("build")
         [] auth'.pc = "err" -> Fails("auth")
         [] OTHER -> Goes("image")
    /\ UNCHANGED <<mountVars, in, host>>

\* A volume or a tmpfs as the engine's API has it, a bind as a string.
EngineMount(m) ==
    [target |-> m.target, kind |-> m.kind, options |-> <<IF m.ro THEN "ro" ELSE "rw">>]

\* The devices of driver_config replace those of the Spec.
Options ==
    LET spec == IF in.driverCDI = <<>> THEN in.spec ELSE [in.spec EXCEPT !.cdi = in.driverCDI] IN
    [NoContainer EXCEPT
        !.name = sanitizeName(in.name), !.mounts = mounts,
        !.devices = DeviceRequestsForGPU(spec, in.envCDI, host),
        !.pids = resolvePidsLimit(configuredPidsLimit(spec.pids, in.config.pids), in.envPids)]

\* With a user namespace Podman's own API is used, otherwise the engine's.
RequestContainer ==
    LET mode == canonicalUsernsMode(in.config.userns)
        uid == in.config.uid
        gid == in.config.gid
        native == Podman /\ mode.mode # ""
        refusal == IF native THEN Refusal(Options, mode, uid, gid) ELSE "none"
    IN  /\ stage = "build"
        /\ IF refusal # "none" THEN Fails(refusal)
           ELSE /\ stage' = "created"
                /\ made' = IF native THEN buildNativeSpec(Options, mode, uid, gid)
                           ELSE [Options EXCEPT !.mounts = [i \in DOMAIN mounts |-> EngineMount(mounts[i])]]
                /\ UNCHANGED <<why, found>>
        /\ UNCHANGED Given

-----------------------------------------------------------------------------
(* After Create.                                                            *)

\* The containers of the policy are looked up under the sanitized name.
PolicyHostPath ==
    /\ stage = "created" /\ found = <<>>
    /\ found' = sanitizeName(made.name)
    /\ UNCHANGED <<Given, stage, why, made>>

UploadTo(raw) ==
    /\ stage = "created" /\ in.facet = "uploads"
    /\ Upload(raw)
    /\ UNCHANGED <<authVars, in, host, stage, why, made, found>>

-----------------------------------------------------------------------------
ConfInit ==
    /\ in \in Inputs
    /\ MountsInit /\ bindsEnabled = in.config.binds
    /\ files = in.files /\ dockerFile = in.dockerFile /\ auth = Idle
    /\ logins = 0 /\ past = {}
    /\ host = in.host
    /\ stage = "open" /\ why = "" /\ made = NoContainer /\ found = <<>>

LoginElsewhere(slot) ==
    /\ in.facet = "auth" /\ stage \in {"connect", "image"}
    /\ Login(slot)
    /\ UNCHANGED <<mountVars, in, host, stage, why, made, found>>

Opening == OpenEngineWithConfig \/ ConfigFromMap \/ NewWithConfig

Creating ==
    \/ ValidateGPU \/ ParseDevices \/ ParseDone \/ NameChecked \/ WorkspaceChecked
    \/ ImagePresent
    \/ \E raw \in RawPaths :
          \E m \in (IF raw \in FormPaths THEN MountForms ELSE {PlainMount}) : ParseNextMount(raw, m)
    \/ Pull(AuthCall(in.registry, Podman)) \/ Pull(findPodmanAuthFile)
    \/ Pull(StatCandidate("xdg", "home")) \/ Pull(StatCandidate("home", "docker"))
    \/ Pull(ValidateAuthFile) \/ Pull(ReadAuthFile) \/ Pull(MatchEntry) \/ Pull(dockerRegistryAuth)
    \/ RequestContainer

ConfNext ==
    \/ Opening \/ Creating \/ PolicyHostPath \/ Replug
    \/ \E raw \in RawPaths : UploadTo(raw)
    \/ \E i \in DOMAIN Slots : LoginElsewhere(Slots[i])

ConfSpec == ConfInit /\ [][ConfNext]_confVars

-----------------------------------------------------------------------------
(* Properties.                                                              *)

Created == stage = "created"

\* The devices that somebody named.
Named == IF in.driverCDI # <<>> THEN in.driverCDI ELSE Explicit(in.spec, in.envCDI)

\* Create never asks for more devices than were counted, and for exactly as
\* many if a GPU was requested, driver_config names none and the host has what
\* it had when the request was validated.  An id is one device but for gpu=all,
\* which a request with a count becomes only where somebody named it or, nothing
\* being named, the host has no numbered GPU now.
DevicesAsAsked ==
    Created /\ in.spec.count > 0 =>
        /\ Len(made.devices) <= in.spec.count
        /\ AllDevices \in Range(made.devices) =>
              AllDevices \in Range(Named) \/ (Named = <<>> /\ host.nodes = {})
        /\ in.spec.gpu /\ in.driverCDI = <<>> /\ host = in.host =>
              Len(made.devices) = in.spec.count

\* "Host workspace sources use a deny-list (denyBasenames / $HOME) unless --i-know"
\* (package mounts): without it neither the directory that is the caller's home nor
\* one below its denied directories becomes the workspace.
HomeRefused ==
    LET home == EvalSymlinks(Home, in.links) IN
    \A w \in workspaces :
        ~w.iKnow => w.path # home /\ \A d \in Denied : ~IsPrefix(Append(home, d), w.path)

\* "nil if GPU off" (DeviceRequestsForGPU): a sandbox for which nobody requested
\* a GPU or named a device gets none.
NoDevicesUnasked ==
    Created /\ ~in.spec.gpu /\ normalizedCDIDevices(in.spec.cdi) = <<>> /\ in.driverCDI = <<>> =>
        made.devices = <<>>

\* What is checked twice by separate code is checked alike.  After a driver has
\* opened (canonicalUsernsMode) Create (buildNativeSpec) refuses no mode, and no
\* maps except for their lengths and ranges, and whenever there are maps there is
\* a table to put them in.  What Podman's check of a proxy accepts Docker's
\* accepts too, and the other way unless a setting is an explicit false.
ChecksAgree ==
    LET c == in.config.proxy IN
    /\ why \notin {"no mode", "mode"}
    /\ why = "maps" => Len(in.config.uid) # Len(in.config.gid)
    /\ made.uid # <<>> \/ made.gid # <<>> => made.table
    /\ validateProxyConfig(c) => validateUpstreamProxyConfig(c)
    /\ validateUpstreamProxyConfig(c) /\ "false" \notin {c.insecure, c.byHost} => validateProxyConfig(c)

\* No range of ids that reaches Podman wraps round to the root user's id.
MapsFit ==
    \A list \in {made.uid, made.gid} : \A i \in DOMAIN list :
        \A k \in 1 .. list[i].size - 1 :
            (list[i].cid + k) % 2 ^ IDBits # 0 /\ (list[i].hid + k) % 2 ^ IDBits # 0

\* Through both APIs a mount is read-only unless read_only is false, a tmpfs
\* whose own options say rw excepted; and one that may be written is not.
ReadOnlyKept ==
    Created => \A i \in DOMAIN made.mounts :
        LET options == Range(made.mounts[i].options) IN
        /\ mounts[i].ro /\ mounts[i].extra # "rw" => "ro" \in options /\ "rw" \notin options
        /\ ~mounts[i].ro => "ro" \notin options

\* PolicyHostPath finds a sandbox again under the name Create returned, unless
\* the cut to the maximal length left a dash at its end.
NameFoundAgain ==
    found # <<>> => found = made.name \/ (Len(made.name) = MaxName /\ Last(made.name) = "-")
=============================================================================
