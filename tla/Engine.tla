------------------------------- MODULE Engine -------------------------------
(***************************************************************************)
(* The container engine (Docker or Podman) as the driver uses it: managed   *)
(* containers, one network per sandbox name and the named volumes of a      *)
(* sandbox.  The engine is external to the repository; every operator here  *)
(* is the effect, or the precondition, of one API call of the client        *)
(* library.                                                                 *)
(***************************************************************************)
EXTENDS Naturals, FiniteSets

CONSTANTS
    Names,        \* sanitized sandbox names
    CtrNames,     \* engine container names
    SandboxName,  \* "cauteum-" + name
    ProxyName     \* "cauteum-proxy-" + name

\* Prefixing is injective; the two ranges may still meet (a sandbox called
\* "proxy-x" and the proxy of a sandbox called "x").
ASSUME NamesAssumption ==
    /\ SandboxName \in [Names -> CtrNames]
    /\ ProxyName \in [Names -> CtrNames]
    /\ \A m, n \in Names : SandboxName[m] = SandboxName[n] => m = n
    /\ \A m, n \in Names : ProxyName[m] = ProxyName[n] => m = n

VARIABLES
    ctrs,     \* the managed containers
    nets,     \* the network of each sandbox name
    vols,     \* the named volumes, <<kind, sandbox name>>
    nextId    \* container ids are never reused

engine == <<ctrs, nets, vols, nextId>>

\* cauteum-data-<n>, cauteum-ca-<n> and cauteum-ssh-<n>
VolKinds == {"data", "ca", "ssh"}

\* No network, one with routed egress, an internal one whose gateway may still
\* reach the host, and an internal one whose gateway is isolated.
NetModes == {"none", "plain", "internal", "isolated"}

\* A container with the labels the driver gives it: role, sandbox name, and
\* the volumes it mounts (a sandbox's labels name its own ones).
Container ==
    [cname : CtrNames, id : Nat, role : {"sandbox", "proxy"}, name : Names,
     mounts : SUBSET VolKinds, running : BOOLEAN]

EngineTypeOK ==
    /\ ctrs \subseteq Container
    /\ nets \in [Names -> NetModes]
    /\ vols \subseteq VolKinds \X Names
    /\ nextId \in Nat

EngineInit ==
    /\ ctrs = {}
    /\ nets = [n \in Names |-> "none"]
    /\ vols = {}
    /\ nextId = 1

-----------------------------------------------------------------------------
\* ContainerList with the label filters of Create: sandboxes and proxies of n.
Managed(n) == {k \in ctrs : k.name = n}

Sandboxes == {k \in ctrs : k.role = "sandbox"}

NameFree(cn) == \A k \in ctrs : k.cname # cn

\* A container runs only while its network exists.
CanStart(id) == \E k \in ctrs : k.id = id /\ nets[k.name] # "none"

\* An attached running container pins its network, a mount pins its volume.
NetRemovable(n) == nets[n] # "none" /\ \A k \in Managed(n) : ~k.running
VolRemovable(v, n) == \A k \in Managed(n) : v \notin k.mounts

\* Creating a container also creates the named volumes it mounts.
ContainerCreate(cn, role, n, mounts) ==
    /\ ctrs' = ctrs \cup {[cname |-> cn, id |-> nextId, role |-> role,
                           name |-> n, mounts |-> mounts, running |-> FALSE]}
    /\ vols' = vols \cup {<<v, n>> : v \in mounts}
    /\ nextId' = nextId + 1
    /\ UNCHANGED nets

SetRunning(id, b) ==
    /\ ctrs' = {IF k.id = id THEN [k EXCEPT !.running = b] ELSE k : k \in ctrs}
    /\ UNCHANGED <<nets, vols, nextId>>

\* Forced removal, by id or by name, stops and removes.
ContainerRemove(gone) ==
    /\ ctrs' = ctrs \ gone
    /\ UNCHANGED <<nets, vols, nextId>>

NetworkSet(n, mode) ==
    /\ nets' = [nets EXCEPT ![n] = mode]
    /\ UNCHANGED <<ctrs, vols, nextId>>

\* VolumeCreate of an existing volume succeeds and changes nothing.
VolumeCreate(v, n) ==
    /\ vols' = vols \cup {<<v, n>>}
    /\ UNCHANGED <<ctrs, nets, nextId>>

VolumeRemove(v, n) ==
    /\ vols' = vols \ {<<v, n>>}
    /\ UNCHANGED <<ctrs, nets, nextId>>
=============================================================================
