------------------------------- MODULE Sandbox -------------------------------
(***************************************************************************)
(* The sandbox lifecycle of the docker driver (internal/docker/docker.go),  *)
(* which the podman driver shares: Create with its sidecar, network and     *)
(* volumes and its deferred rollback, Start, Stop and Delete.  Each engine  *)
(* call is a step of its own, so calls of other callers, failures, lost     *)
(* answers, a cancelled context and the death of the calling process may    *)
(* come between any two of them.                                            *)
(***************************************************************************)
EXTENDS Engine

CONSTANTS
    Callers,     \* threads of control that call the driver
    Native,      \* the podman driver's native network hooks are installed
    Serialised,  \* callers run at most one operation per sandbox at a time
    Faults,      \* which faults may happen: "fail", "lost", "cancel", "crash"
    Wants,       \* the volumes Create may be asked for: which Specs callers use
    MaxFaults,   \* bound: faults in a behaviour
    MaxPolls,    \* readinessTimeout / poll interval
    MaxId        \* bound: container ids handed out

ASSUME SandboxAssumption ==
    /\ Names # {}
    /\ Wants \subseteq SUBSET VolKinds
    /\ Native \in BOOLEAN
    /\ Serialised \in BOOLEAN
    /\ MaxFaults \in Nat
    /\ MaxPolls \in Nat
    /\ MaxId \in Nat

VARIABLES
    op,        \* the operation each caller is running, with its local state
    faults,    \* faults so far
    spoiled    \* names whose clean-up was made impossible by a fault (history)

vars == <<ctrs, nets, vols, nextId, op, faults, spoiled>>

-----------------------------------------------------------------------------
(* Operations and their local state.                                        *)

\* The calls a caller can be blocked in; "idle", "ok" and "err" are at rest.
AtRest == {"idle", "ok", "err"}
Undo == {"proxyUndo", "netUndo"}
RollbackCalls == {"rbProxy", "rbVol", "rbNet"}
DeleteCalls == {"delCtr", "delProxy", "delNet", "delVol"}
Removals == Undo \cup RollbackCalls \cup DeleteCalls
Provisioning ==
    {"netInspect", "netCreate", "netVerify", "volInspect", "volCreate",
     "proxyCreate", "proxyConnect", "proxyStart", "waitCA", "waitListen",
     "create"}
Locations == AtRest \cup {"check", "delInspect"} \cup Provisioning \cup Removals

\* pc     where the operation is
\* want   Create: volumes it needs ("ca": with a proxy, "ssh": EnableSSH,
\*        "data": PersistVolume); Delete: the volumes still to be removed
\* labels Delete: the volumes the labels name
\* id     Create: the proxy's container id; Delete: the id to delete
\* net, made, proxy   networkCreated, createdVolumes, proxyCreated
\* live   the caller's context is not cancelled
\* vol    the volume the current call is about
\* polls  readiness probes so far
Operation ==
    [pc : Locations, call : {"none", "create", "delete"}, name : Names,
     want : SUBSET VolKinds, labels : SUBSET VolKinds, id : Nat, net : BOOLEAN,
     made : SUBSET VolKinds, proxy : BOOLEAN, live : BOOLEAN, vol : VolKinds, polls : 0 .. MaxPolls]

Idle ==
    [pc |-> "idle", call |-> "none", name |-> CHOOSE n \in Names : TRUE,
     want |-> {}, labels |-> {}, id |-> 0, net |-> FALSE, made |-> {},
     proxy |-> FALSE, live |-> TRUE, vol |-> "data", polls |-> 0]

\* The operation returns; its locals are gone, the caller knows the outcome.
Return(r, outcome) ==
    [Idle EXCEPT !.pc = outcome, !.call = r.call, !.name = r.name, !.id = r.id]

Busy(c) == op[c].pc \notin AtRest

InFlight(n) == \E c \in Callers : Busy(c) /\ op[c].name = n

Proxied(r) == "ca" \in r.want

\* The clean-up context of the rollback survives cancellation.
Alive(r) == r.live \/ r.pc \in RollbackCalls

Goto(c, r) == op' = [op EXCEPT ![c] = r]

NoFault == UNCHANGED <<faults, spoiled>>

Fault(f) == f \in Faults /\ faults < MaxFaults /\ faults' = faults + 1

-----------------------------------------------------------------------------
(* The order of Create's steps.                                             *)

Volume(r, v) == [r EXCEPT !.pc = "volInspect", !.vol = v]

AfterProxy(r) ==
    IF "data" \in r.want THEN Volume(r, "data") ELSE [r EXCEPT !.pc = "create"]

AfterNetwork(r) == IF Proxied(r) THEN Volume(r, "ca") ELSE AfterProxy(r)

AfterVolume(r) ==
    CASE r.vol = "ca" /\ "ssh" \in r.want -> Volume(r, "ssh")
      [] r.vol = "data" -> [r EXCEPT !.pc = "create"]
      [] OTHER -> [r EXCEPT !.pc = "proxyCreate"]

FirstVolume(s) ==
    IF "data" \in s THEN "data" ELSE IF "ca" \in s THEN "ca" ELSE "ssh"

\* Mutant: the rollback forgets the volumes it recorded.
RollbackKeepsVolumes(r) ==
    IF r.proxy THEN [r EXCEPT !.pc = "rbProxy"]
    ELSE IF r.net THEN [r EXCEPT !.pc = "rbNet"]
    ELSE Return(r, "err")

\* The deferred function of Create: proxy, then volumes, then network, each
\* only if this Create made it.  createdVolumes is a map, so Go visits the
\* volumes in any order; their removals commute and one order stands for all.
Rollback(r) ==
    IF r.proxy THEN [r EXCEPT !.pc = "rbProxy"]
    ELSE IF r.made # {} THEN [r EXCEPT !.pc = "rbVol", !.vol = FirstVolume(r.made)]
    ELSE IF r.net THEN [r EXCEPT !.pc = "rbNet"]
    ELSE Return(r, "err")

\* Mutant: Delete forgets the data volume.
DeleteKeepsData(r) ==
    IF r.want \ {"data"} = {} THEN Return(r, "ok")
    ELSE [r EXCEPT !.pc = "delVol", !.vol = FirstVolume(r.want \ {"data"})]

\* Delete goes through the volumes its labels name, then returns nil.
DeleteVolumes(r) ==
    IF r.want = {} THEN Return(r, "ok")
    ELSE [r EXCEPT !.pc = "delVol", !.vol = FirstVolume(r.want)]

\* Where an operation goes after a removal, whose result is ignored.
AfterRemoval(r) ==
    CASE r.pc = "netUndo" -> Return(r, "err")
      [] r.pc = "proxyUndo" -> Rollback(r)
      [] r.pc = "rbProxy" -> Rollback([r EXCEPT !.proxy = FALSE])
      [] r.pc = "rbVol" -> Rollback([r EXCEPT !.made = @ \ {r.vol}])
      [] r.pc = "rbNet" -> Return(r, "err")
      [] r.pc = "delCtr" -> [r EXCEPT !.pc = "delProxy"]
      [] r.pc = "delProxy" -> [r EXCEPT !.pc = "delNet"]
      [] r.pc = "delNet" -> DeleteVolumes(r)
      [] OTHER -> DeleteVolumes([r EXCEPT !.want = @ \ {r.vol}])

\* Where an operation goes when its current call returns an error.
OnError(r) ==
    CASE r.pc \in {"check", "netCreate", "delInspect"} -> Return(r, "err")
      [] r.pc = "netInspect" -> [r EXCEPT !.pc = "netCreate"]
      [] r.pc = "netVerify" ->
             IF r.net THEN [r EXCEPT !.pc = "netUndo"] ELSE Return(r, "err")
      [] r.pc = "volInspect" -> [r EXCEPT !.pc = "volCreate"]
      [] r.pc \in {"volCreate", "proxyCreate", "create"} -> Rollback(r)
      [] r.pc \in Removals -> AfterRemoval(r)
      [] OTHER -> [r EXCEPT !.pc = "proxyUndo", !.polls = 0]

\* A call that took effect is answered, or its answer is lost on the way.
\* A creation whose answer is lost is not recorded by the driver.
Reply(c, r) ==
    \/ Goto(c, r) /\ NoFault
    \/ /\ Fault("lost")
       /\ Goto(c, OnError(op[c]))
       /\ spoiled' = IF op[c].pc \in {"netCreate", "volCreate", "proxyCreate", "create"}
                     THEN spoiled \cup {op[c].name} ELSE spoiled

-----------------------------------------------------------------------------
(* Create.                                                                  *)

Unlocked(n) == Serialised => ~InFlight(n)

CreateBegin(c, n, w) ==
    /\ ~Busy(c) /\ Unlocked(n)
    /\ nextId + 1 <= MaxId
    /\ "ssh" \in w => "ca" \in w
    /\ Goto(c, [Idle EXCEPT !.pc = "check", !.call = "create", !.name = n, !.want = w])
    /\ UNCHANGED engine /\ NoFault

\* A container with the name's label, sandbox or sidecar, refuses the create.
CheckExisting(c) ==
    LET r == op[c] IN
    /\ r.pc = "check" /\ Alive(r)
    /\ Goto(c, IF Managed(r.name) # {} THEN Return(r, "err")
               ELSE [r EXCEPT !.pc = "netInspect"])
    /\ UNCHANGED engine /\ NoFault

\* Mutant: any network of that name will do.
NetworkReuse(c) ==
    LET r == op[c] IN
    /\ r.pc = "netInspect" /\ Alive(r)
    /\ Goto(c, IF nets[r.name] = "none" THEN [r EXCEPT !.pc = "netCreate"]
               ELSE AfterNetwork(r))
    /\ UNCHANGED engine /\ NoFault

\* ensureNetwork: an existing network is reused, for a proxied sandbox only
\* if it is internal and isolates its gateway, which the native hooks verify
\* in a call of their own.
NetworkInspect(c) ==
    LET r == op[c] IN
    /\ r.pc = "netInspect" /\ Alive(r)
    /\ Goto(c, CASE nets[r.name] = "none" -> [r EXCEPT !.pc = "netCreate"]
                 [] Proxied(r) /\ nets[r.name] = "plain" -> Return(r, "err")
                 [] Proxied(r) /\ nets[r.name] \in {"internal", "isolated"} /\ Native ->
                        [r EXCEPT !.pc = "netVerify"]
                 [] Proxied(r) /\ nets[r.name] = "internal" /\ ~Native ->
                        Return(r, "err")
                 [] OTHER -> AfterNetwork(r))
    /\ UNCHANGED engine /\ NoFault

\* The modes a new network may have.  The native hook can leave an internal
\* network whose gateway is not isolated: that is what the verification is for.
NewModes(r) ==
    IF ~Proxied(r) THEN {"plain"}
    ELSE IF Native THEN {"internal", "isolated"}
    ELSE {"isolated"}

NetworkCreate(c) ==
    LET r == op[c]
        made == [r EXCEPT !.net = TRUE]
    IN
    /\ r.pc = "netCreate" /\ Alive(r)
    /\ nets[r.name] = "none"
    /\ \E mode \in NewModes(r) : NetworkSet(r.name, mode)
    /\ Reply(c, IF Native /\ Proxied(r) THEN [made EXCEPT !.pc = "netVerify"]
                ELSE AfterNetwork(made))

NetworkVerify(c) ==
    LET r == op[c] IN
    /\ r.pc = "netVerify" /\ Alive(r)
    /\ Goto(c, IF nets[r.name] = "isolated" THEN AfterNetwork(r) ELSE OnError(r))
    /\ UNCHANGED engine /\ NoFault

\* ensureVolume: created only when the inspection did not find it.
VolumeInspect(c) ==
    LET r == op[c] IN
    /\ r.pc = "volInspect" /\ Alive(r)
    /\ Goto(c, IF <<r.vol, r.name>> \in vols THEN AfterVolume(r)
               ELSE [r EXCEPT !.pc = "volCreate"])
    /\ UNCHANGED engine /\ NoFault

\* Mutant: every volume it creates is recorded for rollback.
VolumeCreateRecorded(c) ==
    LET r == op[c] IN
    /\ r.pc = "volCreate" /\ Alive(r)
    /\ VolumeCreate(r.vol, r.name)
    /\ Reply(c, AfterVolume([r EXCEPT !.made = @ \cup {r.vol}]))

\* The data volume is not recorded for rollback.
EnsureVolumeCreate(c) ==
    LET r == op[c] IN
    /\ r.pc = "volCreate" /\ Alive(r)
    /\ VolumeCreate(r.vol, r.name)
    /\ Reply(c, IF r.vol = "data" THEN AfterVolume(r)
                ELSE AfterVolume([r EXCEPT !.made = @ \cup {r.vol}]))

\* createProxySidecar: create, join the bridge, start, wait for the CA file
\* and for the listener.
ProxyCreate(c) ==
    LET r == op[c] IN
    /\ r.pc = "proxyCreate" /\ Alive(r)
    /\ NameFree(ProxyName[r.name])
    /\ ContainerCreate(ProxyName[r.name], "proxy", r.name, r.want \ {"data"})
    /\ Reply(c, [r EXCEPT !.pc = "proxyConnect", !.id = nextId])

ProxyConnect(c) ==
    LET r == op[c] IN
    /\ r.pc = "proxyConnect" /\ Alive(r)
    /\ \E k \in ctrs : k.id = r.id
    /\ Goto(c, [r EXCEPT !.pc = "proxyStart"])
    /\ UNCHANGED engine /\ NoFault

ProxyStart(c) ==
    LET r == op[c] IN
    /\ r.pc = "proxyStart" /\ Alive(r)
    /\ CanStart(r.id)
    /\ SetRunning(r.id, TRUE)
    /\ Reply(c, [r EXCEPT !.pc = "waitCA"])

\* The probe runs in the sidecar and finds the file (then the listener).
ProxyReady(c) ==
    LET r == op[c] IN
    /\ r.pc \in {"waitCA", "waitListen"} /\ Alive(r)
    /\ r.polls < MaxPolls
    /\ \E k \in ctrs : k.id = r.id /\ k.running
    /\ Goto(c, IF r.pc = "waitCA" THEN [r EXCEPT !.pc = "waitListen", !.polls = 0]
               ELSE AfterProxy([r EXCEPT !.proxy = TRUE, !.polls = 0]))
    /\ UNCHANGED engine /\ NoFault

\* Mutant: one probe too many at the deadline.
ProxyProbeLate(c) ==
    LET r == op[c] IN
    /\ r.pc \in {"waitCA", "waitListen"} /\ r.live
    /\ r.polls <= MaxPolls
    /\ Goto(c, [r EXCEPT !.polls = @ + 1])
    /\ UNCHANGED engine /\ NoFault

ProxyNotReady(c) ==
    LET r == op[c] IN
    /\ r.pc \in {"waitCA", "waitListen"} /\ r.live
    /\ r.polls < MaxPolls
    /\ Goto(c, [r EXCEPT !.polls = @ + 1])
    /\ UNCHANGED engine /\ NoFault

\* Mutant: the wait has no deadline of its own.
ProxyWaitForever(c) ==
    LET r == op[c] IN
    /\ r.pc \in {"waitCA", "waitListen"} /\ ~r.live
    /\ Goto(c, OnError(r))
    /\ UNCHANGED engine /\ NoFault

\* The deadline passed, or the caller's context is done.
ProxyGiveUp(c) ==
    LET r == op[c] IN
    /\ r.pc \in {"waitCA", "waitListen"}
    /\ r.polls = MaxPolls \/ ~r.live
    /\ Goto(c, OnError(r))
    /\ UNCHANGED engine /\ NoFault

\* Mutant: the deferred rollback runs after a success too (committed is
\* never set).
SandboxCreateUncommitted(c) ==
    LET r == op[c] IN
    /\ r.pc = "create" /\ Alive(r)
    /\ NameFree(SandboxName[r.name])
    /\ ContainerCreate(SandboxName[r.name], "sandbox", r.name, r.want)
    /\ Reply(c, Rollback(r))

\* Mutant: a container that has the name already is replaced.
SandboxCreateReplaces(c) ==
    LET r == op[c]
        old == {k \in ctrs : k.cname = SandboxName[r.name]}
        new == [cname |-> SandboxName[r.name], id |-> nextId, role |-> "sandbox",
                name |-> r.name, mounts |-> r.want, running |-> FALSE]
    IN
    /\ r.pc = "create" /\ Alive(r)
    /\ ctrs' = (ctrs \ old) \cup {new}
    /\ nextId' = nextId + 1
    /\ UNCHANGED <<nets, vols>>
    /\ Reply(c, Return([r EXCEPT !.id = nextId], "ok"))

\* The sandbox container commits the resources.
SandboxCreate(c) ==
    LET r == op[c] IN
    /\ r.pc = "create" /\ Alive(r)
    /\ NameFree(SandboxName[r.name])
    /\ ContainerCreate(SandboxName[r.name], "sandbox", r.name, r.want)
    /\ Reply(c, Return([r EXCEPT !.id = nextId], "ok"))

-----------------------------------------------------------------------------
(* Removals: of a failed Create and of Delete.  A refused one is ignored.   *)

\* createProxySidecar removes the sidecar it created, with the caller's context.
ProxyUndo(c) ==
    LET r == op[c] IN
    /\ r.pc = "proxyUndo" /\ Alive(r)
    /\ ContainerRemove({k \in ctrs : k.id = r.id})
    /\ Goto(c, AfterRemoval(r)) /\ NoFault

NetworkRemoval(c) ==
    LET r == op[c] IN
    /\ r.pc \in {"netUndo", "rbNet", "delNet"} /\ Alive(r)
    /\ IF NetRemovable(r.name) THEN NetworkSet(r.name, "none") ELSE UNCHANGED engine
    /\ Goto(c, AfterRemoval(r)) /\ NoFault

\* Mutant: by the name label instead of the container name.
ProxyRemovalByLabel(c) ==
    LET r == op[c] IN
    /\ r.pc \in {"rbProxy", "delProxy"} /\ Alive(r)
    /\ ContainerRemove(Managed(r.name))
    /\ Goto(c, AfterRemoval(r)) /\ NoFault

\* removeProxySidecar: by container name.
ProxyRemoval(c) ==
    LET r == op[c] IN
    /\ r.pc \in {"rbProxy", "delProxy"} /\ Alive(r)
    /\ ContainerRemove({k \in ctrs : k.cname = ProxyName[r.name]})
    /\ Goto(c, AfterRemoval(r)) /\ NoFault

VolumeRemoval(c) ==
    LET r == op[c] IN
    /\ r.pc \in {"rbVol", "delVol"} /\ Alive(r)
    /\ IF VolRemovable(r.vol, r.name) THEN VolumeRemove(r.vol, r.name)
       ELSE UNCHANGED engine
    /\ Goto(c, AfterRemoval(r)) /\ NoFault

-----------------------------------------------------------------------------
(* Delete, Start and Stop.                                                  *)

DeleteBegin(c, k) ==
    /\ ~Busy(c) /\ Unlocked(k.name)
    /\ Goto(c, [Idle EXCEPT !.pc = "delInspect", !.call = "delete",
                            !.name = k.name, !.id = k.id])
    /\ UNCHANGED engine /\ NoFault

\* The labels read here drive every removal that follows.
DeleteInspect(c) ==
    LET r == op[c] IN
    /\ r.pc = "delInspect" /\ Alive(r)
    /\ \E k \in ctrs :
          /\ k.id = r.id
          /\ Goto(c, [r EXCEPT !.pc = "delCtr", !.name = k.name, !.want = k.mounts,
                              !.labels = k.mounts])
    /\ UNCHANGED engine /\ NoFault

DeleteContainer(c) ==
    LET r == op[c] IN
    /\ r.pc = "delCtr" /\ Alive(r)
    /\ ContainerRemove({k \in ctrs : k.id = r.id})
    /\ Goto(c, AfterRemoval(r)) /\ NoFault

\* One engine call decides; what follows it in Start cannot fail the call.
Start(c, k) ==
    /\ ~Busy(c) /\ Unlocked(k.name)
    /\ CanStart(k.id)
    /\ SetRunning(k.id, TRUE)
    /\ UNCHANGED op /\ NoFault

Stop(c, k) ==
    /\ ~Busy(c) /\ Unlocked(k.name)
    /\ k.running
    /\ SetRunning(k.id, FALSE)
    /\ UNCHANGED op /\ NoFault

-----------------------------------------------------------------------------
(* What goes wrong.                                                         *)

\* Calls the engine rejects in its present state.
Rejects(r) ==
    \/ r.pc = "netCreate" /\ nets[r.name] # "none"
    \/ r.pc = "proxyCreate" /\ ~NameFree(ProxyName[r.name])
    \/ r.pc = "create" /\ ~NameFree(SandboxName[r.name])
    \/ r.pc \in {"proxyConnect", "delInspect"} /\ \A k \in ctrs : k.id # r.id
    \/ r.pc = "proxyStart" /\ ~CanStart(r.id)

Rejected(c) ==
    /\ Alive(op[c]) /\ Rejects(op[c])
    /\ Goto(c, OnError(op[c]))
    /\ UNCHANGED engine /\ NoFault

Probing == {"waitCA", "waitListen"}

\* A call on a cancelled context returns its error.
CallCancelled(c) ==
    LET r == op[c] IN
    /\ Busy(c) /\ ~Alive(r) /\ r.pc \notin Probing
    /\ Goto(c, OnError(r))
    /\ spoiled' = IF r.pc \in Removals THEN spoiled \cup {r.name} ELSE spoiled
    /\ UNCHANGED <<engine, faults>>

\* A call fails without effect: the engine, the transport, or a host-side
\* check that precedes the call.
CallFails(c) ==
    LET r == op[c] IN
    /\ Busy(c) /\ Alive(r) /\ r.pc \notin Probing
    /\ Fault("fail")
    /\ Goto(c, OnError(r))
    /\ spoiled' = IF r.pc \in Removals THEN spoiled \cup {r.name} ELSE spoiled
    /\ UNCHANGED engine

Cancel(c) ==
    /\ Busy(c) /\ op[c].live
    /\ Fault("cancel")
    /\ op' = [op EXCEPT ![c].live = FALSE]
    /\ UNCHANGED <<engine, spoiled>>

\* The process of the caller dies; nothing of its operation is recorded.
Crash(c) ==
    /\ Busy(c)
    /\ Fault("crash")
    /\ Goto(c, Idle)
    /\ spoiled' = spoiled \cup {op[c].name}
    /\ UNCHANGED engine

-----------------------------------------------------------------------------
Init ==
    /\ EngineInit
    /\ op = [c \in Callers |-> Idle]
    /\ faults = 0
    /\ spoiled = {}

CreateStep(c) ==
    \/ CheckExisting(c) \/ NetworkInspect(c) \/ NetworkCreate(c) \/ NetworkVerify(c)
    \/ VolumeInspect(c) \/ EnsureVolumeCreate(c)
    \/ ProxyCreate(c) \/ ProxyConnect(c) \/ ProxyStart(c)
    \/ ProxyReady(c) \/ ProxyNotReady(c) \/ ProxyGiveUp(c)
    \/ SandboxCreate(c)

RemovalStep(c) ==
    \/ ProxyUndo(c) \/ ProxyRemoval(c) \/ NetworkRemoval(c) \/ VolumeRemoval(c)
    \/ DeleteInspect(c) \/ DeleteContainer(c)

\* A step of an operation that was begun.
DriverStep(c) ==
    CreateStep(c) \/ RemovalStep(c) \/ Rejected(c) \/ CallCancelled(c) \/ CallFails(c)

Begin(c) ==
    \/ \E n \in Names, w \in Wants : CreateBegin(c, n, w)
    \/ \E k \in Sandboxes : DeleteBegin(c, k) \/ Start(c, k) \/ Stop(c, k)

Next ==
    \E c \in Callers : Begin(c) \/ DriverStep(c) \/ Cancel(c) \/ Crash(c)

Spec == Init /\ [][Next]_vars

\* Every engine call returns (the client library bounds it by the context),
\* so an operation that was begun keeps taking steps.
FairSpec == Spec /\ \A c \in Callers : WF_vars(DriverStep(c))

-----------------------------------------------------------------------------
(* Properties.                                                              *)

\* Every variable, and every local of an operation in flight, has its type.
TypeOK ==
    /\ EngineTypeOK
    /\ op \in [Callers -> Operation]
    /\ faults \in Nat
    /\ spoiled \subseteq Names

\* What a committed sandbox consists of ...
Whole(n) ==
    \E k \in Managed(n) :
        /\ k.role = "sandbox"
        /\ nets[n] # "none"
        /\ \A v \in k.mounts : <<v, n>> \in vols
        /\ "ca" \in k.mounts =>
              \E p \in Managed(n) :
                  p.role = "proxy" /\ p.running /\ p.mounts = k.mounts \ {"data"}
        /\ "ca" \notin k.mounts => Managed(n) = {k}

\* ... and what is left without one: at most the data volume, which a failed
\* Create keeps.
Clean(n) ==
    /\ Managed(n) = {}
    /\ nets[n] = "none"
    /\ \A v \in VolKinds : <<v, n>> \in vols => v = "data"

\* Create's deferred rollback and Delete's sequence of removals: whenever no
\* operation on a sandbox is in flight, the sandbox has all of its parts or
\* none of them, unless a removal call itself failed, the answer to a creation
\* was lost, or the calling process died (the names in spoiled).
AllOrNothing ==
    \A n \in Names \ spoiled : ~InFlight(n) => Whole(n) \/ Clean(n)

\* ensureNetwork's verification of the network it made, its refusal to reuse
\* one that is not isolated, and Create's refusal of a name that is in use:
\* whatever fails, whoever dies and whatever unverified network is left behind,
\* a running sandbox that was created with a proxy is on an isolated network.
EgressConfined ==
    \A k \in Sandboxes :
        k.running /\ "ca" \in k.mounts => nets[k.name] = "isolated"

\* The sidecar of a sandbox stays up until the sandbox's Delete: no rollback
\* of a Create (which removes the sidecar by name) takes it away.
SidecarKept ==
    \A k \in Sandboxes :
        /\ "ca" \in k.mounts
        /\ k.name \notin spoiled
        /\ \A c \in Callers : op[c].call = "delete" /\ Busy(c) => op[c].name # k.name
        => \E p \in Managed(k.name) : p.role = "proxy" /\ p.running

\* A sandbox container disappears only in the step of a Delete that was asked
\* to delete that very container.
OnlyDeleteRemoves ==
    [][\A k \in Sandboxes :
          (\A j \in ctrs' : j.id # k.id) =>
              \E c \in Callers : op[c].pc = "delCtr" /\ op[c].id = k.id]_vars

\* The data volume outlives a failed Create: it goes only in the step of a
\* Delete that is at its removal, and never while a container of that name
\* mounts it.
DataOutlivesCreate ==
    [][\A n \in Names :
          <<"data", n>> \in vols /\ <<"data", n>> \notin vols' =>
              /\ \E c \in Callers :
                    op[c].pc = "delVol" /\ op[c].vol = "data" /\ op[c].name = n
              /\ \A k \in Managed(n) : "data" \notin k.mounts]_vars

\* The step in which a Delete returns nil.
DeleteReturns(c) == op[c].call = "delete" /\ Busy(c) /\ op'[c].pc = "ok"

\* Although Delete ignores the result of every removal, its nil means that the
\* sandbox, its sidecar, its network and every volume its labels named, the
\* data volume included, are gone, unless one of the removal calls failed.
DeleteCompletes ==
    [][\A c \in Callers :
          DeleteReturns(c) /\ op[c].name \notin spoiled' =>
              /\ Clean(op[c].name)'
              /\ \A v \in op[c].labels : <<v, op[c].name>> \notin vols']_vars

\* A partial create leaves neither sidecar, nor network, nor CA volume behind
\* when it returns its error.
FailedCreateLeavesNothing ==
    [][\A c \in Callers :
          /\ op[c].call = "create" /\ op[c].pc \in Removals
          /\ op'[c].pc = "err"
          => Clean(op[c].name)']_vars

\* A provisioning attempt that fails does not delete a live sandbox's sidecar.
RollbackSparesLiveSidecar ==
    [][\A p \in ctrs :
          /\ p.role = "proxy"
          /\ \A j \in ctrs' : j.id # p.id
          /\ \E k \in Sandboxes : k.name = p.name /\ "ca" \in k.mounts
          => \A c \in Callers : op[c].pc # "rbProxy" \/ op'[c] = op[c]]_vars

\* Every operation that was begun returns: the readiness waits are bounded by
\* their deadline and no step waits for another caller.
OperationsReturn == \A c \in Callers : Busy(c) ~> ~Busy(c)

-----------------------------------------------------------------------------
(* Strengthenings, inductive with TypeOK.                                   *)

\* The container names of different sandboxes and sidecars differ.
NoNameClash == \A m, n \in Names : SandboxName[m] # ProxyName[n]

\* Where an operation uses the id it holds.
HoldsProxy == {"proxyConnect", "proxyStart", "waitCA", "waitListen", "proxyUndo"}
HoldsTarget == {"delInspect", "delCtr"}

\* Ids and names identify containers, and the names follow the roles.
CtrIdentity ==
    /\ nextId > 0
    /\ \A k \in ctrs :
          /\ k.id < nextId
          /\ k.role = "sandbox" => k.cname = SandboxName[k.name]
          /\ k.role = "proxy" => k.cname = ProxyName[k.name]
    /\ \A j, k \in ctrs : j.id = k.id \/ j.cname = k.cname => j = k

\* The id an operation holds is that of its own sidecar (Create) or of the
\* sandbox it is to delete (Delete).
HoldsOwn(r) ==
    /\ r.id < nextId
    /\ \A k \in ctrs :
          k.id = r.id =>
              /\ r.pc \in HoldsProxy => k.role = "proxy" /\ k.name = r.name
              /\ r.pc \in HoldsTarget => k.role = "sandbox" /\ k.name = r.name

Identity == CtrIdentity /\ \A c \in Callers : HoldsOwn(op[c])

\* The steps of Create once ensureNetwork has returned.
NetworkEnsured ==
    {"volInspect", "volCreate", "proxyCreate", "proxyConnect", "proxyStart",
     "waitCA", "waitListen", "create"}

\* With serialised callers a provisioning Create has its name for itself, and
\* the network a proxied Create verified stays isolated.
Confinement ==
    /\ \A c, d \in Callers :
          c # d /\ Busy(c) /\ Busy(d) => op[c].name # op[d].name
    /\ \A k \in ctrs : k.running => nets[k.name] # "none"
    /\ \A k \in Sandboxes : "ca" \in k.mounts => nets[k.name] \in {"none", "isolated"}
    /\ \A c \in Callers :
          op[c].pc \in Provisioning => \A k \in Sandboxes : k.name # op[c].name
    /\ \A c \in Callers :
          op[c].pc \in NetworkEnsured /\ Proxied(op[c]) => nets[op[c].name] = "isolated"

-----------------------------------------------------------------------------
(* The promise to callers.                                                  *)

Boxes == {[id |-> k.id, name |-> k.name, running |-> k.running] : k \in Sandboxes}

Service == INSTANCE SandboxService WITH boxes <- Boxes

\* The lifecycle with all of its engine calls, failures and interleavings
\* implements the atomic service of SandboxService.
ImplementsService == Service!Spec
=============================================================================
