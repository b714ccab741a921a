--------------------------- MODULE SandboxProofs ---------------------------
(***************************************************************************)
(* Theorems about the sandbox lifecycle, for any sets of names and callers, *)
(* any faults and any bounds.                                               *)
(***************************************************************************)
EXTENDS Sandbox, TLAPS

\* s continues the operation r: same call on the same sandbox and container.
Continues(r, s) ==
    /\ s \in Operation
    /\ s.name = r.name /\ s.call = r.call /\ s.id = r.id

\* s uses the id it holds only if r already did.
KeepsHold(r, s) ==
    /\ s.pc \in HoldsProxy => r.pc \in HoldsProxy
    /\ s.pc \in HoldsTarget => r.pc \in HoldsTarget

-----------------------------------------------------------------------------
(* Where the control operators of the lifecycle lead.                       *)

\* The record of a caller at rest is well typed.
LEMMA IdleType == Idle \in Operation
  BY SandboxAssumption DEF Idle, Operation, Locations, AtRest, VolKinds

\* A wait starts with no polls.
LEMMA PollsType == 0 \in 0 .. MaxPolls
  BY SandboxAssumption

\* Returning keeps the identity of the operation and puts the caller at rest.
LEMMA ReturnFacts ==
    ASSUME NEW r \in Operation, NEW o \in {"ok", "err"}
    PROVE  Continues(r, Return(r, o)) /\ Return(r, o).pc = o
  BY IdleType DEF Continues, Return, Operation, Locations, AtRest

\* The deferred rollback only performs rollback calls and then fails.
LEMMA RollbackFacts ==
    ASSUME NEW r \in Operation
    PROVE  /\ Continues(r, Rollback(r))
           /\ Rollback(r).pc \in RollbackCalls \cup {"err"}
  <1>1. CASE r.proxy
    BY <1>1 DEF Rollback, Continues, Operation, Locations, Removals, RollbackCalls
  <1>2. CASE ~r.proxy /\ r.made # {}
    <2>1. FirstVolume(r.made) \in VolKinds
      BY DEF FirstVolume, VolKinds
    <2>2. Rollback(r) = [r EXCEPT !.pc = "rbVol", !.vol = FirstVolume(r.made)]
      BY <1>2 DEF Rollback
    <2> QED
      BY <2>1, <2>2 DEF Continues, Operation, Locations, Removals, RollbackCalls
  <1>3. CASE ~r.proxy /\ r.made = {} /\ r.net
    BY <1>3 DEF Rollback, Continues, Operation, Locations, Removals, RollbackCalls
  <1>4. CASE ~r.proxy /\ r.made = {} /\ ~r.net
    BY <1>4, ReturnFacts DEF Rollback
  <1> QED BY <1>1, <1>2, <1>3, <1>4

\* Delete's volume loop stays in Delete.
LEMMA DeleteVolumesFacts ==
    ASSUME NEW r \in Operation
    PROVE  /\ Continues(r, DeleteVolumes(r))
           /\ DeleteVolumes(r).pc \in {"delVol", "ok"}
  <1>1. CASE r.want = {}
    BY <1>1, ReturnFacts DEF DeleteVolumes
  <1>2. CASE r.want # {}
    <2>1. FirstVolume(r.want) \in VolKinds
      BY DEF FirstVolume, VolKinds
    <2>2. DeleteVolumes(r) = [r EXCEPT !.pc = "delVol", !.vol = FirstVolume(r.want)]
      BY <1>2 DEF DeleteVolumes
    <2> QED
      BY <2>1, <2>2 DEF Continues, Operation, Locations, Removals, DeleteCalls
  <1> QED BY <1>1, <1>2

\* A removal is followed by removals of the same operation, or by its return.
LEMMA AfterRemovalFacts ==
    ASSUME NEW r \in Operation, r.pc \in Removals
    PROVE  /\ Continues(r, AfterRemoval(r))
           /\ AfterRemoval(r).pc \in RollbackCalls \cup (DeleteCalls \ {"delCtr"})
                                      \cup {"ok", "err"}
  <1>1. CASE r.pc \in {"netUndo", "rbNet"}
    BY <1>1, ReturnFacts DEF AfterRemoval
  <1>2. CASE r.pc = "proxyUndo"
    BY <1>2, RollbackFacts DEF AfterRemoval
  <1>3. CASE r.pc = "rbProxy"
    <2>1. [r EXCEPT !.proxy = FALSE] \in Operation
      BY DEF Operation
    <2> QED BY <1>3, <2>1, RollbackFacts DEF AfterRemoval, Continues, Operation
  <1>4. CASE r.pc = "rbVol"
    <2>1. [r EXCEPT !.made = @ \ {r.vol}] \in Operation
      BY DEF Operation
    <2> QED BY <1>4, <2>1, RollbackFacts DEF AfterRemoval, Continues, Operation
  <1>5. CASE r.pc \in {"delCtr", "delProxy"}
    BY <1>5 DEF AfterRemoval, Continues, Operation, Locations, Removals, DeleteCalls
  <1>6. CASE r.pc = "delNet"
    BY <1>6, DeleteVolumesFacts DEF AfterRemoval, DeleteCalls
  <1>7. CASE r.pc = "delVol"
    <2>1. [r EXCEPT !.want = @ \ {r.vol}] \in Operation
      BY DEF Operation
    <2> QED
      BY <1>7, <2>1, DeleteVolumesFacts
      DEF AfterRemoval, Continues, Operation, DeleteCalls
  <1> QED
    BY <1>1, <1>2, <1>3, <1>4, <1>5, <1>6, <1>7
    DEF Removals, Undo, RollbackCalls, DeleteCalls

\* Where an error leads: the fall-through of the two inspections, the removal
\* of an unverified network or of an unusable sidecar, a removal, or the return.
LEMMA OnErrorFacts ==
    ASSUME NEW r \in Operation, r.pc \notin AtRest
    PROVE  /\ Continues(r, OnError(r))
           /\ \/ r.pc = "netInspect" /\ OnError(r) = [r EXCEPT !.pc = "netCreate"]
              \/ r.pc = "volInspect" /\ OnError(r) = [r EXCEPT !.pc = "volCreate"]
              \/ r.pc \in HoldsProxy /\ OnError(r).pc = "proxyUndo"
              \/ OnError(r).pc \in {"netUndo", "ok", "err"} \cup RollbackCalls
                                       \cup (DeleteCalls \ {"delCtr"})
  <1>1. CASE r.pc \in {"check", "netCreate", "delInspect"}
    BY <1>1, ReturnFacts DEF OnError, Removals, Undo, RollbackCalls, DeleteCalls
  <1>2. CASE r.pc \in {"netInspect", "volInspect"}
    BY <1>2
    DEF OnError, Continues, Operation, Locations, Provisioning, Removals, Undo,
        RollbackCalls, DeleteCalls
  <1>3. CASE r.pc = "netVerify"
    BY <1>3, ReturnFacts
    DEF OnError, Continues, Operation, Locations, Removals, Undo, RollbackCalls,
        DeleteCalls
  <1>4. CASE r.pc \in {"volCreate", "proxyCreate", "create"}
    BY <1>4, RollbackFacts DEF OnError, Removals, Undo, RollbackCalls, DeleteCalls
  <1>5. CASE r.pc \in Removals
    BY <1>5, AfterRemovalFacts
    DEF OnError, Removals, Undo, RollbackCalls, DeleteCalls
  <1>6. CASE r.pc \in {"proxyConnect", "proxyStart", "waitCA", "waitListen"}
    <2>1. OnError(r) = [r EXCEPT !.pc = "proxyUndo", !.polls = 0]
      BY <1>6 DEF OnError, Removals, Undo, RollbackCalls, DeleteCalls
    <2>2. [r EXCEPT !.pc = "proxyUndo", !.polls = 0] \in Operation
      BY PollsType DEF Operation, Locations, Removals, Undo
    <2> QED BY <1>6, <2>1, <2>2 DEF Continues, HoldsProxy, Operation
  <1> QED
    BY <1>1, <1>2, <1>3, <1>4, <1>5, <1>6
    DEF Operation, Locations, Provisioning, AtRest

\* After the network, a volume or the sidecar, Create goes on provisioning.
LEMMA ProvisioningFacts ==
    ASSUME NEW r \in Operation
    PROVE  \A s \in {AfterProxy(r), AfterNetwork(r), AfterVolume(r)} :
               /\ Continues(r, s)
               /\ s.want = r.want
               /\ s.pc \in {"volInspect", "proxyCreate", "create"}
  <1> DEFINE Ok(s) == /\ Continues(r, s)
                      /\ s.want = r.want
                      /\ s.pc \in {"volInspect", "proxyCreate", "create"}
  <1>1. \A v \in VolKinds : Ok(Volume(r, v))
    BY DEF Volume, Continues, Operation, Locations, Provisioning
  <1>2. \A p \in {"create", "proxyCreate"} : Ok([r EXCEPT !.pc = p])
    BY DEF Continues, Operation, Locations, Provisioning
  <1> HIDE DEF Ok
  <1>3. Ok(AfterProxy(r))
    BY <1>1, <1>2 DEF AfterProxy, VolKinds
  <1>4. Ok(AfterNetwork(r))
    BY <1>1, <1>3 DEF AfterNetwork, VolKinds
  <1>5. Ok(AfterVolume(r))
    BY <1>1, <1>2 DEF AfterVolume, VolKinds
  <1> QED BY <1>3, <1>4, <1>5 DEF Ok

-----------------------------------------------------------------------------
(* Type correctness.                                                        *)

\* The effects of the engine calls are well typed.
LEMMA EngineTypes ==
    ASSUME EngineTypeOK
    PROVE  /\ \A n \in Names, w \in SUBSET VolKinds, x \in {"sandbox", "proxy"},
                 cn \in CtrNames : ContainerCreate(cn, x, n, w) => EngineTypeOK'
           /\ \A i \in Nat, b \in BOOLEAN : SetRunning(i, b) => EngineTypeOK'
           /\ \A gone : ContainerRemove(gone) => EngineTypeOK'
           /\ \A n \in Names, m \in NetModes : NetworkSet(n, m) => EngineTypeOK'
           /\ \A n \in Names, v \in VolKinds :
                 VolumeCreate(v, n) \/ VolumeRemove(v, n) => EngineTypeOK'
           /\ UNCHANGED engine => EngineTypeOK'
  <1>1. ASSUME NEW n \in Names, NEW w \in SUBSET VolKinds,
               NEW x \in {"sandbox", "proxy"}, NEW cn \in CtrNames,
               ContainerCreate(cn, x, n, w)
        PROVE  EngineTypeOK'
    <2>1. [cname |-> cn, id |-> nextId, role |-> x, name |-> n, mounts |-> w,
           running |-> FALSE] \in Container
      BY DEF EngineTypeOK, Container
    <2>2. {<<v, n>> : v \in w} \subseteq VolKinds \X Names
      OBVIOUS
    <2>3. ctrs' \subseteq Container
      BY <1>1, <2>1 DEF ContainerCreate, EngineTypeOK
    <2>4. vols' \subseteq VolKinds \X Names
      BY <1>1, <2>2 DEF ContainerCreate, EngineTypeOK
    <2>5. nets' \in [Names -> NetModes] /\ nextId' \in Nat
      BY <1>1 DEF ContainerCreate, EngineTypeOK
    <2> QED BY <2>3, <2>4, <2>5 DEF EngineTypeOK
  <1>2. ASSUME NEW i \in Nat, NEW b \in BOOLEAN, SetRunning(i, b)
        PROVE  EngineTypeOK'
    <2>1. \A k \in Container : [k EXCEPT !.running = b] \in Container
      BY DEF Container
    <2> QED BY <1>2, <2>1 DEF SetRunning, EngineTypeOK
  <1>3. ASSUME NEW n \in Names, NEW m \in NetModes, NetworkSet(n, m)
        PROVE  EngineTypeOK'
    BY <1>3 DEF NetworkSet, EngineTypeOK
  <1>4. ASSUME NEW n \in Names, NEW v \in VolKinds,
               VolumeCreate(v, n) \/ VolumeRemove(v, n)
        PROVE  EngineTypeOK'
    BY <1>4 DEF VolumeCreate, VolumeRemove, EngineTypeOK
  <1>5. ASSUME NEW gone, ContainerRemove(gone)
        PROVE  EngineTypeOK'
    BY <1>5 DEF ContainerRemove, EngineTypeOK
  <1>6. UNCHANGED engine => EngineTypeOK'
    BY DEF engine, EngineTypeOK
  <1> QED BY <1>1, <1>2, <1>3, <1>4, <1>5, <1>6

\* The bookkeeping of an operation is well typed when the operation it goes on
\* with is.
LEMMA OpTypes ==
    ASSUME TypeOK, NEW c \in Callers
    PROVE  /\ \A r \in Operation :
                 Goto(c, r) => op' \in [Callers -> Operation]
           /\ NoFault => faults' \in Nat /\ spoiled' \subseteq Names
           /\ \A f : Fault(f) => faults' \in Nat
           /\ op[c] \in Operation
           /\ op[c].name \in Names
  BY DEF TypeOK, Goto, NoFault, Fault, Operation

\* Both outcomes of an effective call: answered, or taken for an error.
LEMMA ReplyFacts ==
    ASSUME TypeOK, NEW c \in Callers, Busy(c), NEW r \in Operation, Reply(c, r)
    PROVE  /\ op' \in [Callers -> Operation]
           /\ faults' \in Nat
           /\ spoiled' \subseteq Names
           /\ Goto(c, r) \/ Goto(c, OnError(op[c]))
  <1>1. OnError(op[c]) \in Operation
    BY OpTypes, OnErrorFacts DEF Busy, Continues
  <1>2. spoiled' \subseteq Names
    BY OpTypes DEF Reply, NoFault, TypeOK
  <1> QED BY <1>1, <1>2, OpTypes DEF Reply

\* Every step of every operation, fault or not, keeps the types.
LEMMA TypeOKStep == TypeOK /\ [Next]_vars => TypeOK'
  <1> SUFFICES ASSUME TypeOK, [Next]_vars PROVE TypeOK'
    OBVIOUS
  <1> USE DEF TypeOK
  <1>1. CASE UNCHANGED vars
    BY <1>1 DEF vars, EngineTypeOK
  <1>2. ASSUME NEW c \in Callers, Begin(c) PROVE TypeOK'
    <2>1. ASSUME NEW n \in Names, NEW w \in Wants, CreateBegin(c, n, w)
          PROVE  TypeOK'
      <3>1. [Idle EXCEPT !.pc = "check", !.call = "create", !.name = n, !.want = w]
                \in Operation
        BY IdleType, SandboxAssumption DEF Operation, Locations
      <3> QED BY <2>1, <3>1, OpTypes, EngineTypes DEF CreateBegin
    <2>2. ASSUME NEW k \in Sandboxes, DeleteBegin(c, k)
          PROVE  TypeOK'
      <3>1. [Idle EXCEPT !.pc = "delInspect", !.call = "delete", !.name = k.name,
                         !.id = k.id] \in Operation
        BY IdleType DEF Operation, Locations, Sandboxes, EngineTypeOK, Container
      <3> QED BY <2>2, <3>1, OpTypes, EngineTypes DEF DeleteBegin
    <2>3. ASSUME NEW k \in Sandboxes, Start(c, k) \/ Stop(c, k)
          PROVE  TypeOK'
      <3>1. k.id \in Nat
        BY DEF Sandboxes, EngineTypeOK, Container
      <3> QED BY <2>3, <3>1, OpTypes, EngineTypes DEF Start, Stop
    <2> QED BY <1>2, <2>1, <2>2, <2>3 DEF Begin
  <1>3. ASSUME NEW c \in Callers, CreateStep(c) PROVE TypeOK'
    <2> DEFINE r == op[c]
    <2>1. r \in Operation /\ r.name \in Names /\ r.id \in Nat /\ r.vol \in VolKinds
          /\ r.want \in SUBSET VolKinds
      BY OpTypes DEF Operation
    <2>2. \A p \in Locations : [r EXCEPT !.pc = p] \in Operation
      BY <2>1 DEF Operation
    <2>3. CASE CheckExisting(c)
      <3>1. Return(r, "err") \in Operation /\ [r EXCEPT !.pc = "netInspect"] \in Operation
        BY <2>1, <2>2, ReturnFacts DEF Continues, Locations, Provisioning
      <3> QED BY <2>3, <3>1, OpTypes, EngineTypes DEF CheckExisting
    <2>4. CASE NetworkInspect(c)
      <3>1. /\ Return(r, "err") \in Operation
            /\ [r EXCEPT !.pc = "netCreate"] \in Operation
            /\ [r EXCEPT !.pc = "netVerify"] \in Operation
            /\ AfterNetwork(r) \in Operation
        BY <2>1, <2>2, ReturnFacts, ProvisioningFacts
        DEF Continues, Locations, Provisioning
      <3>2. nets[r.name] \in NetModes
        BY <2>1 DEF EngineTypeOK
      <3> QED BY <2>4, <3>1, <3>2, OpTypes, EngineTypes DEF NetworkInspect
    <2>5. CASE NetworkCreate(c)
      <3> DEFINE made == [r EXCEPT !.net = TRUE]
                 next == IF Native /\ Proxied(r) THEN [made EXCEPT !.pc = "netVerify"]
                         ELSE AfterNetwork(made)
      <3>1. made \in Operation /\ [made EXCEPT !.pc = "netVerify"] \in Operation
        BY <2>1 DEF Operation, Locations, Provisioning
      <3>2. next \in Operation
        BY <3>1, ProvisioningFacts DEF Continues
      <3>3. EngineTypeOK'
        BY <2>1, <2>5, EngineTypes DEF NetworkCreate, NewModes, NetModes
      <3>4. Busy(c) /\ Reply(c, next)
        BY <2>5 DEF NetworkCreate, Busy, AtRest
      <3> QED BY <3>2, <3>3, <3>4, ReplyFacts
    <2>6. CASE NetworkVerify(c)
      <3>1. AfterNetwork(r) \in Operation /\ OnError(r) \in Operation
        BY <2>1, <2>6, ProvisioningFacts, OnErrorFacts
        DEF Continues, NetworkVerify, AtRest
      <3> QED BY <2>6, <3>1, OpTypes, EngineTypes DEF NetworkVerify
    <2>7. CASE VolumeInspect(c)
      <3>1. AfterVolume(r) \in Operation /\ [r EXCEPT !.pc = "volCreate"] \in Operation
        BY <2>1, <2>2, ProvisioningFacts DEF Continues, Locations, Provisioning
      <3> QED BY <2>7, <3>1, OpTypes, EngineTypes DEF VolumeInspect
    <2>8. CASE EnsureVolumeCreate(c)
      <3> DEFINE made == [r EXCEPT !.made = @ \cup {r.vol}]
                 next == IF r.vol = "data" THEN AfterVolume(r) ELSE AfterVolume(made)
      <3>1. made \in Operation
        BY <2>1 DEF Operation
      <3>2. next \in Operation
        BY <2>1, <3>1, ProvisioningFacts DEF Continues
      <3>3. EngineTypeOK'
        BY <2>1, <2>8, EngineTypes DEF EnsureVolumeCreate
      <3>4. Busy(c) /\ Reply(c, next)
        BY <2>8 DEF EnsureVolumeCreate, Busy, AtRest
      <3> QED BY <3>2, <3>3, <3>4, ReplyFacts
    <2>9. CASE ProxyCreate(c)
      <3> DEFINE next == [r EXCEPT !.pc = "proxyConnect", !.id = nextId]
      <3>1. next \in Operation
        BY <2>1 DEF Operation, Locations, Provisioning, EngineTypeOK
      <3>2. EngineTypeOK'
        BY <2>1, <2>9, EngineTypes, NamesAssumption DEF ProxyCreate
      <3>3. Busy(c) /\ Reply(c, next)
        BY <2>9 DEF ProxyCreate, Busy, AtRest
      <3> QED BY <3>1, <3>2, <3>3, ReplyFacts
    <2>10. CASE ProxyConnect(c)
      <3>1. [r EXCEPT !.pc = "proxyStart"] \in Operation
        BY <2>2 DEF Locations, Provisioning
      <3> QED BY <2>10, <3>1, OpTypes, EngineTypes DEF ProxyConnect
    <2>11. CASE ProxyStart(c)
      <3> DEFINE next == [r EXCEPT !.pc = "waitCA"]
      <3>1. next \in Operation
        BY <2>2 DEF Locations, Provisioning
      <3>2. EngineTypeOK'
        BY <2>1, <2>11, EngineTypes DEF ProxyStart
      <3>3. Busy(c) /\ Reply(c, next)
        BY <2>11 DEF ProxyStart, Busy, AtRest
      <3> QED BY <3>1, <3>2, <3>3, ReplyFacts
    <2>12. CASE ProxyReady(c)
      <3> DEFINE up == [r EXCEPT !.proxy = TRUE, !.polls = 0]
      <3>1. /\ [r EXCEPT !.pc = "waitListen", !.polls = 0] \in Operation
            /\ up \in Operation
        BY <2>1, PollsType DEF Operation, Locations, Provisioning
      <3>2. AfterProxy(up) \in Operation
        BY <3>1, ProvisioningFacts DEF Continues
      <3> QED BY <2>12, <3>1, <3>2, OpTypes, EngineTypes DEF ProxyReady
    <2>13. CASE ProxyNotReady(c)
      <3>1. r.polls + 1 \in 0 .. MaxPolls
        BY <2>1, <2>13, SandboxAssumption DEF ProxyNotReady, Operation
      <3>2. [r EXCEPT !.polls = @ + 1] \in Operation
        BY <2>1, <3>1 DEF Operation
      <3> QED BY <2>13, <3>2, OpTypes, EngineTypes DEF ProxyNotReady
    <2>14. CASE ProxyGiveUp(c)
      <3>1. OnError(r) \in Operation
        BY <2>1, <2>14, OnErrorFacts DEF Continues, ProxyGiveUp, AtRest
      <3> QED BY <2>14, <3>1, OpTypes, EngineTypes DEF ProxyGiveUp
    <2>15. CASE SandboxCreate(c)
      <3> DEFINE done == [r EXCEPT !.id = nextId]
      <3>1. done \in Operation
        BY <2>1 DEF Operation, EngineTypeOK
      <3>2. Return(done, "ok") \in Operation
        BY <3>1, ReturnFacts DEF Continues
      <3>3. EngineTypeOK'
        BY <2>1, <2>15, EngineTypes, NamesAssumption DEF SandboxCreate
      <3>4. Busy(c) /\ Reply(c, Return(done, "ok"))
        BY <2>15 DEF SandboxCreate, Busy, AtRest
      <3> QED BY <3>2, <3>3, <3>4, ReplyFacts
    <2> QED
      BY <1>3, <2>3, <2>4, <2>5, <2>6, <2>7, <2>8, <2>9, <2>10, <2>11, <2>12,
         <2>13, <2>14, <2>15 DEF CreateStep
  <1>4. ASSUME NEW c \in Callers, RemovalStep(c) PROVE TypeOK'
    <2> DEFINE r == op[c]
    <2>1. r \in Operation /\ r.name \in Names /\ r.vol \in VolKinds
      BY OpTypes DEF Operation
    <2>2. ASSUME r.pc \in Removals, Goto(c, AfterRemoval(r)) /\ NoFault, EngineTypeOK'
          PROVE  TypeOK'
      BY <2>1, <2>2, AfterRemovalFacts, OpTypes DEF Continues
    <2>3. CASE ProxyUndo(c)
      BY <2>2, <2>3, EngineTypes DEF ProxyUndo, Removals, Undo
    <2>4. CASE ProxyRemoval(c)
      BY <2>2, <2>4, EngineTypes DEF ProxyRemoval, Removals, RollbackCalls, DeleteCalls
    <2>5. CASE NetworkRemoval(c)
      <3>1. EngineTypeOK'
        BY <2>1, <2>5, EngineTypes DEF NetworkRemoval, NetModes
      <3> QED
        BY <2>2, <2>5, <3>1
        DEF NetworkRemoval, Removals, RollbackCalls, DeleteCalls, Undo
    <2>6. CASE VolumeRemoval(c)
      <3>1. EngineTypeOK'
        BY <2>1, <2>6, EngineTypes DEF VolumeRemoval
      <3> QED
        BY <2>2, <2>6, <3>1 DEF VolumeRemoval, Removals, RollbackCalls, DeleteCalls
    <2>7. CASE DeleteInspect(c)
      <3>1. PICK k \in ctrs :
               Goto(c, [r EXCEPT !.pc = "delCtr", !.name = k.name, !.want = k.mounts,
                                   !.labels = k.mounts])
        BY <2>7 DEF DeleteInspect
      <3>2. [r EXCEPT !.pc = "delCtr", !.name = k.name, !.want = k.mounts,
                      !.labels = k.mounts] \in Operation
        BY <2>1 DEF Operation, Locations, Removals, DeleteCalls, EngineTypeOK, Container
      <3> QED BY <2>7, <3>1, <3>2, OpTypes, EngineTypes DEF DeleteInspect
    <2>8. CASE DeleteContainer(c)
      BY <2>2, <2>8, EngineTypes DEF DeleteContainer, Removals, DeleteCalls
    <2> QED
      BY <1>4, <2>3, <2>4, <2>5, <2>6, <2>7, <2>8 DEF RemovalStep
  <1>5. ASSUME NEW c \in Callers, Rejected(c) \/ CallCancelled(c) \/ CallFails(c)
        PROVE  TypeOK'
    <2>1. op[c].pc \notin AtRest
      BY <1>5 DEF Rejected, Rejects, CallCancelled, CallFails, Busy, AtRest
    <2>2. OnError(op[c]) \in Operation
      BY <2>1, OpTypes, OnErrorFacts DEF Continues
    <2>3. op' \in [Callers -> Operation] /\ EngineTypeOK'
      BY <1>5, <2>2, OpTypes, EngineTypes DEF Rejected, CallCancelled, CallFails, engine
    <2>4. faults' \in Nat /\ spoiled' \subseteq Names
      BY <1>5, OpTypes DEF Rejected, CallCancelled, CallFails
    <2> QED BY <2>3, <2>4
  <1>6. ASSUME NEW c \in Callers, Cancel(c) \/ Crash(c) PROVE TypeOK'
    <2>1. CASE Cancel(c)
      <3>0. op[c] \in Operation /\ op \in [Callers -> Operation]
        BY OpTypes DEF TypeOK
      <3>1. op' \in [Callers -> Operation]
        <4>1. [op[c] EXCEPT !.live = FALSE] \in Operation
          BY <3>0 DEF Operation
        <4>2. op' = [op EXCEPT ![c] = [op[c] EXCEPT !.live = FALSE]]
          BY <2>1 DEF Cancel
        <4> QED BY <3>0, <4>1, <4>2
      <3> QED BY <2>1, <3>1, OpTypes, EngineTypes DEF Cancel, engine
    <2>2. CASE Crash(c)
      BY <2>2, IdleType, OpTypes, EngineTypes DEF Crash
    <2> QED BY <1>6, <2>1, <2>2
  <1> QED
    BY <1>1, <1>2, <1>3, <1>4, <1>5, <1>6 DEF Next, DriverStep

\* The lifecycle never leaves its types, whatever the engine and the callers do.
THEOREM TypeCorrect == Spec => []TypeOK
  <1>1. Init => TypeOK
    BY IdleType
    DEF Init, TypeOK, EngineInit, EngineTypeOK, NetModes
  <1> QED BY <1>1, TypeOKStep, PTL DEF Spec

-----------------------------------------------------------------------------
(* Identity: what an id or a name stands for.                               *)

\* Each engine call preserves the identity of containers, and what the holders
\* of an id may rely on.
LEMMA EngineIdentity ==
    ASSUME TypeOK, CtrIdentity
    PROVE  /\ \A n \in Names, w \in SUBSET VolKinds :
                 \/ /\ NameFree(SandboxName[n])
                    /\ ContainerCreate(SandboxName[n], "sandbox", n, w)
                 \/ /\ NameFree(ProxyName[n])
                    /\ ContainerCreate(ProxyName[n], "proxy", n, w)
                 => CtrIdentity' /\ \A r \in Operation : HoldsOwn(r) => HoldsOwn(r)'
           /\ \A i \in Nat, b \in BOOLEAN :
                 SetRunning(i, b) =>
                     CtrIdentity' /\ \A r \in Operation : HoldsOwn(r) => HoldsOwn(r)'
           /\ ctrs' \subseteq ctrs /\ nextId' = nextId =>
                 CtrIdentity' /\ \A r \in Operation : HoldsOwn(r) => HoldsOwn(r)'
  <1> USE DEF TypeOK, EngineTypeOK
  <1>1. ASSUME NEW n \in Names, NEW w \in SUBSET VolKinds,
               NEW x \in {"sandbox", "proxy"}, NEW cn,
               x = "sandbox" => cn = SandboxName[n],
               x = "proxy" => cn = ProxyName[n],
               NameFree(cn), ContainerCreate(cn, x, n, w)
        PROVE  CtrIdentity' /\ \A r \in Operation : HoldsOwn(r) => HoldsOwn(r)'
    <2> DEFINE new == [cname |-> cn, id |-> nextId, role |-> x, name |-> n,
                       mounts |-> w, running |-> FALSE]
    <2>1. /\ ctrs' = ctrs \cup {new}
          /\ nextId' = nextId + 1
          /\ new.id = nextId /\ new.cname = cn /\ new.role = x /\ new.name = n
      BY <1>1 DEF ContainerCreate
    <2>2. \A k \in ctrs : k.id \in Nat /\ k.id < nextId /\ k.cname # cn
      BY <1>1 DEF CtrIdentity, NameFree, Container
    <2> HIDE DEF new
    <2>3. CtrIdentity'
      BY <1>1, <2>1, <2>2 DEF CtrIdentity
    <2>4. ASSUME NEW r \in Operation, HoldsOwn(r) PROVE HoldsOwn(r)'
      <3>1. r.id \in Nat /\ r.id < nextId
        BY <2>4 DEF HoldsOwn, Operation
      <3> QED BY <2>1, <2>4, <3>1 DEF HoldsOwn
    <2> QED BY <2>3, <2>4
  <1>2. ASSUME NEW i \in Nat, NEW b \in BOOLEAN, SetRunning(i, b)
        PROVE  CtrIdentity' /\ \A r \in Operation : HoldsOwn(r) => HoldsOwn(r)'
    <2> DEFINE f(k) == IF k.id = i THEN [k EXCEPT !.running = b] ELSE k
    <2>1. ctrs' = {f(k) : k \in ctrs} /\ nextId' = nextId
      BY <1>2 DEF SetRunning
    <2>2. \A k \in ctrs : /\ f(k).id = k.id /\ f(k).cname = k.cname
                          /\ f(k).role = k.role /\ f(k).name = k.name
      BY DEF Container
    <2> HIDE DEF f
    <2>3. CtrIdentity'
      BY <2>1, <2>2 DEF CtrIdentity
    <2>4. ASSUME NEW r \in Operation, HoldsOwn(r) PROVE HoldsOwn(r)'
      BY <2>1, <2>2, <2>4 DEF HoldsOwn
    <2> QED BY <2>3, <2>4
  <1>3. ASSUME ctrs' \subseteq ctrs, nextId' = nextId
        PROVE  CtrIdentity' /\ \A r \in Operation : HoldsOwn(r) => HoldsOwn(r)'
    BY <1>3 DEF CtrIdentity, HoldsOwn
  <1>4. ASSUME NEW n \in Names, NEW w \in SUBSET VolKinds,
               \/ /\ NameFree(SandboxName[n])
                  /\ ContainerCreate(SandboxName[n], "sandbox", n, w)
               \/ /\ NameFree(ProxyName[n])
                  /\ ContainerCreate(ProxyName[n], "proxy", n, w)
        PROVE  CtrIdentity' /\ \A r \in Operation : HoldsOwn(r) => HoldsOwn(r)'
    <2>1. CASE /\ NameFree(SandboxName[n])
               /\ ContainerCreate(SandboxName[n], "sandbox", n, w)
      BY <1>1, <2>1
    <2>2. CASE /\ NameFree(ProxyName[n])
               /\ ContainerCreate(ProxyName[n], "proxy", n, w)
      BY <1>1, <2>2
    <2> QED BY <1>4, <2>1, <2>2
  <1> QED BY <1>2, <1>3, <1>4

\* If the engine's step preserves identity and the operation of c goes on with
\* a record that holds its own id, the invariant is preserved.
LEMMA IdentityGoto ==
    ASSUME TypeOK, Identity, NEW c \in Callers, NEW s, Goto(c, s),
           CtrIdentity', \A r \in Operation : HoldsOwn(r) => HoldsOwn(r)',
           HoldsOwn(s)'
    PROVE  Identity'
  <1>1. ASSUME NEW d \in Callers PROVE HoldsOwn(op[d])'
    <2>1. CASE d = c
      BY <2>1 DEF Goto, TypeOK, HoldsOwn
    <2>2. CASE d # c
      <3>1. op'[d] = op[d] /\ op[d] \in Operation /\ HoldsOwn(op[d])
        BY <2>2 DEF Goto, TypeOK, Identity
      <3> QED BY <3>1 DEF HoldsOwn
    <2> QED BY <2>1, <2>2
  <1> QED BY <1>1 DEF Identity

\* Going on with the same operation keeps the id it holds.
LEMMA ContinuesHolds ==
    ASSUME TypeOK, Identity, NEW c \in Callers, NEW s,
           Continues(op[c], s), KeepsHold(op[c], s),
           \A r \in Operation : HoldsOwn(r) => HoldsOwn(r)'
    PROVE  HoldsOwn(s)'
  <1>1. HoldsOwn(op[c]) /\ op[c] \in Operation
    BY DEF Identity, TypeOK
  <1>2. HoldsOwn(s)
    BY <1>1 DEF HoldsOwn, Continues, KeepsHold
  <1> QED BY <1>2 DEF Continues

\* An error never makes an operation hold an id it did not hold.
LEMMA ErrorContinues ==
    ASSUME TypeOK, NEW c \in Callers, Busy(c)
    PROVE  /\ Continues(op[c], OnError(op[c]))
           /\ KeepsHold(op[c], OnError(op[c]))
  BY OpTypes, OnErrorFacts
  DEF Busy, KeepsHold, HoldsProxy, HoldsTarget, RollbackCalls, DeleteCalls, Operation

\* Every step preserves Identity.
LEMMA IdentityStep == TypeOK /\ Identity /\ [Next]_vars => Identity'
  <1> SUFFICES ASSUME TypeOK, Identity, [Next]_vars PROVE Identity'
    OBVIOUS
  <1> USE DEF Identity
  <1>0. \A c \in Callers : op[c] \in Operation /\ op[c].name \in Names
    BY OpTypes
  <1>1. CASE UNCHANGED vars
    BY <1>1 DEF vars, CtrIdentity, HoldsOwn
  \* Steps that create no container, and go on with the same operation.
  <1>2. ASSUME NEW c \in Callers, NEW t, Goto(c, t), Continues(op[c], t),
               KeepsHold(op[c], t),
               \/ ctrs' \subseteq ctrs /\ nextId' = nextId
               \/ SetRunning(op[c].id, TRUE)
        PROVE  Identity'
    <2>1. CtrIdentity' /\ \A r \in Operation : HoldsOwn(r) => HoldsOwn(r)'
      BY <1>0, <1>2, EngineIdentity DEF Operation
    <2>2. HoldsOwn(t)'
      BY <1>2, <2>1, ContinuesHolds
    <2> QED BY <1>2, <2>1, <2>2, IdentityGoto
  <1>3. ASSUME NEW c \in Callers, Begin(c) PROVE Identity'
    <2>1. ASSUME NEW n \in Names, NEW w \in Wants, CreateBegin(c, n, w)
          PROVE  Identity'
      <3> DEFINE t == [Idle EXCEPT !.pc = "check", !.call = "create", !.name = n,
                                   !.want = w]
      <3>1. t.id = 0 /\ t.pc = "check" /\ t.call = "create"
        BY DEF Idle
      <3> HIDE DEF t
      <3>2. ctrs' \subseteq ctrs /\ nextId' = nextId /\ ctrs' = ctrs /\ Goto(c, t)
        BY <2>1 DEF CreateBegin, engine, t
      <3>3. HoldsOwn(t)'
        BY <3>1, <3>2 DEF HoldsOwn, CtrIdentity, HoldsProxy, HoldsTarget
      <3> QED BY <3>2, <3>3, EngineIdentity, IdentityGoto
    <2>2. ASSUME NEW k \in Sandboxes, DeleteBegin(c, k) PROVE Identity'
      <3> DEFINE t == [Idle EXCEPT !.pc = "delInspect", !.call = "delete",
                                   !.name = k.name, !.id = k.id]
      <3>1. t.id = k.id /\ t.pc = "delInspect" /\ t.name = k.name
        BY DEF Idle
      <3> HIDE DEF t
      <3>2. ctrs' \subseteq ctrs /\ nextId' = nextId /\ ctrs' = ctrs /\ Goto(c, t)
        BY <2>2 DEF DeleteBegin, engine, t
      <3>3. k \in ctrs /\ k.role = "sandbox"
        BY DEF Sandboxes
      <3>4. HoldsOwn(t)'
        BY <3>1, <3>2, <3>3 DEF HoldsOwn, CtrIdentity, HoldsProxy, HoldsTarget
      <3> QED BY <3>2, <3>4, EngineIdentity, IdentityGoto
    <2>3. ASSUME NEW k \in Sandboxes, Start(c, k) \/ Stop(c, k) PROVE Identity'
      <3>1. k.id \in Nat
        BY DEF Sandboxes, TypeOK, EngineTypeOK, Container
      <3>2. CtrIdentity' /\ \A r \in Operation : HoldsOwn(r) => HoldsOwn(r)'
        BY <2>3, <3>1, EngineIdentity DEF Start, Stop
      <3>3. op' = op
        BY <2>3 DEF Start, Stop
      <3> QED BY <1>0, <3>2, <3>3 DEF HoldsOwn
    <2> QED BY <1>3, <2>1, <2>2, <2>3 DEF Begin
  <1>4. ASSUME NEW c \in Callers, CreateStep(c) PROVE Identity'
    <2> DEFINE r == op[c]
    <2>1. r \in Operation /\ r.name \in Names /\ r.want \in SUBSET VolKinds
      BY <1>0 DEF Operation
    <2>2. ASSUME Busy(c), Goto(c, OnError(r)),
                 \/ ctrs' \subseteq ctrs /\ nextId' = nextId
                 \/ SetRunning(r.id, TRUE)
          PROVE  Identity'
      BY <1>2, <2>2, ErrorContinues
    <2>3. CASE CheckExisting(c)
      <3>1. \A t \in {Return(r, "err"), [r EXCEPT !.pc = "netInspect"]} :
              Continues(r, t) /\ KeepsHold(r, t)
        BY <2>1, ReturnFacts
        DEF Continues, KeepsHold, HoldsProxy, HoldsTarget, Operation, Locations,
            Provisioning
      <3> QED BY <1>2, <2>3, <3>1 DEF CheckExisting, engine
    <2>4. CASE NetworkInspect(c)
      <3>1. \A t \in {Return(r, "err"), [r EXCEPT !.pc = "netCreate"],
                      [r EXCEPT !.pc = "netVerify"], AfterNetwork(r)} :
              Continues(r, t) /\ KeepsHold(r, t)
        BY <2>1, ReturnFacts, ProvisioningFacts
        DEF Continues, KeepsHold, HoldsProxy, HoldsTarget, Operation, Locations,
            Provisioning
      <3> QED BY <1>2, <2>4, <3>1 DEF NetworkInspect, engine
    <2>5. CASE NetworkCreate(c)
      <3> DEFINE made == [r EXCEPT !.net = TRUE]
                 next == IF Native /\ Proxied(r) THEN [made EXCEPT !.pc = "netVerify"]
                         ELSE AfterNetwork(made)
      <3>1. made \in Operation /\ Continues(r, made)
        BY <2>1 DEF Operation, Continues
      <3>2. Continues(made, next) /\ KeepsHold(r, next)
        <4>1. CASE Native /\ Proxied(r)
          BY <3>1, <4>1
          DEF Continues, KeepsHold, HoldsProxy, HoldsTarget, Operation, Locations,
              Provisioning
        <4>2. CASE ~(Native /\ Proxied(r))
          <5>1. next = AfterNetwork(made)
            BY <4>2
          <5> HIDE DEF made, next
          <5> QED
            BY <3>1, <5>1, ProvisioningFacts DEF Continues, KeepsHold, HoldsProxy, HoldsTarget
        <4> QED BY <4>1, <4>2
      <3>3. Continues(r, next)
        BY <3>1, <3>2 DEF Continues
      <3>4. Busy(c) /\ Reply(c, next) /\ ctrs' \subseteq ctrs /\ nextId' = nextId
        BY <2>5 DEF NetworkCreate, NetworkSet, Busy, AtRest
      <3>5. Goto(c, next) \/ Goto(c, OnError(r))
        BY <3>4 DEF Reply
      <3> QED BY <1>2, <2>2, <3>2, <3>3, <3>4, <3>5
    <2>6. CASE NetworkVerify(c)
      <3>1. Continues(r, AfterNetwork(r)) /\ KeepsHold(r, AfterNetwork(r))
        BY <2>1, ProvisioningFacts DEF HoldsProxy, HoldsTarget, KeepsHold
      <3>2. Busy(c) /\ ctrs' \subseteq ctrs /\ nextId' = nextId
        BY <2>6 DEF NetworkVerify, engine, Busy, AtRest
      <3> QED BY <1>2, <2>2, <2>6, <3>1, <3>2 DEF NetworkVerify
    <2>7. CASE VolumeInspect(c)
      <3>1. \A t \in {AfterVolume(r), [r EXCEPT !.pc = "volCreate"]} :
              Continues(r, t) /\ KeepsHold(r, t)
        BY <2>1, ProvisioningFacts
        DEF Continues, KeepsHold, HoldsProxy, HoldsTarget, Operation, Locations,
            Provisioning
      <3> QED BY <1>2, <2>7, <3>1 DEF VolumeInspect, engine
    <2>8. CASE EnsureVolumeCreate(c)
      <3> DEFINE made == [r EXCEPT !.made = @ \cup {r.vol}]
                 next == IF r.vol = "data" THEN AfterVolume(r) ELSE AfterVolume(made)
      <3>1. made \in Operation /\ Continues(r, made)
        BY <2>1 DEF Operation, Continues
      <3>2. Continues(r, next) /\ KeepsHold(r, next)
        BY <2>1, <3>1, ProvisioningFacts DEF Continues, HoldsProxy, HoldsTarget, KeepsHold
      <3>3. Busy(c) /\ Reply(c, next) /\ ctrs' \subseteq ctrs /\ nextId' = nextId
        BY <2>8 DEF EnsureVolumeCreate, VolumeCreate, Busy, AtRest
      <3>4. Goto(c, next) \/ Goto(c, OnError(r))
        BY <3>3 DEF Reply
      <3> QED BY <1>2, <2>2, <3>2, <3>3, <3>4
    <2>9. CASE ProxyCreate(c)
      <3> DEFINE t == [r EXCEPT !.pc = "proxyConnect", !.id = nextId]
      <3>1. t.id = nextId /\ t.pc = "proxyConnect" /\ t.name = r.name
        BY <2>1 DEF Operation
      <3>2. CtrIdentity' /\ \A q \in Operation : HoldsOwn(q) => HoldsOwn(q)'
        BY <2>1, <2>9, EngineIdentity DEF ProxyCreate
      <3>3. Busy(c) /\ Reply(c, t)
        BY <2>9 DEF ProxyCreate, Busy, AtRest
      <3>5. ASSUME NEW u, u.id = nextId, u.pc = "proxyConnect", u.name = r.name, Goto(c, u)
            PROVE  Identity'
        <4>1. \A k \in ctrs : k.id < nextId /\ k.id \in Nat
          BY DEF CtrIdentity, TypeOK, EngineTypeOK, Container
        <4>2. /\ \A k \in ctrs' :
                    k \in ctrs \/ (k.id = nextId /\ k.role = "proxy" /\ k.name = r.name)
              /\ nextId' = nextId + 1
          BY <2>9 DEF ProxyCreate, ContainerCreate
        <4>3. HoldsOwn(u)'
          BY <3>5, <4>1, <4>2 DEF HoldsOwn, HoldsTarget, TypeOK, EngineTypeOK
        <4> QED BY <3>2, <3>5, <4>3, IdentityGoto
      <3>6. CASE Goto(c, t)
        BY <3>1, <3>5, <3>6
      <3>7. CASE Goto(c, OnError(r))
        BY <3>2, <3>3, <3>7, ErrorContinues, ContinuesHolds, IdentityGoto
      <3> QED BY <3>3, <3>6, <3>7 DEF Reply
    <2>10. CASE ProxyConnect(c)
      <3>1. /\ Continues(r, [r EXCEPT !.pc = "proxyStart"])
            /\ KeepsHold(r, [r EXCEPT !.pc = "proxyStart"])
        BY <2>1, <2>10
        DEF ProxyConnect, Continues, KeepsHold, HoldsProxy, HoldsTarget, Operation,
            Locations, Provisioning
      <3> QED BY <1>2, <2>10, <3>1 DEF ProxyConnect, engine
    <2>11. CASE ProxyStart(c)
      <3>1. /\ Continues(r, [r EXCEPT !.pc = "waitCA"])
            /\ KeepsHold(r, [r EXCEPT !.pc = "waitCA"])
        BY <2>1, <2>11
        DEF ProxyStart, Continues, KeepsHold, HoldsProxy, HoldsTarget, Operation,
            Locations, Provisioning
      <3>2. Busy(c) /\ SetRunning(r.id, TRUE) /\ Reply(c, [r EXCEPT !.pc = "waitCA"])
        BY <2>11 DEF ProxyStart, Busy, AtRest
      <3> QED BY <1>2, <2>2, <3>1, <3>2 DEF Reply
    <2>12. CASE ProxyReady(c)
      <3> DEFINE up == [r EXCEPT !.proxy = TRUE, !.polls = 0]
                 listen == [r EXCEPT !.pc = "waitListen", !.polls = 0]
      <3>1. Continues(r, listen) /\ Continues(r, up) /\ KeepsHold(r, listen)
        BY <2>1, <2>12, PollsType
        DEF ProxyReady, Continues, KeepsHold, HoldsProxy, HoldsTarget, Operation,
            Locations, Provisioning
      <3>2. Continues(r, AfterProxy(up)) /\ KeepsHold(r, AfterProxy(up))
        BY <3>1, ProvisioningFacts DEF Continues, KeepsHold, HoldsProxy, HoldsTarget
      <3> QED BY <1>2, <2>12, <3>1, <3>2 DEF ProxyReady, engine
    <2>13. CASE ProxyNotReady(c)
      <3> DEFINE t == [r EXCEPT !.polls = @ + 1]
      <3>1. r.polls + 1 \in 0 .. MaxPolls
        BY <2>1, <2>13, SandboxAssumption DEF ProxyNotReady, Operation
      <3>2. Continues(r, t) /\ KeepsHold(r, t)
        BY <2>1, <2>13, <3>1 DEF ProxyNotReady, Continues, KeepsHold, Operation
      <3> QED BY <1>2, <2>13, <3>2 DEF ProxyNotReady, engine
    <2>14. CASE ProxyGiveUp(c)
      BY <2>2, <2>14 DEF ProxyGiveUp, engine, Busy, AtRest
    <2>15. CASE SandboxCreate(c)
      <3> DEFINE done == [r EXCEPT !.id = nextId]
                 t == Return(done, "ok")
      <3>1. done \in Operation /\ done.id = nextId
        BY <2>1 DEF Operation, TypeOK, EngineTypeOK
      <3>2. t.id = nextId /\ t.pc = "ok"
        BY <3>1, ReturnFacts DEF Continues
      <3>3. CtrIdentity' /\ \A q \in Operation : HoldsOwn(q) => HoldsOwn(q)'
        BY <2>1, <2>15, EngineIdentity DEF SandboxCreate
      <3>4. Busy(c) /\ Reply(c, t)
        BY <2>15 DEF SandboxCreate, Busy, AtRest
      <3>6. ASSUME NEW u, u.id = nextId, u.pc = "ok", Goto(c, u)
            PROVE  Identity'
        <4>1. nextId' = nextId + 1
          BY <2>15 DEF SandboxCreate, ContainerCreate
        <4>2. HoldsOwn(u)'
          BY <3>6, <4>1 DEF HoldsOwn, HoldsProxy, HoldsTarget, TypeOK, EngineTypeOK
        <4> QED BY <3>3, <3>6, <4>2, IdentityGoto
      <3>7. CASE Goto(c, t)
        BY <3>2, <3>6, <3>7
      <3>8. CASE Goto(c, OnError(r))
        BY <3>3, <3>4, <3>8, ErrorContinues, ContinuesHolds, IdentityGoto
      <3> QED BY <3>4, <3>7, <3>8 DEF Reply
    <2> QED
      BY <1>4, <2>3, <2>4, <2>5, <2>6, <2>7, <2>8, <2>9, <2>10, <2>11, <2>12,
         <2>13, <2>14, <2>15 DEF CreateStep
  <1>5. ASSUME NEW c \in Callers, RemovalStep(c) PROVE Identity'
    <2> DEFINE r == op[c]
    <2>1. CASE \/ ProxyUndo(c) \/ ProxyRemoval(c) \/ NetworkRemoval(c)
               \/ VolumeRemoval(c) \/ DeleteContainer(c)
      <3>1. r.pc \in Removals /\ Goto(c, AfterRemoval(r))
        BY <2>1
        DEF ProxyUndo, ProxyRemoval, NetworkRemoval, VolumeRemoval, DeleteContainer,
            Removals, Undo, RollbackCalls, DeleteCalls
      <3>2. Continues(r, AfterRemoval(r)) /\ KeepsHold(r, AfterRemoval(r))
        BY <1>0, <3>1, AfterRemovalFacts
        DEF KeepsHold, HoldsProxy, HoldsTarget, RollbackCalls, DeleteCalls
      <3>3. ctrs' \subseteq ctrs /\ nextId' = nextId
        BY <2>1
        DEF ProxyUndo, ProxyRemoval, NetworkRemoval, VolumeRemoval, DeleteContainer,
            ContainerRemove, NetworkSet, VolumeRemove, engine
      <3> QED BY <1>2, <3>1, <3>2, <3>3
    <2>2. CASE DeleteInspect(c)
      <3>1. PICK k \in ctrs :
               /\ k.id = r.id
               /\ Goto(c, [r EXCEPT !.pc = "delCtr", !.name = k.name, !.want = k.mounts,
                                   !.labels = k.mounts])
        BY <2>2 DEF DeleteInspect
      <3> DEFINE t == [r EXCEPT !.pc = "delCtr", !.name = k.name, !.want = k.mounts,
                                !.labels = k.mounts]
      <3>2. k.name = r.name
        BY <2>2, <3>1 DEF DeleteInspect, HoldsOwn, HoldsTarget
      <3>3. k.mounts \in SUBSET VolKinds
        BY <1>0 DEF TypeOK, EngineTypeOK, Container
      <3>4. r \in Operation /\ r.pc = "delInspect"
        BY <1>0, <2>2 DEF DeleteInspect
      <3>5. "delCtr" \in Locations
        BY DEF Locations, Removals, DeleteCalls
      <3>6. Continues(r, t)
        BY <3>2, <3>3, <3>4, <3>5 DEF Continues, Operation
      <3>7. t.pc = "delCtr"
        BY <3>4 DEF Operation
      <3>8. KeepsHold(r, t)
        BY <3>4, <3>7 DEF KeepsHold, HoldsProxy, HoldsTarget
      <3> QED BY <1>2, <2>2, <3>1, <3>6, <3>8 DEF DeleteInspect, engine
    <2> QED BY <1>5, <2>1, <2>2 DEF RemovalStep
  <1>6. ASSUME NEW c \in Callers, Rejected(c) \/ CallCancelled(c) \/ CallFails(c)
        PROVE  Identity'
    <2>1. Busy(c) /\ Goto(c, OnError(op[c])) /\ ctrs' \subseteq ctrs /\ nextId' = nextId
      BY <1>6 DEF Rejected, Rejects, CallCancelled, CallFails, Busy, AtRest, engine
    <2> QED BY <1>2, <2>1, ErrorContinues
  <1>7. ASSUME NEW c \in Callers, Cancel(c) PROVE Identity'
    <2> DEFINE t == [op[c] EXCEPT !.live = FALSE]
    <2>1. Goto(c, t)
      BY <1>7 DEF Cancel, Goto
    <2>2. Continues(op[c], t) /\ KeepsHold(op[c], t)
      BY <1>0 DEF Continues, KeepsHold, Operation
    <2> QED BY <1>2, <1>7, <2>1, <2>2 DEF Cancel, engine
  <1>8. ASSUME NEW c \in Callers, Crash(c) PROVE Identity'
    <2>1. Goto(c, Idle) /\ ctrs' = ctrs /\ nextId' = nextId
      BY <1>8 DEF Crash, engine
    <2>2. Idle.id = 0 /\ Idle.pc = "idle" /\ Idle.call = "none"
      BY DEF Idle
    <2>3. HoldsOwn(Idle)'
      BY <2>1, <2>2 DEF HoldsOwn, CtrIdentity, HoldsProxy, HoldsTarget, KeepsHold
    <2> QED BY <2>1, <2>3, EngineIdentity, IdentityGoto
  <1> QED
    BY <1>1, <1>3, <1>4, <1>5, <1>6, <1>7, <1>8 DEF Next, DriverStep

\* Identity holds in every reachable state.
THEOREM IdentityInvariant == Spec => []Identity
  <1>1. Init => Identity
    <2> SUFFICES ASSUME Init PROVE Identity
      OBVIOUS
    <2>1. Idle.id = 0
      BY DEF Idle
    <2> QED BY <2>1 DEF Init, EngineInit, Identity, CtrIdentity, HoldsOwn
  <1> QED BY <1>1, IdentityStep, TypeCorrect, PTL DEF Spec

-----------------------------------------------------------------------------
(* What a step can do to the set of containers.                             *)

\* The engine calls that touch containers, and where they are made.
CtrEffect ==
    \/ ctrs' = ctrs
    \/ \E n \in Names, w \in SUBSET VolKinds :
          \/ /\ NameFree(SandboxName[n])
             /\ ContainerCreate(SandboxName[n], "sandbox", n, w)
          \/ ContainerCreate(ProxyName[n], "proxy", n, w)
    \/ \E k \in Sandboxes, b \in BOOLEAN : SetRunning(k.id, b)
    \/ \E c \in Callers :
          \/ op[c].pc = "proxyStart" /\ SetRunning(op[c].id, TRUE)
          \/ op[c].pc = "proxyUndo" /\ ctrs' = ctrs \ {k \in ctrs : k.id = op[c].id}
          \/ ctrs' = ctrs \ {k \in ctrs : k.cname = ProxyName[op[c].name]}
          \/ op[c].pc = "delCtr" /\ ctrs' = ctrs \ {k \in ctrs : k.id = op[c].id}

\* Every step has one of these effects.
LEMMA CtrEffects == TypeOK /\ [Next]_vars => CtrEffect
  <1> SUFFICES ASSUME TypeOK, [Next]_vars PROVE CtrEffect
    OBVIOUS
  <1>1. CASE UNCHANGED vars
    BY <1>1 DEF vars, CtrEffect
  <1>2. ASSUME NEW c \in Callers, Begin(c) PROVE CtrEffect
    BY <1>2 DEF Begin, CreateBegin, DeleteBegin, Start, Stop, engine, CtrEffect
  <1>3. ASSUME NEW c \in Callers, CreateStep(c) PROVE CtrEffect
    <2>1. op[c].name \in Names /\ op[c].want \in SUBSET VolKinds
      BY OpTypes DEF Operation
    <2>2. CASE ProxyCreate(c)
      <3>1. ContainerCreate(ProxyName[op[c].name], "proxy", op[c].name, op[c].want \ {"data"})
        BY <2>2 DEF ProxyCreate
      <3> QED BY <2>1, <3>1 DEF CtrEffect
    <2>3. CASE SandboxCreate(c)
      <3>1. /\ NameFree(SandboxName[op[c].name])
            /\ ContainerCreate(SandboxName[op[c].name], "sandbox", op[c].name, op[c].want)
        BY <2>3 DEF SandboxCreate
      <3> QED BY <2>1, <3>1 DEF CtrEffect
    <2>4. CASE ProxyStart(c)
      BY <2>4 DEF ProxyStart, CtrEffect
    <2>5. CASE ~(ProxyCreate(c) \/ SandboxCreate(c) \/ ProxyStart(c))
      <3>1. ctrs' = ctrs
        BY <1>3, <2>5
        DEF CreateStep, CheckExisting, NetworkInspect, NetworkCreate, NetworkSet,
            NetworkVerify, VolumeInspect, EnsureVolumeCreate, VolumeCreate,
            ProxyConnect, ProxyReady, ProxyNotReady, ProxyGiveUp, engine
      <3> QED BY <3>1 DEF CtrEffect
    <2> QED BY <2>2, <2>3, <2>4, <2>5
  <1>4. ASSUME NEW c \in Callers, RemovalStep(c) PROVE CtrEffect
    BY <1>4
    DEF RemovalStep, ProxyUndo, ProxyRemoval, NetworkRemoval, VolumeRemoval,
        DeleteInspect, DeleteContainer, ContainerRemove, NetworkSet, VolumeRemove,
        engine, CtrEffect
  <1>5. ASSUME NEW c \in Callers,
               \/ Rejected(c) \/ CallCancelled(c) \/ CallFails(c)
               \/ Cancel(c) \/ Crash(c)
        PROVE  CtrEffect
    BY <1>5 DEF Rejected, CallCancelled, CallFails, Cancel, Crash, engine, CtrEffect
  <1> QED
    BY <1>1, <1>2, <1>3, <1>4, <1>5 DEF Next, DriverStep

\* With distinct container names, no step but a Delete's removal of its target
\* makes a sandbox container disappear, and starting or stopping one keeps it.
LEMMA SandboxesPersist ==
    ASSUME TypeOK, Identity, NoNameClash, [Next]_vars, NEW k \in Sandboxes
    PROVE  \/ \E j \in ctrs' : j.id = k.id /\ j.role = "sandbox" /\ j.name = k.name
           \/ \E c \in Callers : op[c].pc = "delCtr" /\ op[c].id = k.id
  <1>0. k \in ctrs /\ k.role = "sandbox" /\ k.name \in Names /\ k.id \in Nat
    BY DEF Sandboxes, TypeOK, EngineTypeOK, Container
  <1>1. CASE k \in ctrs'
    BY <1>0, <1>1
  <1>2. ASSUME NEW i, NEW b \in BOOLEAN, SetRunning(i, b)
        PROVE  \E j \in ctrs' : j.id = k.id /\ j.role = "sandbox" /\ j.name = k.name
    <2> DEFINE f(x) == IF x.id = i THEN [x EXCEPT !.running = b] ELSE x
    <2>1. f(k) \in ctrs'
      BY <1>0, <1>2 DEF SetRunning
    <2>2. f(k).id = k.id /\ f(k).role = k.role /\ f(k).name = k.name
      BY <1>0 DEF TypeOK, EngineTypeOK, Container
    <2> HIDE DEF f
    <2> QED BY <1>0, <2>1, <2>2
  <1>3. ASSUME NEW c \in Callers, op[c].pc = "proxyUndo",
               ctrs' = ctrs \ {x \in ctrs : x.id = op[c].id}
        PROVE  k \in ctrs'
    BY <1>0, <1>3 DEF Identity, HoldsOwn, HoldsProxy
  <1>4. ASSUME NEW c \in Callers,
               ctrs' = ctrs \ {x \in ctrs : x.cname = ProxyName[op[c].name]}
        PROVE  k \in ctrs'
    <2>1. k.cname = SandboxName[k.name] /\ op[c].name \in Names
      BY <1>0, OpTypes DEF Identity, CtrIdentity
    <2> QED BY <1>0, <1>4, <2>1 DEF NoNameClash
  <1>5. ASSUME NEW c \in Callers, op[c].pc = "delCtr",
               ctrs' = ctrs \ {x \in ctrs : x.id = op[c].id}
        PROVE  k \in ctrs' \/ op[c].id = k.id
    BY <1>0, <1>5
  <1>6. ASSUME NEW cn, NEW x, NEW n, NEW w, ContainerCreate(cn, x, n, w)
        PROVE  k \in ctrs'
    BY <1>0, <1>6 DEF ContainerCreate
  <1>7. CtrEffect
    BY CtrEffects
  <1> QED BY <1>0, <1>1, <1>2, <1>3, <1>4, <1>5, <1>6, <1>7 DEF CtrEffect

\* Under any interleaving and any faults, and as long as no sandbox is named so
\* that its container takes a sidecar's name, a sandbox container disappears
\* only when a Delete of that container removes it.
THEOREM OnlyDeleteRemovesThm == NoNameClash => (Spec => OnlyDeleteRemoves)
  <1> SUFFICES ASSUME NoNameClash PROVE Spec => OnlyDeleteRemoves
    OBVIOUS
  <1>1. TypeOK /\ Identity /\ [Next]_vars =>
          [\A k \in Sandboxes :
             (\A j \in ctrs' : j.id # k.id) =>
                 \E c \in Callers : op[c].pc = "delCtr" /\ op[c].id = k.id]_vars
    BY SandboxesPersist
  <1> QED BY <1>1, TypeCorrect, IdentityInvariant, PTL DEF Spec, OnlyDeleteRemoves

-----------------------------------------------------------------------------
(* The lifecycle implements the service.                                    *)

Box(k) == [id |-> k.id, name |-> k.name, running |-> k.running]

\* Every step of the lifecycle is a step of the service or leaves it unchanged.
LEMMA ServiceStep ==
    ASSUME TypeOK, Identity, NoNameClash, [Next]_vars
    PROVE  [Service!Next]_Boxes
  <1> USE DEF TypeOK, EngineTypeOK
  <1>0. /\ Boxes = {Box(k) : k \in Sandboxes}
        /\ Boxes' = {Box(k) : k \in {x \in ctrs' : x.role = "sandbox"}}
    BY DEF Boxes, Box, Sandboxes
  <1>a. \A k \in Sandboxes : k \in ctrs /\ k.role = "sandbox" /\ k \in Container
    BY DEF Sandboxes
  <1>b. \A j, k \in Sandboxes : Box(j) = Box(k) => j = k
    <2> SUFFICES ASSUME NEW j \in Sandboxes, NEW k \in Sandboxes, Box(j) = Box(k)
                 PROVE  j = k
      OBVIOUS
    <2>1. j.id = k.id
      BY DEF Box
    <2> QED BY <1>a, <2>1 DEF Identity, CtrIdentity
  <1>1. ASSUME {x \in ctrs' : x.role = "sandbox"} = Sandboxes PROVE UNCHANGED Boxes
    BY <1>0, <1>1
  <1>2. CASE ctrs' = ctrs
    BY <1>1, <1>2 DEF Sandboxes
  <1>3. ASSUME NEW n \in Names, NEW w \in SUBSET VolKinds,
               NameFree(SandboxName[n]),
               ContainerCreate(SandboxName[n], "sandbox", n, w)
        PROVE  Service!Provision
    <2> DEFINE new == [cname |-> SandboxName[n], id |-> nextId, role |-> "sandbox",
                       name |-> n, mounts |-> w, running |-> FALSE]
    <2>1. ctrs' = ctrs \cup {new}
      BY <1>3 DEF ContainerCreate
    <2>2. {x \in ctrs' : x.role = "sandbox"} = Sandboxes \cup {new}
      BY <2>1 DEF Sandboxes
    <2>3. Boxes' = Boxes \cup {Box(new)}
      BY <1>0, <2>2
    <2>4. Box(new).id = nextId /\ Box(new).name = n /\ Box(new).running = FALSE
      BY DEF Box
    <2>5. ASSUME NEW k \in Sandboxes PROVE Box(k).name # n /\ Box(k).id # nextId
      <3>1. Box(k).name = k.name /\ Box(k).id = k.id
        BY DEF Box
      <3>2. k.id < nextId /\ k.id \in Nat /\ k.cname = SandboxName[k.name]
        BY <1>a DEF Identity, CtrIdentity, Container
      <3>3. k.cname # SandboxName[n]
        BY <1>3, <1>a DEF NameFree
      <3> QED BY <3>1, <3>2, <3>3
    <2> HIDE DEF new
    <2>6. \A a \in Boxes : a.name # n /\ a.id # nextId
      BY <1>0, <2>5
    <2> QED BY <2>3, <2>4, <2>6 DEF Service!Provision
  <1>4. ASSUME NEW n \in Names, NEW w \in SUBSET VolKinds,
               ContainerCreate(ProxyName[n], "proxy", n, w)
        PROVE  UNCHANGED Boxes
    <2>1. {x \in ctrs' : x.role = "sandbox"} = Sandboxes
      BY <1>4 DEF ContainerCreate, Sandboxes
    <2> QED BY <1>1, <2>1
  <1>5. ASSUME NEW k \in Sandboxes, NEW b \in BOOLEAN, SetRunning(k.id, b)
        PROVE  Service!Switch(Box(k), b) /\ Box(k) \in Boxes
    <2> DEFINE f(x) == IF x.id = k.id THEN [x EXCEPT !.running = b] ELSE x
               g == [k EXCEPT !.running = b]
    <2>1. ctrs' = {f(x) : x \in ctrs}
      BY <1>5 DEF SetRunning
    <2>2. \A x \in ctrs : x # k => f(x) = x
      BY <1>a DEF Identity, CtrIdentity
    <2>3. f(k) = g
      OBVIOUS
    <2> HIDE DEF f
    <2>4. ctrs' = (ctrs \ {k}) \cup {g}
      BY <1>a, <2>1, <2>2, <2>3
    <2>5. g.role = "sandbox" /\ Box(g) = [Box(k) EXCEPT !.running = b]
      BY <1>a DEF Container, Box
    <2> HIDE DEF g
    <2>6. {x \in ctrs' : x.role = "sandbox"} = (Sandboxes \ {k}) \cup {g}
      BY <2>4, <2>5 DEF Sandboxes
    <2>7. {Box(x) : x \in Sandboxes \ {k}} = Boxes \ {Box(k)}
      BY <1>0, <1>b
    <2>8. Boxes' = (Boxes \ {Box(k)}) \cup {Box(g)}
      BY <1>0, <2>6, <2>7
    <2> QED BY <1>0, <2>5, <2>8 DEF Service!Switch
  <1>6. ASSUME NEW c \in Callers, op[c].pc = "proxyStart", SetRunning(op[c].id, TRUE)
        PROVE  UNCHANGED Boxes
    <2> DEFINE f(x) == IF x.id = op[c].id THEN [x EXCEPT !.running = TRUE] ELSE x
    <2>1. ctrs' = {f(x) : x \in ctrs}
      BY <1>6 DEF SetRunning
    <2>2. \A x \in ctrs : f(x).role = x.role
      BY DEF Container
    <2>3. \A x \in Sandboxes : f(x) = x
      BY <1>6, <1>a DEF Identity, HoldsOwn, HoldsProxy
    <2> HIDE DEF f
    <2>4. {x \in ctrs' : x.role = "sandbox"} = Sandboxes
      BY <2>1, <2>2, <2>3 DEF Sandboxes
    <2> QED BY <1>1, <2>4
  <1>7. ASSUME NEW c \in Callers,
               \/ /\ op[c].pc = "proxyUndo"
                  /\ ctrs' = ctrs \ {k \in ctrs : k.id = op[c].id}
               \/ ctrs' = ctrs \ {k \in ctrs : k.cname = ProxyName[op[c].name]}
        PROVE  UNCHANGED Boxes
    <2>1. \A k \in Sandboxes : k.cname = SandboxName[k.name] /\ k.name \in Names
      BY <1>a DEF Identity, CtrIdentity, Container
    <2>2. op[c].name \in Names
      BY OpTypes
    <2>3. \A k \in Sandboxes : k \in ctrs'
      BY <1>7, <1>a, <2>1, <2>2 DEF Identity, HoldsOwn, HoldsProxy, NoNameClash
    <2>4. ctrs' \subseteq ctrs
      BY <1>7
    <2>5. {x \in ctrs' : x.role = "sandbox"} = Sandboxes
      BY <2>3, <2>4 DEF Sandboxes
    <2> QED BY <1>1, <2>5
  <1>8. ASSUME NEW c \in Callers, op[c].pc = "delCtr",
               ctrs' = ctrs \ {k \in ctrs : k.id = op[c].id}
        PROVE  [Service!Next]_Boxes
    <2>1. CASE \E k \in ctrs : k.id = op[c].id
      <3>1. PICK k \in ctrs : k.id = op[c].id
        BY <2>1
      <3>2. k \in Sandboxes
        BY <1>8, <3>1 DEF Identity, HoldsOwn, HoldsTarget, Sandboxes
      <3>3. ctrs' = ctrs \ {k}
        BY <1>8, <3>1 DEF Identity, CtrIdentity
      <3>4. {x \in ctrs' : x.role = "sandbox"} = Sandboxes \ {k}
        BY <3>3 DEF Sandboxes
      <3>5. Boxes' = Boxes \ {Box(k)} /\ Box(k) \in Boxes
        BY <1>0, <1>b, <3>2, <3>4
      <3> QED BY <3>5 DEF Service!Next, Service!Dispose
    <2>2. CASE \A k \in ctrs : k.id # op[c].id
      <3>1. ctrs' = ctrs
        BY <1>8, <2>2
      <3> QED BY <1>1, <3>1 DEF Sandboxes
    <2> QED BY <2>1, <2>2
  <1>9. CtrEffect
    BY CtrEffects
  <1> QED
    BY <1>2, <1>3, <1>4, <1>5, <1>6, <1>7, <1>8, <1>9 DEF CtrEffect, Service!Next

\* The lifecycle, with every engine call a step of its own, with callers that
\* overlap and with every fault of the model, implements the atomic service.
THEOREM Refinement == NoNameClash => (Spec => ImplementsService)
  <1> SUFFICES ASSUME NoNameClash PROVE Spec => ImplementsService
    OBVIOUS
  <1>1. Init => Service!Init
    BY DEF Init, EngineInit, Service!Init, Boxes, Sandboxes
  <1>2. TypeOK /\ Identity /\ [Next]_vars => [Service!Next]_Boxes
    BY ServiceStep
  <1> QED
    BY <1>1, <1>2, TypeCorrect, IdentityInvariant, PTL
    DEF Spec, ImplementsService, Service!Spec

-----------------------------------------------------------------------------
(* Confinement: the network of a proxied sandbox.                           *)

\* The operation t may be the one c runs: nobody else works on its sandbox, a
\* provisioning Create finds no sandbox, and one past ensureNetwork has the
\* network it needs.
Claim(c, t) ==
    /\ t.pc \notin AtRest =>
          \A d \in Callers : d # c /\ Busy(d) => op[d].name # t.name
    /\ t.pc \in Provisioning => \A k \in Sandboxes : k.name # t.name
    /\ t.pc \in NetworkEnsured /\ Proxied(t) => nets[t.name] = "isolated"

\* Networks stay, and no container appears, changes its labels or starts
\* without its network.
CalmEngine ==
    /\ nets' = nets
    /\ \A j \in ctrs' : \E k \in ctrs :
          /\ j.role = k.role /\ j.name = k.name /\ j.mounts = k.mounts
          /\ j.running => k.running \/ nets[k.name] # "none"

\* A step that leaves the networks alone preserves Confinement if the operation
\* it goes on with has a claim.
LEMMA ConfinementCalm ==
    ASSUME TypeOK, Confinement, NEW c \in Callers, NEW t, Goto(c, t), Claim(c, t),
           CalmEngine
    PROVE  Confinement'
  <1>1. op'[c] = t /\ \A d \in Callers : d # c => op'[d] = op[d]
    BY DEF Goto, TypeOK
  <1>2. \A x, y \in Callers :
           x # y /\ Busy(x)' /\ Busy(y)' => op'[x].name # op'[y].name
    BY <1>1 DEF Claim, Busy, Confinement
  <1>3. \A k \in ctrs' : k.running => nets'[k.name] # "none"
    BY DEF CalmEngine, Confinement
  <1>4. \A k \in Sandboxes' : "ca" \in k.mounts => nets'[k.name] \in {"none", "isolated"}
    BY DEF CalmEngine, Confinement, Sandboxes
  <1>5. ASSUME NEW d \in Callers, op'[d].pc \in Provisioning, NEW k \in Sandboxes'
        PROVE  k.name # op'[d].name
    <2>1. \E j \in Sandboxes : j.name = k.name
      BY DEF CalmEngine, Sandboxes
    <2> QED BY <1>1, <1>5, <2>1 DEF Claim, Confinement
  <1>6. ASSUME NEW d \in Callers, op'[d].pc \in NetworkEnsured, Proxied(op'[d])
        PROVE  nets'[op'[d].name] = "isolated"
    BY <1>1, <1>6 DEF Claim, Confinement, CalmEngine
  <1> QED BY <1>2, <1>3, <1>4, <1>5, <1>6 DEF Confinement

\* What c is running has a claim.
LEMMA OwnClaim ==
    ASSUME TypeOK, Confinement, NEW c \in Callers
    PROVE  Claim(c, op[c])
  BY DEF Claim, Confinement, Busy

\* t goes no further than r in provisioning.
Recedes(r, t) ==
    /\ t.name = r.name
    /\ t.pc \notin AtRest => r.pc \notin AtRest
    /\ t.pc \in Provisioning => r.pc \in Provisioning
    /\ t.pc \in NetworkEnsured => r.pc \in NetworkEnsured /\ t.want = r.want

\* Receding keeps the claim.
LEMMA RecedingClaim ==
    ASSUME NEW c, NEW r, NEW t, Claim(c, r), Recedes(r, t)
    PROVE  Claim(c, t)
  BY DEF Claim, Recedes, Proxied

\* Errors and removals make an operation recede.
LEMMA ErrorRecedes ==
    ASSUME NEW r \in Operation, r.pc \notin AtRest
    PROVE  Recedes(r, OnError(r)) /\ OnError(r).pc \notin NetworkEnsured \ {"volCreate"}
  BY OnErrorFacts
  DEF Recedes, Continues, AtRest, Provisioning, NetworkEnsured, RollbackCalls,
      DeleteCalls, Operation

\* So does a removal: it never resumes provisioning.
LEMMA RemovalRecedes ==
    ASSUME NEW r \in Operation, r.pc \in Removals
    PROVE  /\ Recedes(r, AfterRemoval(r))
           /\ AfterRemoval(r).pc \notin Provisioning \cup NetworkEnsured
  BY AfterRemovalFacts
  DEF Recedes, Continues, AtRest, Provisioning, NetworkEnsured, RollbackCalls,
      DeleteCalls, Removals, Undo

\* Every step of serialised callers preserves Confinement.
LEMMA ConfinementStep ==
    ASSUME Serialised
    PROVE  TypeOK /\ Identity /\ Confinement /\ [Next]_vars => Confinement'
  <1> SUFFICES ASSUME TypeOK, Identity, Confinement, [Next]_vars PROVE Confinement'
    OBVIOUS
  <1>0. \A c \in Callers : op[c] \in Operation /\ op[c].name \in Names
    BY OpTypes
  <1>a. ASSUME ctrs' \subseteq ctrs, nets' = nets PROVE CalmEngine
    BY <1>a DEF CalmEngine
  <1>b. ASSUME NEW i \in Nat, NEW b \in BOOLEAN, SetRunning(i, b), b => CanStart(i)
        PROVE  CalmEngine
    <2> DEFINE f(x) == IF x.id = i THEN [x EXCEPT !.running = b] ELSE x
    <2>1. ctrs' = {f(x) : x \in ctrs} /\ nets' = nets
      BY <1>b DEF SetRunning
    <2>2. ASSUME NEW x \in ctrs
          PROVE  /\ f(x).role = x.role /\ f(x).name = x.name /\ f(x).mounts = x.mounts
                 /\ f(x).running => x.running \/ nets[x.name] # "none"
      <3>1. x \in Container
        BY DEF TypeOK, EngineTypeOK
      <3>2. x.id = i /\ b => nets[x.name] # "none"
        BY <1>b DEF CanStart, Identity, CtrIdentity
      <3> QED BY <3>1, <3>2 DEF Container
    <2> HIDE DEF f
    <2> QED BY <2>1, <2>2 DEF CalmEngine
  <1>1. CASE UNCHANGED vars
    BY <1>1 DEF vars, Confinement, Busy, Sandboxes
  \* Steps that leave the engine calm and recede.
  <1>2. ASSUME NEW c \in Callers, NEW t, Goto(c, t), Recedes(op[c], t), CalmEngine
        PROVE  Confinement'
    BY <1>2, OwnClaim, RecedingClaim, ConfinementCalm
  <1>3. ASSUME NEW c \in Callers, Begin(c) PROVE Confinement'
    <2>1. ASSUME NEW n \in Names, NEW t, Goto(c, t), Unlocked(n), t.name = n,
                 t.pc \in {"check", "delInspect"}, UNCHANGED engine
          PROVE  Confinement'
      <3>1. Claim(c, t)
        BY <2>1 DEF Claim, Unlocked, InFlight, Provisioning, NetworkEnsured
      <3>2. CalmEngine
        BY <1>a, <2>1 DEF engine
      <3> QED BY <2>1, <3>1, <3>2, ConfinementCalm
    <2>2. ASSUME NEW n \in Names, NEW w \in Wants, CreateBegin(c, n, w)
          PROVE  Confinement'
      <3> DEFINE t == [Idle EXCEPT !.pc = "check", !.call = "create", !.name = n,
                                   !.want = w]
      <3>1. t.name = n /\ t.pc = "check"
        BY DEF Idle
      <3>2. Goto(c, t) /\ Unlocked(n) /\ UNCHANGED engine
        BY <2>2 DEF CreateBegin
      <3> HIDE DEF t
      <3> QED BY <2>1, <3>1, <3>2
    <2>3. ASSUME NEW k \in Sandboxes, DeleteBegin(c, k) PROVE Confinement'
      <3> DEFINE t == [Idle EXCEPT !.pc = "delInspect", !.call = "delete",
                                   !.name = k.name, !.id = k.id]
      <3>1. t.name = k.name /\ t.pc = "delInspect"
        BY DEF Idle
      <3>2. Goto(c, t) /\ Unlocked(k.name) /\ UNCHANGED engine
        BY <2>3 DEF DeleteBegin
      <3>3. k.name \in Names
        BY DEF Sandboxes, TypeOK, EngineTypeOK, Container
      <3> HIDE DEF t
      <3> QED BY <2>1, <3>1, <3>2, <3>3
    <2>4. ASSUME NEW k \in Sandboxes, Start(c, k) \/ Stop(c, k) PROVE Confinement'
      <3>1. k.id \in Nat
        BY DEF Sandboxes, TypeOK, EngineTypeOK, Container
      <3>2. CalmEngine
        BY <1>b, <2>4, <3>1 DEF Start, Stop
      <3>3. Goto(c, op[c])
        BY <2>4 DEF Start, Stop, Goto, TypeOK
      <3> QED BY <3>2, <3>3, OwnClaim, ConfinementCalm
    <2> QED BY <1>3, <2>2, <2>3, <2>4 DEF Begin
  <1>4. ASSUME NEW c \in Callers, CreateStep(c) PROVE Confinement'
    <2> DEFINE r == op[c]
    <2>1. r \in Operation /\ r.name \in Names /\ r.want \in SUBSET VolKinds /\ r.id \in Nat
      BY <1>0 DEF Operation
    <2>2. Claim(c, r) /\ r.pc \notin AtRest
      BY <1>4, OwnClaim
      DEF CreateStep, CheckExisting, NetworkInspect, NetworkCreate, NetworkVerify,
          VolumeInspect, EnsureVolumeCreate, ProxyCreate, ProxyConnect, ProxyStart,
          ProxyReady, ProxyNotReady, ProxyGiveUp, SandboxCreate, AtRest
    <2>3. ASSUME Goto(c, OnError(r)), CalmEngine PROVE Confinement'
      BY <1>2, <2>1, <2>2, <2>3, ErrorRecedes
    \* Going on to a location past ensureNetwork from one past ensureNetwork.
    <2>4. ASSUME NEW t, Goto(c, t), CalmEngine, r.pc \in NetworkEnsured,
                 t.name = r.name, t.want = r.want
          PROVE  Confinement'
      <3>1. Recedes(r, t)
        BY <2>2, <2>4 DEF Recedes, NetworkEnsured, Provisioning
      <3> QED BY <1>2, <2>4, <3>1
    <2>5. UNCHANGED engine => CalmEngine
      BY <1>a DEF engine
    <2>6. CASE CheckExisting(c)
      <3>1. CASE Managed(r.name) # {}
        <4>1. Goto(c, Return(r, "err")) /\ CalmEngine
          BY <2>5, <2>6, <3>1 DEF CheckExisting
        <4>2. Recedes(r, Return(r, "err"))
          BY <2>1, ReturnFacts
          DEF Recedes, Continues, AtRest, Provisioning, NetworkEnsured
        <4> QED BY <1>2, <4>1, <4>2
      <3>2. CASE Managed(r.name) = {}
        <4> DEFINE t == [r EXCEPT !.pc = "netInspect"]
        <4>1. Goto(c, t) /\ CalmEngine
          BY <2>5, <2>6, <3>2 DEF CheckExisting
        <4>2. t.pc = "netInspect" /\ t.name = r.name
          BY <2>1 DEF Operation
        <4>3. Claim(c, t)
          BY <2>2, <3>2, <4>2 DEF Claim, Managed, Sandboxes, NetworkEnsured
        <4> QED BY <4>1, <4>3, ConfinementCalm
      <3> QED BY <3>1, <3>2
    \* ensureNetwork leads on with an isolated network, or without a proxy.
    <2>7. ASSUME NEW t, Goto(c, t), CalmEngine, r.pc \in Provisioning,
                 t.name = r.name, t.want = r.want,
                 Proxied(r) => nets[r.name] = "isolated"
          PROVE  Confinement'
      <3>1. Claim(c, t)
        BY <2>2, <2>7 DEF Claim, Proxied, Provisioning, AtRest
      <3> QED BY <2>7, <3>1, ConfinementCalm
    <2>8. CASE NetworkInspect(c)
      <3>1. CalmEngine /\ r.pc = "netInspect" /\ nets[r.name] \in NetModes
        BY <2>1, <2>5, <2>8 DEF NetworkInspect, TypeOK, EngineTypeOK
      <3>2. CASE nets[r.name] = "none"
        <4>1. Goto(c, [r EXCEPT !.pc = "netCreate"])
          BY <2>8, <3>2 DEF NetworkInspect
        <4>2. Recedes(r, [r EXCEPT !.pc = "netCreate"])
          BY <2>1, <3>1 DEF Recedes, Operation, AtRest, Provisioning, NetworkEnsured
        <4> QED BY <1>2, <3>1, <4>1, <4>2
      <3>3. CASE /\ Proxied(r)
                 /\ nets[r.name] = "plain" \/ (nets[r.name] = "internal" /\ ~Native)
        <4>1. Goto(c, Return(r, "err"))
          BY <2>8, <3>3 DEF NetworkInspect
        <4>2. Recedes(r, Return(r, "err"))
          BY <2>1, ReturnFacts
          DEF Recedes, Continues, AtRest, Provisioning, NetworkEnsured
        <4> QED BY <1>2, <3>1, <4>1, <4>2
      <3>4. CASE nets[r.name] \in {"internal", "isolated"} /\ Proxied(r) /\ Native
        <4>1. Goto(c, [r EXCEPT !.pc = "netVerify"])
          BY <2>8, <3>4 DEF NetworkInspect
        <4>2. Recedes(r, [r EXCEPT !.pc = "netVerify"])
          BY <2>1, <3>1 DEF Recedes, Operation, AtRest, Provisioning, NetworkEnsured
        <4> QED BY <1>2, <3>1, <4>1, <4>2
      <3>5. CASE /\ nets[r.name] # "none"
                 /\ Proxied(r) => nets[r.name] = "isolated" /\ ~Native
        <4>1. Goto(c, AfterNetwork(r))
          BY <2>8, <3>5 DEF NetworkInspect
        <4>2. AfterNetwork(r).name = r.name /\ AfterNetwork(r).want = r.want
          BY <2>1, ProvisioningFacts DEF Continues
        <4> QED BY <2>7, <3>1, <3>5, <4>1, <4>2 DEF Provisioning
      <3> QED BY <3>1, <3>2, <3>3, <3>4, <3>5 DEF NetModes
    <2>9. CASE NetworkVerify(c)
      <3>1. CalmEngine /\ r.pc = "netVerify"
        BY <2>5, <2>9 DEF NetworkVerify
      <3>2. AfterNetwork(r).name = r.name /\ AfterNetwork(r).want = r.want
        BY <2>1, ProvisioningFacts DEF Continues
      <3>3. CASE nets[r.name] = "isolated"
        <4>1. Goto(c, AfterNetwork(r))
          BY <2>9, <3>3 DEF NetworkVerify
        <4> QED BY <2>7, <3>1, <3>2, <3>3, <4>1 DEF Provisioning
      <3>4. CASE nets[r.name] # "isolated"
        BY <2>3, <2>9, <3>1, <3>4 DEF NetworkVerify
      <3> QED BY <3>3, <3>4
    <2>10. CASE NetworkCreate(c)
      <3> DEFINE made == [r EXCEPT !.net = TRUE]
                 next == IF Native /\ Proxied(r) THEN [made EXCEPT !.pc = "netVerify"]
                         ELSE AfterNetwork(made)
      <3>1. made \in Operation /\ made.name = r.name /\ made.want = r.want
        BY <2>1 DEF Operation
      <3>2. next.name = r.name /\ next.want = r.want
        BY <3>1, ProvisioningFacts DEF Continues, Operation
      <3>3. PICK mode \in NewModes(r) :
               /\ nets' = [nets EXCEPT ![r.name] = mode]
               /\ ctrs' = ctrs /\ r.pc = "netCreate"
               /\ Goto(c, next) \/ Goto(c, OnError(r))
        BY <2>10 DEF NetworkCreate, NetworkSet, Reply
      <3>6. mode # "none" /\ (Proxied(r) /\ ~Native => mode = "isolated")
        BY DEF NewModes
      <3>7. Proxied(r) /\ Native => next.pc = "netVerify"
        BY <3>1 DEF Operation
      <3>4. OnError(r) = Return(r, "err") /\ OnError(r).pc = "err"
        BY <2>1, <3>3, ReturnFacts
        DEF OnError, Continues, Removals, Undo, RollbackCalls, DeleteCalls
      <3>5. ASSUME NEW t, Goto(c, t), t.pc = "err" \/ (t.name = r.name /\ t.want = r.want),
                   t.pc \in NetworkEnsured /\ Proxied(r) => mode = "isolated"
            PROVE  Confinement'
        <4>1. op'[c] = t /\ \A d \in Callers : d # c => op'[d] = op[d]
          BY <3>5 DEF Goto, TypeOK
        <4>2. \A d \in Callers : d # c /\ Busy(d) => op[d].name # r.name
          BY <2>2 DEF Claim
        <4>3. \A k \in Sandboxes : k.name # r.name
          BY <2>2, <3>3 DEF Claim, Provisioning
        <4>4. \A n \in Names : n # r.name => nets'[n] = nets[n]
          BY <3>3 DEF TypeOK, EngineTypeOK
        <4>5. nets'[r.name] = mode
          BY <2>1, <3>3 DEF TypeOK, EngineTypeOK
        <4>6. \A k \in ctrs : k.name \in Names
          BY DEF TypeOK, EngineTypeOK, Container
        <4>7. \A x, y \in Callers :
                 x # y /\ Busy(x)' /\ Busy(y)' => op'[x].name # op'[y].name
          BY <3>5, <4>1, <4>2 DEF Confinement, Busy, AtRest
        <4>8. \A k \in ctrs' : k.running => nets'[k.name] # "none"
          BY <3>3, <3>6, <4>4, <4>5, <4>6 DEF Confinement
        <4>9. \A k \in Sandboxes' : "ca" \in k.mounts => nets'[k.name] \in {"none", "isolated"}
          BY <3>3, <4>3, <4>4, <4>6 DEF Confinement, Sandboxes
        <4>10. ASSUME NEW d \in Callers, op'[d].pc \in Provisioning, NEW k \in Sandboxes'
               PROVE  k.name # op'[d].name
          <5>1. k \in Sandboxes
            BY <3>3 DEF Sandboxes
          <5> QED BY <3>5, <4>1, <4>3, <4>10, <5>1 DEF Confinement, Provisioning
        <4>11. ASSUME NEW d \in Callers, op'[d].pc \in NetworkEnsured, Proxied(op'[d])
               PROVE  nets'[op'[d].name] = "isolated"
          <5>1. CASE d = c
            BY <3>5, <4>1, <4>5, <4>11, <5>1 DEF Proxied, NetworkEnsured
          <5>2. CASE d # c
            <6>1. op'[d] = op[d] /\ Busy(d) /\ op[d].name # r.name
              BY <4>1, <4>2, <4>11, <5>2 DEF Busy, AtRest, NetworkEnsured
            <6> QED BY <1>0, <4>4, <4>11, <6>1 DEF Confinement
          <5> QED BY <5>1, <5>2
        <4> QED BY <4>7, <4>8, <4>9, <4>10, <4>11 DEF Confinement
      <3> HIDE DEF next
      <3> QED BY <3>2, <3>3, <3>4, <3>5, <3>6, <3>7 DEF NetworkEnsured
    <2>11. CASE VolumeInspect(c)
      <3>1. \A t \in {AfterVolume(r), [r EXCEPT !.pc = "volCreate"]} :
               t.name = r.name /\ t.want = r.want
        BY <2>1, ProvisioningFacts DEF Continues, Operation
      <3> QED BY <2>4, <2>5, <2>11, <3>1 DEF VolumeInspect, NetworkEnsured
    <2>12. CASE EnsureVolumeCreate(c)
      <3> DEFINE made == [r EXCEPT !.made = @ \cup {r.vol}]
                 next == IF r.vol = "data" THEN AfterVolume(r) ELSE AfterVolume(made)
      <3>1. made \in Operation /\ made.name = r.name /\ made.want = r.want
        BY <2>1 DEF Operation
      <3>2. next.name = r.name /\ next.want = r.want
        BY <2>1, <3>1, ProvisioningFacts DEF Continues
      <3>3. CalmEngine /\ r.pc \in NetworkEnsured
        BY <1>a, <2>12 DEF EnsureVolumeCreate, VolumeCreate, NetworkEnsured
      <3>4. Goto(c, next) \/ Goto(c, OnError(r))
        BY <2>12 DEF EnsureVolumeCreate, Reply
      <3> QED BY <2>3, <2>4, <3>2, <3>3, <3>4
    <2>13. CASE ProxyConnect(c)
      <3>1. /\ [r EXCEPT !.pc = "proxyStart"].name = r.name
            /\ [r EXCEPT !.pc = "proxyStart"].want = r.want
        BY <2>1 DEF Operation
      <3> QED BY <2>4, <2>5, <2>13, <3>1 DEF ProxyConnect, NetworkEnsured
    <2>14. CASE ProxyStart(c)
      <3>1. /\ [r EXCEPT !.pc = "waitCA"].name = r.name
            /\ [r EXCEPT !.pc = "waitCA"].want = r.want
        BY <2>1 DEF Operation
      <3>2. CalmEngine /\ r.pc \in NetworkEnsured
        BY <1>b, <2>1, <2>14 DEF ProxyStart, NetworkEnsured
      <3> QED BY <2>3, <2>4, <2>14, <3>1, <3>2 DEF ProxyStart, Reply
    <2>15. CASE ProxyReady(c)
      <3> DEFINE up == [r EXCEPT !.proxy = TRUE, !.polls = 0]
                 listen == [r EXCEPT !.pc = "waitListen", !.polls = 0]
      <3>1. /\ up \in Operation /\ up.name = r.name /\ up.want = r.want
            /\ listen.name = r.name /\ listen.want = r.want
        BY <2>1, PollsType DEF Operation
      <3>2. AfterProxy(up).name = r.name /\ AfterProxy(up).want = r.want
        BY <3>1, ProvisioningFacts DEF Continues
      <3>3. CalmEngine /\ r.pc \in NetworkEnsured
        BY <2>5, <2>15 DEF ProxyReady, NetworkEnsured
      <3> QED BY <2>4, <2>15, <3>1, <3>2, <3>3 DEF ProxyReady
    <2>16. CASE ProxyNotReady(c)
      <3>1. /\ [r EXCEPT !.polls = @ + 1].name = r.name
            /\ [r EXCEPT !.polls = @ + 1].want = r.want
        BY <2>1 DEF Operation
      <3> QED BY <2>4, <2>5, <2>16, <3>1 DEF ProxyNotReady, NetworkEnsured
    <2>17. CASE ProxyGiveUp(c)
      BY <2>3, <2>5, <2>17 DEF ProxyGiveUp
    \* A container is created: a sandbox only as the last step of Create.
    <2>18. ASSUME NEW t, Goto(c, t), Claim(c, t), NEW cn, NEW w,
                  NEW x \in {"sandbox", "proxy"},
                  ContainerCreate(cn, x, r.name, w),
                  x = "sandbox" => /\ t.pc \notin Provisioning
                                   /\ "ca" \in w => nets[r.name] = "isolated"
           PROVE  Confinement'
      <3> DEFINE new == [cname |-> cn, id |-> nextId, role |-> x, name |-> r.name,
                         mounts |-> w, running |-> FALSE]
      <3>1. /\ ctrs' = ctrs \cup {new} /\ nets' = nets
            /\ new.role = x /\ new.name = r.name /\ new.mounts = w
            /\ new.running = FALSE
        BY <2>18 DEF ContainerCreate
      <3> HIDE DEF new
      <3>2. op'[c] = t /\ \A d \in Callers : d # c => op'[d] = op[d]
        BY <2>18 DEF Goto, TypeOK
      <3>3. \A d \in Callers : d # c /\ Busy(d) => op[d].name # r.name
        BY <2>2 DEF Claim
      <3>4. \A y, z \in Callers :
               y # z /\ Busy(y)' /\ Busy(z)' => op'[y].name # op'[z].name
        BY <2>18, <3>2 DEF Claim, Busy, Confinement
      <3>5. \A k \in ctrs' : k.running => nets'[k.name] # "none"
        BY <3>1 DEF Confinement
      <3>6. \A k \in Sandboxes' : "ca" \in k.mounts => nets'[k.name] \in {"none", "isolated"}
        BY <2>18, <3>1 DEF Confinement, Sandboxes
      <3>7. ASSUME NEW d \in Callers, op'[d].pc \in Provisioning, NEW k \in Sandboxes'
            PROVE  k.name # op'[d].name
        <4>1. k \in Sandboxes \/ (k = new /\ x = "sandbox")
          BY <3>1 DEF Sandboxes
        <4>2. CASE k \in Sandboxes
          BY <2>18, <3>2, <3>7, <4>2 DEF Claim, Confinement
        <4>3. CASE k = new /\ x = "sandbox"
          <5>1. d # c
            BY <2>18, <3>2, <3>7, <4>3
          <5>2. Busy(d)
            BY <3>2, <3>7, <5>1 DEF Busy, AtRest, Provisioning
          <5> QED BY <3>1, <3>2, <3>3, <4>3, <5>1, <5>2
        <4> QED BY <4>1, <4>2, <4>3
      <3>8. ASSUME NEW d \in Callers, op'[d].pc \in NetworkEnsured, Proxied(op'[d])
            PROVE  nets'[op'[d].name] = "isolated"
        BY <2>18, <3>1, <3>2, <3>8 DEF Claim, Confinement
      <3> QED BY <3>4, <3>5, <3>6, <3>7, <3>8 DEF Confinement
    <2>19. CASE ProxyCreate(c)
      <3> DEFINE t == [r EXCEPT !.pc = "proxyConnect", !.id = nextId]
      <3>1. ContainerCreate(ProxyName[r.name], "proxy", r.name, r.want \ {"data"})
        BY <2>19 DEF ProxyCreate
      <3>2. Recedes(r, t)
        BY <2>1, <2>19
        DEF ProxyCreate, Recedes, Operation, AtRest, Provisioning, NetworkEnsured
      <3>3. Claim(c, t) /\ Claim(c, OnError(r))
        BY <2>1, <2>2, <3>2, ErrorRecedes, RecedingClaim
      <3>4. Goto(c, t) \/ Goto(c, OnError(r))
        BY <2>19 DEF ProxyCreate, Reply
      <3> HIDE DEF t
      <3> QED BY <2>18, <3>1, <3>3, <3>4
    <2>20. CASE SandboxCreate(c)
      <3> DEFINE t == Return([r EXCEPT !.id = nextId], "ok")
      <3>1. ContainerCreate(SandboxName[r.name], "sandbox", r.name, r.want)
        BY <2>20 DEF SandboxCreate
      <3>2. "ca" \in r.want => nets[r.name] = "isolated"
        BY <2>2, <2>20 DEF SandboxCreate, Claim, NetworkEnsured, Proxied
      <3>3. [r EXCEPT !.id = nextId] \in Operation /\ [r EXCEPT !.id = nextId].name = r.name
        BY <2>1 DEF Operation, TypeOK, EngineTypeOK
      <3>4. t.pc = "ok" /\ t.name = r.name
        BY <3>3, ReturnFacts DEF Continues
      <3>5. Claim(c, t) /\ t.pc \notin Provisioning
        BY <3>4 DEF Claim, AtRest, Provisioning, NetworkEnsured
      <3>6. Claim(c, OnError(r)) /\ OnError(r).pc \notin Provisioning
        <4>1. OnError(r) = Rollback(r)
          BY <2>20
          DEF SandboxCreate, OnError, Removals, Undo, RollbackCalls, DeleteCalls
        <4> QED
          BY <2>1, <2>2, <4>1, ErrorRecedes, RecedingClaim, RollbackFacts
          DEF Provisioning, RollbackCalls
      <3>7. Goto(c, t) \/ Goto(c, OnError(r))
        BY <2>20 DEF SandboxCreate, Reply
      <3> HIDE DEF t
      <3> QED BY <2>18, <3>1, <3>2, <3>5, <3>6, <3>7
    <2> QED
      BY <1>4, <2>6, <2>8, <2>9, <2>10, <2>11, <2>12, <2>13, <2>14, <2>15, <2>16,
         <2>17, <2>19, <2>20 DEF CreateStep
  <1>5. ASSUME NEW c \in Callers, RemovalStep(c) PROVE Confinement'
    <2> DEFINE r == op[c]
    <2>1. CASE ProxyUndo(c) \/ ProxyRemoval(c) \/ VolumeRemoval(c) \/ DeleteContainer(c)
      <3>1. r.pc \in Removals /\ Goto(c, AfterRemoval(r))
        BY <2>1
        DEF ProxyUndo, ProxyRemoval, VolumeRemoval, DeleteContainer, Removals, Undo,
            RollbackCalls, DeleteCalls
      <3>2. CalmEngine
        BY <1>a, <2>1
        DEF ProxyUndo, ProxyRemoval, VolumeRemoval, DeleteContainer, ContainerRemove,
            VolumeRemove, engine
      <3> QED BY <1>0, <1>2, <3>1, <3>2, RemovalRecedes
    <2>2. CASE NetworkRemoval(c)
      <3>1. r.pc \in Removals /\ Goto(c, AfterRemoval(r))
        BY <2>2 DEF NetworkRemoval, Removals, Undo, RollbackCalls, DeleteCalls
      <3>2. CASE ~NetRemovable(r.name)
        <4>1. CalmEngine
          BY <1>a, <2>2, <3>2 DEF NetworkRemoval, engine
        <4> QED BY <1>0, <1>2, <3>1, <4>1, RemovalRecedes
      <3>3. CASE NetRemovable(r.name)
        <4> DEFINE t == AfterRemoval(r)
        <4>1. nets' = [nets EXCEPT ![r.name] = "none"] /\ ctrs' = ctrs
          BY <2>2, <3>3 DEF NetworkRemoval, NetworkSet
        <4>2. /\ op'[c] = t /\ \A d \in Callers : d # c => op'[d] = op[d]
              /\ Recedes(r, t) /\ t.pc \notin Provisioning \cup NetworkEnsured
          BY <1>0, <3>1, RemovalRecedes DEF Goto, TypeOK
        <4>3. \A d \in Callers : d # c /\ Busy(d) => op[d].name # r.name
          BY <3>1 DEF Confinement, Busy, AtRest, Removals, Undo, RollbackCalls, DeleteCalls
        <4> HIDE DEF t
        <4>4. \A n \in Names : nets'[n] = IF n = r.name THEN "none" ELSE nets[n]
          BY <4>1 DEF TypeOK, EngineTypeOK
        <4>5. \A k \in ctrs : k.name \in Names
          BY DEF TypeOK, EngineTypeOK, Container
        <4>6. \A y, z \in Callers :
                 y # z /\ Busy(y)' /\ Busy(z)' => op'[y].name # op'[z].name
          BY <4>2 DEF Confinement, Busy, Recedes
        <4>7. \A k \in ctrs' : k.running => nets'[k.name] # "none"
          BY <3>3, <4>1, <4>4, <4>5 DEF Confinement, NetRemovable, Managed
        <4>8. \A k \in Sandboxes' : "ca" \in k.mounts => nets'[k.name] \in {"none", "isolated"}
          BY <4>1, <4>4, <4>5 DEF Confinement, Sandboxes
        <4>9. ASSUME NEW d \in Callers, op'[d].pc \in Provisioning, NEW k \in Sandboxes'
              PROVE  k.name # op'[d].name
          BY <4>1, <4>2, <4>9 DEF Confinement, Sandboxes
        <4>10. ASSUME NEW d \in Callers, op'[d].pc \in NetworkEnsured, Proxied(op'[d])
               PROVE  nets'[op'[d].name] = "isolated"
          <5>1. d # c
            BY <4>2, <4>10
          <5>2. Busy(d) /\ op'[d] = op[d]
            BY <4>2, <4>10, <5>1 DEF Busy, AtRest, NetworkEnsured
          <5> QED BY <1>0, <4>3, <4>4, <4>10, <5>1, <5>2 DEF Confinement
        <4> QED BY <4>6, <4>7, <4>8, <4>9, <4>10 DEF Confinement
      <3> QED BY <3>2, <3>3
    <2>3. CASE DeleteInspect(c)
      <3>1. PICK k \in ctrs :
               /\ k.id = r.id
               /\ Goto(c, [r EXCEPT !.pc = "delCtr", !.name = k.name, !.want = k.mounts,
                                   !.labels = k.mounts])
        BY <2>3 DEF DeleteInspect
      <3> DEFINE t == [r EXCEPT !.pc = "delCtr", !.name = k.name, !.want = k.mounts,
                                !.labels = k.mounts]
      <3>2. k.name = r.name
        BY <2>3, <3>1 DEF DeleteInspect, Identity, HoldsOwn, HoldsTarget
      <3>3. t.name = r.name /\ t.pc = "delCtr"
        BY <1>0, <3>2 DEF Operation
      <3>4. Recedes(r, t)
        BY <2>3, <3>3
        DEF DeleteInspect, Recedes, AtRest, Provisioning, NetworkEnsured
      <3>5. CalmEngine
        BY <1>a, <2>3 DEF DeleteInspect, engine
      <3> QED BY <1>2, <3>1, <3>4, <3>5
    <2> QED BY <1>5, <2>1, <2>2, <2>3 DEF RemovalStep
  <1>6. ASSUME NEW c \in Callers, Rejected(c) \/ CallCancelled(c) \/ CallFails(c)
        PROVE  Confinement'
    <2>1. op[c].pc \notin AtRest /\ Goto(c, OnError(op[c]))
      BY <1>6 DEF Rejected, Rejects, CallCancelled, CallFails, Busy, AtRest
    <2>2. CalmEngine
      BY <1>6, <1>a DEF Rejected, CallCancelled, CallFails, engine
    <2> QED BY <1>0, <1>2, <2>1, <2>2, ErrorRecedes
  <1>7. ASSUME NEW c \in Callers, Cancel(c) PROVE Confinement'
    <2> DEFINE t == [op[c] EXCEPT !.live = FALSE]
    <2>1. Goto(c, t) /\ CalmEngine
      BY <1>7, <1>a DEF Cancel, Goto, engine
    <2>2. Recedes(op[c], t)
      BY <1>0 DEF Recedes, Operation
    <2> QED BY <1>2, <2>1, <2>2
  <1>8. ASSUME NEW c \in Callers, Crash(c) PROVE Confinement'
    <2>1. Goto(c, Idle) /\ CalmEngine
      BY <1>8, <1>a DEF Crash, engine
    <2>2. Idle.pc = "idle"
      BY DEF Idle
    <2>3. Claim(c, Idle)
      BY <2>2 DEF Claim, AtRest, Provisioning, NetworkEnsured
    <2> QED BY <2>1, <2>3, ConfinementCalm
  <1> QED
    BY <1>1, <1>3, <1>4, <1>5, <1>6, <1>7, <1>8 DEF Next, DriverStep

\* With serialised callers Confinement holds in every reachable state.
THEOREM ConfinementInvariant == Serialised => (Spec => []Confinement)
  <1> SUFFICES ASSUME Serialised PROVE Spec => []Confinement
    OBVIOUS
  <1>1. Init => Confinement
    <2> SUFFICES ASSUME Init PROVE Confinement
      OBVIOUS
    <2>1. Idle.pc = "idle"
      BY DEF Idle
    <2> QED
      BY <2>1
      DEF Init, EngineInit, Confinement, Busy, AtRest, Sandboxes, Provisioning,
          NetworkEnsured
  <1>2. TypeOK /\ Identity /\ Confinement /\ [Next]_vars => Confinement'
    BY ConfinementStep
  <1> QED BY <1>1, <1>2, TypeCorrect, IdentityInvariant, PTL DEF Spec

\* When callers run at most one operation per sandbox at a time, a running
\* sandbox that was created with a proxy is on an isolated network, whatever
\* fails, is cancelled, gets lost or dies in between.
THEOREM EgressConfinedThm == Serialised => (Spec => []EgressConfined)
  <1> SUFFICES ASSUME Serialised PROVE Spec => []EgressConfined
    OBVIOUS
  <1>1. TypeOK /\ Confinement => EgressConfined
    <2> SUFFICES ASSUME TypeOK, Confinement, NEW k \in Sandboxes, k.running,
                        "ca" \in k.mounts
                 PROVE  nets[k.name] = "isolated"
      BY DEF EgressConfined
    <2>1. k \in ctrs /\ nets[k.name] \in NetModes
      BY DEF Sandboxes, TypeOK, EngineTypeOK, Container
    <2> QED BY <2>1 DEF Confinement, NetModes
  <1>2. Spec => []Confinement
    BY ConfinementInvariant
  <1> QED BY <1>1, <1>2, TypeCorrect, PTL

=============================================================================
