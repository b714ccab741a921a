-------------------------- MODULE WholenessProofs --------------------------
(***************************************************************************)
(* What Create, its rollback and Delete leave behind, for any sets of names *)
(* and callers, any faults and any bounds.  The first part needs nothing of *)
(* the callers; the second is about callers that serialise the operations   *)
(* on one sandbox.                                                          *)
(***************************************************************************)
EXTENDS SandboxProofs

-----------------------------------------------------------------------------
(* What an operation has recorded, by where it is.                          *)

BeforeNetwork == {"check", "netInspect", "netCreate"}
CreatePlaces == {"check"} \cup Provisioning \cup Undo \cup RollbackCalls
DeletePlaces == {"delInspect"} \cup DeleteCalls

\* Creates and Deletes keep to their own steps; the volumes to be rolled back
\* are among those asked for, and never the data volume; the flags of the
\* rollback agree with the step.
Recorded(r) ==
    /\ r.pc \in CreatePlaces => r.call = "create"
    /\ r.pc \in DeletePlaces => r.call = "delete" /\ r.made = {}
    /\ r.made \subseteq r.want \ {"data"}
    /\ r.pc \in {"volInspect", "volCreate"} =>
          /\ r.vol \in r.want
          /\ r.proxy <=> r.vol = "data" /\ Proxied(r)
          /\ r.vol # "data" => Proxied(r)
    /\ r.pc \in HoldsProxy \cup {"proxyCreate"} => ~r.proxy /\ Proxied(r)
    /\ r.pc = "create" => (r.proxy <=> Proxied(r))
    /\ r.pc \in BeforeNetwork \cup {"netVerify", "netUndo"} => ~r.proxy /\ r.made = {}
    /\ r.pc \in BeforeNetwork => ~r.net
    /\ r.pc = "netUndo" => r.net
    /\ r.pc = "rbProxy" => r.proxy
    /\ r.pc = "rbVol" => ~r.proxy /\ r.vol \in r.made
    /\ r.pc = "rbNet" => ~r.proxy /\ r.made = {}
    /\ r.pc = "delVol" => r.vol \in r.want

Records == \A c \in Callers : Recorded(op[c])

\* All the sets of steps that Recorded speaks of.
USE DEF BeforeNetwork, CreatePlaces, DeletePlaces

\* Returning leaves nothing recorded.
LEMMA ReturnRecorded ==
    ASSUME NEW r \in Operation, NEW o \in {"ok", "err"}
    PROVE  Recorded(Return(r, o))
  <1>1. /\ Return(r, o).pc = o /\ Return(r, o).made = {} /\ Return(r, o).want = {}
        /\ Return(r, o).proxy = FALSE /\ Return(r, o).net = FALSE
    BY DEF Return, Idle
  <1> QED
    BY <1>1
    DEF Recorded, HoldsProxy, Provisioning, Undo, RollbackCalls, DeleteCalls

\* The rollback of a Create works through what the Create recorded.
LEMMA RollbackRecorded ==
    ASSUME NEW r \in Operation, r.call = "create", r.made \subseteq r.want \ {"data"}
    PROVE  Recorded(Rollback(r))
  <1> USE DEF Recorded, HoldsProxy, Provisioning, Undo, RollbackCalls, DeleteCalls,
          Operation
  <1>1. CASE r.proxy
    BY <1>1 DEF Rollback
  <1>2. CASE ~r.proxy /\ r.made # {}
    <2>1. FirstVolume(r.made) \in r.made
      BY <1>2 DEF FirstVolume, VolKinds
    <2>2. Rollback(r) = [r EXCEPT !.pc = "rbVol", !.vol = FirstVolume(r.made)]
      BY <1>2 DEF Rollback
    <2>3. FirstVolume(r.made) \in VolKinds
      BY DEF FirstVolume, VolKinds
    <2> QED BY <1>2, <2>1, <2>2, <2>3
  <1>3. CASE ~r.proxy /\ r.made = {} /\ r.net
    BY <1>3 DEF Rollback
  <1>4. CASE ~r.proxy /\ r.made = {} /\ ~r.net
    BY <1>4, ReturnRecorded DEF Rollback
  <1> QED BY <1>1, <1>2, <1>3, <1>4

\* Delete's volume loop works through the volumes of the labels.
LEMMA DeleteVolumesRecorded ==
    ASSUME NEW r \in Operation, r.call = "delete", r.made = {}
    PROVE  Recorded(DeleteVolumes(r))
  <1>1. CASE r.want = {}
    BY <1>1, ReturnRecorded DEF DeleteVolumes
  <1>2. CASE r.want # {}
    <2>1. FirstVolume(r.want) \in r.want
      BY <1>2 DEF FirstVolume, VolKinds, Operation
    <2>2. DeleteVolumes(r) = [r EXCEPT !.pc = "delVol", !.vol = FirstVolume(r.want)]
      BY <1>2 DEF DeleteVolumes
    <2> QED
      BY <2>1, <2>2
      DEF Recorded, HoldsProxy, Provisioning, Undo, RollbackCalls, DeleteCalls, Operation
  <1> QED BY <1>1, <1>2

\* A removal is followed by the removals that are left to do.
LEMMA AfterRemovalRecorded ==
    ASSUME NEW r \in Operation, Recorded(r), r.pc \in Removals
    PROVE  Recorded(AfterRemoval(r))
  <1>1. CASE r.pc \in {"netUndo", "rbNet"}
    BY <1>1, ReturnRecorded DEF AfterRemoval
  <1>2. CASE r.pc = "proxyUndo"
    BY <1>2, RollbackRecorded DEF AfterRemoval, Recorded, Undo
  <1>3. CASE r.pc = "rbProxy"
    <2> DEFINE s == [r EXCEPT !.proxy = FALSE]
    <2>1. s \in Operation /\ s.call = "create" /\ s.made \subseteq s.want \ {"data"}
      BY <1>3 DEF Operation, Recorded, RollbackCalls
    <2> HIDE DEF s
    <2> QED BY <1>3, <2>1, RollbackRecorded DEF AfterRemoval, s
  <1>4. CASE r.pc = "rbVol"
    <2> DEFINE s == [r EXCEPT !.made = @ \ {r.vol}]
    <2>1. s \in Operation /\ s.call = "create" /\ s.made \subseteq s.want \ {"data"}
      BY <1>4 DEF Operation, Recorded, RollbackCalls
    <2> HIDE DEF s
    <2> QED BY <1>4, <2>1, RollbackRecorded DEF AfterRemoval, s
  <1>5. CASE r.pc \in {"delCtr", "delProxy"}
    BY <1>5
    DEF AfterRemoval, Recorded, HoldsProxy, Provisioning, Undo, RollbackCalls,
        DeleteCalls, Operation
  <1>6. CASE r.pc = "delNet"
    BY <1>6, DeleteVolumesRecorded DEF AfterRemoval, Recorded, DeleteCalls
  <1>7. CASE r.pc = "delVol"
    <2> DEFINE s == [r EXCEPT !.want = @ \ {r.vol}]
    <2>1. s \in Operation /\ s.call = "delete" /\ s.made = {}
      BY <1>7 DEF Operation, Recorded, DeleteCalls
    <2> HIDE DEF s
    <2> QED BY <1>7, <2>1, DeleteVolumesRecorded DEF AfterRemoval, s
  <1> QED
    BY <1>1, <1>2, <1>3, <1>4, <1>5, <1>6, <1>7
    DEF Removals, Undo, RollbackCalls, DeleteCalls

\* So is an error.
LEMMA OnErrorRecorded ==
    ASSUME NEW r \in Operation, Recorded(r), r.pc \notin AtRest
    PROVE  Recorded(OnError(r))
  <1> USE DEF HoldsProxy, Provisioning, Undo, RollbackCalls, DeleteCalls
  <1>1. CASE r.pc \in {"check", "netCreate", "delInspect"}
    BY <1>1, ReturnRecorded DEF OnError, Removals
  <1>2. CASE r.pc \in {"netInspect", "volInspect"}
    BY <1>2 DEF OnError, Removals, Recorded, Operation, Proxied
  <1>3. CASE r.pc = "netVerify"
    BY <1>3, ReturnRecorded DEF OnError, Removals, Recorded, Operation, Proxied
  <1>4. CASE r.pc \in {"volCreate", "proxyCreate", "create"}
    BY <1>4, RollbackRecorded DEF OnError, Removals, Recorded
  <1>5. CASE r.pc \in Removals
    BY <1>5, AfterRemovalRecorded DEF OnError, Removals
  <1>6. CASE r.pc \in {"proxyConnect", "proxyStart", "waitCA", "waitListen"}
    <2>1. OnError(r) = [r EXCEPT !.pc = "proxyUndo", !.polls = 0]
      BY <1>6 DEF OnError, Removals
    <2> QED BY <1>6, <2>1 DEF Recorded, Operation, Proxied
  <1> QED
    BY <1>1, <1>2, <1>3, <1>4, <1>5, <1>6
    DEF Operation, Locations, Removals, AtRest

\* Create's steps in their order: the network, the volumes of the sidecar, the
\* sidecar, the data volume, the sandbox.
LEMMA ForwardRecorded ==
    ASSUME NEW r \in Operation, r.call = "create", r.made \subseteq r.want \ {"data"}
    PROVE  /\ (r.proxy <=> Proxied(r)) => Recorded(AfterProxy(r))
           /\ ~r.proxy => Recorded(AfterNetwork(r))
           /\ /\ r.vol \in r.want
              /\ r.proxy <=> r.vol = "data" /\ Proxied(r)
              /\ r.vol # "data" => Proxied(r)
              => Recorded(AfterVolume(r))
  <1> USE DEF HoldsProxy, Provisioning, Undo, RollbackCalls, DeleteCalls
  <1>1. ASSUME NEW v \in r.want, r.proxy <=> v = "data" /\ Proxied(r),
               v # "data" => Proxied(r)
        PROVE  Recorded(Volume(r, v))
    <2>1. v \in VolKinds
      BY DEF Operation
    <2> QED BY <1>1, <2>1 DEF Recorded, Volume, Operation, Proxied
  <1>2. (r.proxy <=> Proxied(r)) => Recorded([r EXCEPT !.pc = "create"])
    BY DEF Recorded, Operation, Proxied
  <1>3. ~r.proxy /\ Proxied(r) => Recorded([r EXCEPT !.pc = "proxyCreate"])
    BY DEF Recorded, Operation, Proxied
  <1>4. (r.proxy <=> Proxied(r)) => Recorded(AfterProxy(r))
    BY <1>1, <1>2 DEF AfterProxy
  <1>5. ~r.proxy => Recorded(AfterNetwork(r))
    BY <1>1, <1>4 DEF AfterNetwork, Proxied
  <1>6. /\ r.vol \in r.want
        /\ r.proxy <=> r.vol = "data" /\ Proxied(r)
        /\ r.vol # "data" => Proxied(r)
        => Recorded(AfterVolume(r))
    BY <1>1, <1>2, <1>3 DEF AfterVolume
  <1> QED BY <1>4, <1>5, <1>6

\* Every step keeps the records.
LEMMA RecordsStep == TypeOK /\ Records /\ [Next]_vars => Records'
  <1> SUFFICES ASSUME TypeOK, Records, [Next]_vars PROVE Records'
    OBVIOUS
  <1>0. \A c \in Callers : op[c] \in Operation /\ Recorded(op[c])
    BY OpTypes DEF Records
  <1>1. ASSUME NEW c \in Callers, NEW t, Goto(c, t), Recorded(t) PROVE Records'
    <2>1. \A d \in Callers : op'[d] = t \/ op'[d] = op[d]
      BY <1>1 DEF Goto, TypeOK
    <2> QED BY <1>0, <1>1, <2>1 DEF Records, Recorded, Proxied
  <1>2. ASSUME NEW c \in Callers, Busy(c), Goto(c, OnError(op[c])) PROVE Records'
    BY <1>0, <1>1, <1>2, OnErrorRecorded DEF Busy
  <1>3. ASSUME NEW c \in Callers, Begin(c) PROVE Records'
    <2>1. ASSUME NEW n \in Names, NEW w \in Wants, CreateBegin(c, n, w) PROVE Records'
      <3> DEFINE t == [Idle EXCEPT !.pc = "check", !.call = "create", !.name = n,
                                   !.want = w]
      <3>1. Recorded(t)
        BY DEF Idle, Recorded, HoldsProxy, Provisioning, Undo, RollbackCalls, DeleteCalls
      <3> QED BY <1>1, <2>1, <3>1 DEF CreateBegin
    <2>2. ASSUME NEW k \in Sandboxes, DeleteBegin(c, k) PROVE Records'
      <3> DEFINE t == [Idle EXCEPT !.pc = "delInspect", !.call = "delete",
                                   !.name = k.name, !.id = k.id]
      <3>1. Recorded(t)
        BY DEF Idle, Recorded, HoldsProxy, Provisioning, Undo, RollbackCalls, DeleteCalls
      <3> QED BY <1>1, <2>2, <3>1 DEF DeleteBegin
    <2>3. ASSUME NEW k \in Sandboxes, Start(c, k) \/ Stop(c, k) PROVE Records'
      <3>1. op' = op
        BY <2>3 DEF Start, Stop
      <3>2. \A r : Recorded(r)' <=> Recorded(r)
        BY DEF Recorded, Proxied
      <3> QED BY <3>1, <3>2 DEF Records
    <2> QED BY <1>3, <2>1, <2>2, <2>3 DEF Begin
  <1>4. ASSUME NEW c \in Callers, CreateStep(c) PROVE Records'
    <2> DEFINE r == op[c]
    <2>1. r \in Operation /\ Recorded(r)
      BY <1>0
    <2>2. ASSUME NEW t, Recorded(t), Busy(c), Reply(c, t) PROVE Records'
      BY <1>1, <1>2, <2>2 DEF Reply
    <2> USE DEF HoldsProxy, Provisioning, Undo, RollbackCalls, DeleteCalls
    <2>3. CASE CheckExisting(c)
      <3>1. Recorded([r EXCEPT !.pc = "netInspect"])
        BY <2>1, <2>3 DEF CheckExisting, Recorded, Operation, Proxied
      <3> QED BY <1>1, <2>1, <2>3, <3>1, ReturnRecorded DEF CheckExisting
    <2>4. CASE NetworkInspect(c)
      <3>1. r.pc = "netInspect" /\ r.call = "create" /\ ~r.proxy /\ r.made = {}
        BY <2>1, <2>4 DEF NetworkInspect, Recorded
      <3>2. \A p \in {"netCreate", "netVerify"} : Recorded([r EXCEPT !.pc = p])
        BY <2>1, <3>1 DEF Recorded, Operation, Proxied
      <3>3. Recorded(AfterNetwork(r))
        BY <2>1, <3>1, ForwardRecorded
      <3> QED BY <1>1, <2>1, <2>4, <3>2, <3>3, ReturnRecorded DEF NetworkInspect
    <2>5. CASE NetworkCreate(c)
      <3> DEFINE made == [r EXCEPT !.net = TRUE]
                 next == IF Native /\ Proxied(r) THEN [made EXCEPT !.pc = "netVerify"]
                         ELSE AfterNetwork(made)
      <3>1. r.pc = "netCreate" /\ r.call = "create" /\ ~r.proxy /\ r.made = {}
        BY <2>1, <2>5 DEF NetworkCreate, Recorded
      <3>2. made \in Operation /\ made.call = "create" /\ ~made.proxy /\ made.made = {}
        BY <2>1, <3>1 DEF Operation
      <3>3. Recorded([made EXCEPT !.pc = "netVerify"])
        BY <3>2 DEF Recorded, Operation, Proxied
      <3>4. Recorded(AfterNetwork(made))
        BY <3>2, ForwardRecorded
      <3>5. Busy(c) /\ Reply(c, next)
        BY <2>5 DEF NetworkCreate, Busy, AtRest
      <3> QED BY <2>2, <3>3, <3>4, <3>5
    <2>6. CASE NetworkVerify(c)
      <3>1. r.pc = "netVerify" /\ r.call = "create" /\ ~r.proxy /\ r.made = {} /\ Busy(c)
        BY <2>1, <2>6 DEF NetworkVerify, Recorded, Busy, AtRest
      <3>2. Recorded(AfterNetwork(r))
        BY <2>1, <3>1, ForwardRecorded
      <3> QED BY <1>1, <1>2, <2>6, <3>1, <3>2 DEF NetworkVerify
    <2>7. CASE VolumeInspect(c)
      <3>1. r.pc = "volInspect"
        BY <2>7 DEF VolumeInspect
      <3>2. Recorded(AfterVolume(r))
        BY <2>1, <3>1, ForwardRecorded DEF Recorded
      <3>3. Recorded([r EXCEPT !.pc = "volCreate"])
        BY <2>1, <3>1 DEF Recorded, Operation, Proxied
      <3> QED BY <1>1, <2>7, <3>2, <3>3 DEF VolumeInspect
    <2>8. CASE EnsureVolumeCreate(c)
      <3> DEFINE made == [r EXCEPT !.made = @ \cup {r.vol}]
                 next == IF r.vol = "data" THEN AfterVolume(r) ELSE AfterVolume(made)
      <3>1. r.pc = "volCreate" /\ Busy(c) /\ Reply(c, next)
        BY <2>8 DEF EnsureVolumeCreate, Busy, AtRest
      <3>2. Recorded(AfterVolume(r))
        BY <2>1, <3>1, ForwardRecorded DEF Recorded
      <3>3. CASE r.vol # "data"
        <4>1. /\ made \in Operation /\ made.call = "create"
              /\ made.made \subseteq made.want \ {"data"}
              /\ made.vol = r.vol /\ made.want = r.want /\ made.proxy = r.proxy
          BY <2>1, <3>1, <3>3 DEF Operation, Recorded
        <4> HIDE DEF made
        <4>2. Recorded(AfterVolume(made))
          BY <2>1, <3>1, <4>1, ForwardRecorded DEF Recorded, Proxied
        <4> QED BY <2>2, <3>1, <3>3, <4>2
      <3> QED BY <2>2, <3>1, <3>2, <3>3
    <2>9. CASE ProxyCreate(c)
      <3>1. r.pc = "proxyCreate" /\ Busy(c)
        BY <2>9 DEF ProxyCreate, Busy, AtRest
      <3>2. Recorded([r EXCEPT !.pc = "proxyConnect", !.id = nextId])
        BY <2>1, <3>1 DEF Recorded, Operation, Proxied
      <3> QED BY <2>2, <2>9, <3>1, <3>2 DEF ProxyCreate
    <2>10. CASE ProxyConnect(c)
      <3>1. Recorded([r EXCEPT !.pc = "proxyStart"])
        BY <2>1, <2>10 DEF ProxyConnect, Recorded, Operation, Proxied
      <3> QED BY <1>1, <2>10, <3>1 DEF ProxyConnect
    <2>11. CASE ProxyStart(c)
      <3>1. Recorded([r EXCEPT !.pc = "waitCA"]) /\ Busy(c)
        BY <2>1, <2>11 DEF ProxyStart, Recorded, Operation, Proxied, Busy, AtRest
      <3> QED BY <2>2, <2>11, <3>1 DEF ProxyStart
    <2>12. CASE ProxyReady(c)
      <3> DEFINE up == [r EXCEPT !.proxy = TRUE, !.polls = 0]
      <3>1. r.pc \in {"waitCA", "waitListen"} /\ r.call = "create" /\ Proxied(r)
        BY <2>1, <2>12 DEF ProxyReady, Recorded
      <3>2. Recorded([r EXCEPT !.pc = "waitListen", !.polls = 0])
        BY <2>1, <3>1 DEF Recorded, Operation, Proxied
      <3>3. /\ up \in Operation /\ up.call = "create" /\ up.proxy /\ Proxied(up)
            /\ up.made \subseteq up.want \ {"data"}
        BY <2>1, <3>1, PollsType DEF Recorded, Operation, Proxied
      <3>4. Recorded(AfterProxy(up))
        BY <3>3, ForwardRecorded
      <3> QED BY <1>1, <2>12, <3>2, <3>4 DEF ProxyReady
    <2>13. CASE ProxyNotReady(c)
      <3>1. Recorded([r EXCEPT !.polls = @ + 1])
        BY <2>1, <2>13 DEF ProxyNotReady, Recorded, Operation, Proxied
      <3> QED BY <1>1, <2>13, <3>1 DEF ProxyNotReady
    <2>14. CASE ProxyGiveUp(c)
      BY <1>2, <2>14 DEF ProxyGiveUp, Busy, AtRest
    <2>15. CASE SandboxCreate(c)
      <3>1. [r EXCEPT !.id = nextId] \in Operation
        BY <2>1 DEF Operation, TypeOK, EngineTypeOK
      <3>2. Recorded(Return([r EXCEPT !.id = nextId], "ok")) /\ Busy(c)
        BY <2>15, <3>1, ReturnRecorded DEF SandboxCreate, Busy, AtRest
      <3> QED BY <2>2, <2>15, <3>2 DEF SandboxCreate
    <2> QED
      BY <1>4, <2>3, <2>4, <2>5, <2>6, <2>7, <2>8, <2>9, <2>10, <2>11, <2>12, <2>13,
         <2>14, <2>15
      DEF CreateStep
  <1>5. ASSUME NEW c \in Callers, RemovalStep(c) PROVE Records'
    <2> DEFINE r == op[c]
    <2>1. r \in Operation /\ Recorded(r)
      BY <1>0
    <2>2. CASE DeleteInspect(c)
      <3>1. PICK k \in ctrs :
              Goto(c, [r EXCEPT !.pc = "delCtr", !.name = k.name, !.want = k.mounts,
                                !.labels = k.mounts])
        BY <2>2 DEF DeleteInspect
      <3>2. Recorded([r EXCEPT !.pc = "delCtr", !.name = k.name, !.want = k.mounts,
                               !.labels = k.mounts])
        BY <2>1, <2>2
        DEF DeleteInspect, Recorded, Operation, HoldsProxy, Provisioning, Undo,
            RollbackCalls, DeleteCalls
      <3> QED BY <1>1, <3>1, <3>2
    <2>3. CASE ~DeleteInspect(c)
      <3>1. Goto(c, AfterRemoval(r)) /\ r.pc \in Removals
        BY <1>5, <2>3
        DEF RemovalStep, ProxyUndo, ProxyRemoval, NetworkRemoval, VolumeRemoval,
            DeleteContainer, Removals, Undo, RollbackCalls, DeleteCalls
      <3> QED BY <1>1, <2>1, <3>1, AfterRemovalRecorded
    <2> QED BY <2>2, <2>3
  <1>6. ASSUME NEW c \in Callers, Rejected(c) \/ CallCancelled(c) \/ CallFails(c)
        PROVE  Records'
    <2>1. Busy(c) /\ Goto(c, OnError(op[c]))
      BY <1>6 DEF Rejected, Rejects, CallCancelled, CallFails, Busy, AtRest
    <2> QED BY <1>2, <2>1
  <1>7. ASSUME NEW c \in Callers, Cancel(c) PROVE Records'
    <2>1. Goto(c, [op[c] EXCEPT !.live = FALSE])
      BY <1>7 DEF Cancel, Goto, TypeOK
    <2>2. Recorded([op[c] EXCEPT !.live = FALSE])
      BY <1>0 DEF Recorded, Operation, Proxied
    <2> QED BY <1>1, <2>1, <2>2
  <1>8. ASSUME NEW c \in Callers, Crash(c) PROVE Records'
    <2>1. Recorded(Idle)
      BY DEF Idle, Recorded, HoldsProxy, Provisioning, Undo, RollbackCalls, DeleteCalls
    <2> QED BY <1>1, <1>8, <2>1 DEF Crash
  <1>9. CASE UNCHANGED vars
    BY <1>0, <1>9 DEF vars, Records, Recorded, Proxied
  <1> QED
    BY <1>3, <1>4, <1>5, <1>6, <1>7, <1>8, <1>9 DEF Next, DriverStep

\* Whatever fails and however callers interleave, an operation keeps to the
\* steps of its call and records for rollback only what it may remove.
THEOREM RecordsInvariant == Spec => []Records
  <1>1. Init => Records
    BY DEF Init, Idle, Records, Recorded, HoldsProxy, Provisioning, Undo, RollbackCalls,
           DeleteCalls
  <1> QED BY <1>1, RecordsStep, TypeCorrect, PTL DEF Spec

\* The data volume of a sandbox outlives every failed Create, for all callers and
\* faults: ensureVolume does not record it, the rollback removes only what is
\* recorded, so it goes only at that step of a Delete, and not under a mount.
THEOREM DataOutlivesCreateThm == Spec => DataOutlivesCreate
  <1> DEFINE Kept == \A n \in Names :
                       <<"data", n>> \in vols /\ <<"data", n>> \notin vols' =>
                           /\ \E c \in Callers :
                                 op[c].pc = "delVol" /\ op[c].vol = "data" /\ op[c].name = n
                           /\ \A k \in Managed(n) : "data" \notin k.mounts
  <1>1. TypeOK /\ Records /\ [Next]_vars => [Kept]_vars
    <2> SUFFICES ASSUME TypeOK, Records, [Next]_vars PROVE [Kept]_vars
      OBVIOUS
    <2>1. ASSUME NEW c \in Callers, VolumeRemoval(c) PROVE Kept
      <3>1. Recorded(op[c])
        BY DEF Records
      <3>2. op[c].vol = "data" => op[c].pc = "delVol"
        BY <2>1, <3>1 DEF VolumeRemoval, Recorded
      <3>3. \/ vols' = vols
            \/ /\ vols' = vols \ {<<op[c].vol, op[c].name>>}
               /\ VolRemovable(op[c].vol, op[c].name)
        BY <2>1 DEF VolumeRemoval, VolumeRemove, engine
      <3> QED BY <3>2, <3>3 DEF VolRemovable
    <2>2. CASE vols \subseteq vols'
      BY <2>2
    <2>3. CASE UNCHANGED vars
      BY <2>3 DEF vars
    <2>4. ASSUME NEW c \in Callers, Begin(c) \/ Cancel(c) \/ Crash(c)
          PROVE  vols' = vols
      BY <2>4
      DEF Begin, CreateBegin, DeleteBegin, Start, Stop, Cancel, Crash, SetRunning, engine
    <2>5. ASSUME NEW c \in Callers, CreateStep(c) PROVE vols \subseteq vols'
      BY <2>5
      DEF CreateStep, CheckExisting, NetworkInspect, NetworkCreate, NetworkVerify,
          VolumeInspect, EnsureVolumeCreate, ProxyCreate, ProxyConnect, ProxyStart,
          ProxyReady, ProxyNotReady, ProxyGiveUp, SandboxCreate, engine, NetworkSet,
          VolumeCreate, ContainerCreate, SetRunning
    <2>6. ASSUME NEW c \in Callers, RemovalStep(c), ~VolumeRemoval(c) PROVE vols' = vols
      BY <2>6
      DEF RemovalStep, ProxyUndo, ProxyRemoval, NetworkRemoval, DeleteInspect,
          DeleteContainer, ContainerRemove, NetworkSet, engine
    <2>7. ASSUME NEW c \in Callers, Rejected(c) \/ CallCancelled(c) \/ CallFails(c)
          PROVE  vols' = vols
      BY <2>7 DEF Rejected, CallCancelled, CallFails, engine
    <2> QED
      BY <2>1, <2>2, <2>3, <2>4, <2>5, <2>6, <2>7 DEF Next, DriverStep
  <1> QED BY <1>1, TypeCorrect, RecordsInvariant, PTL DEF Spec, DataOutlivesCreate

-----------------------------------------------------------------------------
(* What is on the engine under a name: M its containers, x its network, V   *)
(* the kinds of its volumes.                                                *)

VolsOf(n) == {v \in VolKinds : <<v, n>> \in vols}

Nothing(M, x, V) == M = {} /\ x = "none" /\ V \subseteq {"data"}

\* The sandbox k with all of its parts and nothing else.
Around(k, M, x, V) ==
    /\ k \in M /\ k.role = "sandbox"
    /\ x # "none"
    /\ k.mounts \subseteq V /\ V \subseteq k.mounts \cup {"data"}
    /\ "ca" \notin k.mounts => M = {k}
    /\ "ca" \in k.mounts =>
          \E p \in M : /\ M = {k, p}
                       /\ p.role = "proxy" /\ p.running /\ p.mounts = k.mounts \ {"data"}

Settled(M, x, V) == Nothing(M, x, V) \/ \E k \in M : Around(k, M, x, V)

\* The sidecar of the Create r, and no other container.
OwnSidecar(r, M) ==
    \E p \in M : /\ M = {p} /\ p.id = r.id
                 /\ p.role = "proxy" /\ p.mounts = r.want \ {"data"}
                 /\ r.proxy => p.running

\* What is there is what the rollback of r will remove.
Left(r, M, x, V) ==
    /\ r.proxy => OwnSidecar(r, M)
    /\ ~r.proxy => M = {}
    /\ V \subseteq r.made \cup {"data"}
    /\ x # "none" => r.net

\* A Create on its way: what is there is what it recorded, and every volume the
\* containers will mount is recorded before they are made.
Underway(r, M, x, V) ==
    /\ r.pc \in HoldsProxy => OwnSidecar(r, M) /\ V \subseteq r.made \cup {"data"} /\ r.net
    /\ r.pc \notin HoldsProxy => Left(r, M, x, V)
    /\ r.pc \in NetworkEnsured => x # "none"
    /\ r.pc \in {"volInspect", "volCreate"} /\ r.vol = "ssh" => "ca" \in r.made
    /\ r.pc \in HoldsProxy \cup {"proxyCreate"} => r.want \ {"data"} \subseteq r.made

\* A Delete on its way.
Dismantled(r, M, x, V) ==
    /\ r.pc = "delCtr" =>
          \E k \in M : /\ k.id = r.id /\ r.want = k.mounts /\ r.labels = k.mounts
                       /\ Around(k, M, x, V)
    /\ r.pc # "delCtr" => V \subseteq r.want \cup {"data"} /\ V \cap r.labels \subseteq r.want
    /\ r.pc = "delProxy" => \A k \in M : k.role = "proxy"
    /\ r.pc \in {"delNet", "delVol"} => M = {}
    /\ r.pc = "delVol" => x = "none"

\* What is there fits the operation r on the name, or its end.
Fits(r, M, x, V) ==
    /\ r.pc \in AtRest \cup {"check", "delInspect"} => Settled(M, x, V)
    /\ r.pc \in CreatePlaces \ {"check"} => Underway(r, M, x, V)
    /\ r.pc \in DeleteCalls => Dismantled(r, M, x, V)

Wholeness ==
    /\ \A n \in Names \ spoiled : ~InFlight(n) => Settled(Managed(n), nets[n], VolsOf(n))
    /\ \A c \in Callers :
          Busy(c) /\ op[c].name \notin spoiled =>
              Fits(op[c], Managed(op[c].name), nets[op[c].name], VolsOf(op[c].name))

-----------------------------------------------------------------------------
(* Where the control operators lead, when what is there fits.               *)

\* An operation may return when its name is settled.
LEMMA ReturnFits ==
    ASSUME NEW r \in Operation, NEW o \in {"ok", "err"}, NEW M, NEW x, NEW V,
           Settled(M, x, V)
    PROVE  Fits(Return(r, o), M, x, V)
  <1>1. Return(r, o).pc = o
    BY ReturnFacts
  <1> QED
    BY <1>1 DEF Fits, Provisioning, Undo, RollbackCalls, DeleteCalls

\* The rollback removes all there is, in its order, and then returns.
LEMMA RollbackFits ==
    ASSUME NEW r \in Operation, NEW M, NEW x, NEW V, Left(r, M, x, V)
    PROVE  Fits(Rollback(r), M, x, V)
  <1> USE DEF HoldsProxy, NetworkEnsured, Provisioning, Undo, RollbackCalls, DeleteCalls,
          AtRest
  <1>1. ASSUME NEW t \in Operation, t.pc \in RollbackCalls, t.proxy = r.proxy,
               t.made = r.made, t.net = r.net, t.want = r.want, t.id = r.id
        PROVE  Fits(t, M, x, V)
    BY <1>1 DEF Fits, Underway, Left, OwnSidecar
  <1>2. CASE r.proxy
    BY <1>1, <1>2, RollbackFacts DEF Rollback, Continues, Operation
  <1>3. CASE ~r.proxy /\ r.made # {}
    <2> DEFINE t == [r EXCEPT !.pc = "rbVol", !.vol = FirstVolume(r.made)]
    <2>1. Rollback(r) = t
      BY <1>3 DEF Rollback
    <2>2. t \in Operation
      BY <2>1, RollbackFacts DEF Continues
    <2>3. /\ t.pc = "rbVol" /\ t.proxy = r.proxy /\ t.made = r.made
          /\ t.net = r.net /\ t.want = r.want /\ t.id = r.id
      BY DEF Operation
    <2> HIDE DEF t
    <2> QED BY <1>1, <2>1, <2>2, <2>3
  <1>4. CASE ~r.proxy /\ r.made = {} /\ r.net
    BY <1>1, <1>4, RollbackFacts DEF Rollback, Continues, Operation
  <1>5. CASE ~r.proxy /\ r.made = {} /\ ~r.net
    <2>1. Settled(M, x, V)
      BY <1>5 DEF Left, Settled, Nothing
    <2> QED BY <1>5, <2>1, ReturnFits DEF Rollback
  <1> QED BY <1>2, <1>3, <1>4, <1>5

\* Delete's volume loop, with the containers and the network gone.
LEMMA DeleteVolumesFits ==
    ASSUME NEW r \in Operation, NEW V, V \subseteq r.want \cup {"data"},
           V \cap r.labels \subseteq r.want
    PROVE  Fits(DeleteVolumes(r), {}, "none", V)
  <1>1. CASE r.want = {}
    <2>1. Settled({}, "none", V)
      BY <1>1 DEF Settled, Nothing
    <2> QED BY <1>1, <2>1, ReturnFits DEF DeleteVolumes
  <1>2. CASE r.want # {}
    <2> DEFINE t == [r EXCEPT !.pc = "delVol", !.vol = FirstVolume(r.want)]
    <2>1. DeleteVolumes(r) = t
      BY <1>2 DEF DeleteVolumes
    <2>2. t.pc = "delVol" /\ t.want = r.want /\ t.labels = r.labels
      BY DEF Operation
    <2> HIDE DEF t
    <2> QED
      BY <2>1, <2>2
      DEF Fits, Dismantled, Provisioning, Undo, RollbackCalls, DeleteCalls, AtRest
  <1> QED BY <1>1, <1>2

\* Create's way forward, once the network is there.
LEMMA ForwardFits ==
    ASSUME NEW r \in Operation, NEW M, NEW x, NEW V, Left(r, M, x, V), x # "none"
    PROVE  /\ Fits(AfterProxy(r), M, x, V)
           /\ Fits(AfterNetwork(r), M, x, V)
           /\ (r.vol # "data" => r.vol \in r.made /\ (r.vol = "ssh" => "ca" \in r.made))
              => Fits(AfterVolume(r), M, x, V)
  <1> USE DEF HoldsProxy, NetworkEnsured, Provisioning, Undo, RollbackCalls, DeleteCalls,
          AtRest
  <1>1. ASSUME NEW t, t.proxy = r.proxy, t.made = r.made, t.net = r.net,
               t.want = r.want, t.id = r.id,
               \/ t.pc = "volInspect" /\ (t.vol = "ssh" => "ca" \in r.made)
               \/ t.pc = "proxyCreate" /\ r.want \ {"data"} \subseteq r.made
               \/ t.pc = "create"
        PROVE  Fits(t, M, x, V)
    BY <1>1 DEF Fits, Underway, Left, OwnSidecar
  <1>2. ASSUME NEW v \in VolKinds, v = "ssh" => "ca" \in r.made
        PROVE  Fits(Volume(r, v), M, x, V)
    <2> DEFINE t == Volume(r, v)
    <2>1. /\ t.pc = "volInspect" /\ t.vol = v /\ t.proxy = r.proxy /\ t.made = r.made
          /\ t.net = r.net /\ t.want = r.want /\ t.id = r.id
      BY DEF Operation, Volume
    <2> HIDE DEF t
    <2> QED BY <1>1, <1>2, <2>1 DEF t
  <1>3. ASSUME NEW p \in {"create", "proxyCreate"},
               p = "proxyCreate" => r.want \ {"data"} \subseteq r.made
        PROVE  Fits([r EXCEPT !.pc = p], M, x, V)
    <2> DEFINE t == [r EXCEPT !.pc = p]
    <2>1. /\ t.pc = p /\ t.proxy = r.proxy /\ t.made = r.made
          /\ t.net = r.net /\ t.want = r.want /\ t.id = r.id
      BY DEF Operation
    <2> HIDE DEF t
    <2> QED BY <1>1, <1>3, <2>1 DEF t
  <1>4. Fits(AfterProxy(r), M, x, V)
    BY <1>2, <1>3 DEF AfterProxy, VolKinds
  <1>5. Fits(AfterNetwork(r), M, x, V)
    BY <1>2, <1>4 DEF AfterNetwork, VolKinds
  <1>6. ASSUME r.vol # "data" => r.vol \in r.made /\ (r.vol = "ssh" => "ca" \in r.made)
        PROVE  Fits(AfterVolume(r), M, x, V)
    <2>1. CASE r.vol = "ca" /\ "ssh" \in r.want
      BY <1>2, <1>6, <2>1 DEF AfterVolume, VolKinds
    <2>2. CASE r.vol = "data"
      BY <1>3, <2>2 DEF AfterVolume
    <2>3. CASE r.vol # "data" /\ ~(r.vol = "ca" /\ "ssh" \in r.want)
      <3>1. r.want \ {"data"} \subseteq r.made
        BY <1>6, <2>3 DEF Operation, VolKinds
      <3> QED BY <1>3, <2>3, <3>1 DEF AfterVolume
    <2> QED BY <2>1, <2>2, <2>3
  <1> QED BY <1>4, <1>5, <1>6

\* A call that fails and leaves the engine as it is: what is there still fits.
LEMMA OnErrorFits ==
    ASSUME NEW r \in Operation, Recorded(r), r.pc \notin AtRest, r.pc \notin Removals,
           NEW M, NEW x, NEW V, Fits(r, M, x, V)
    PROVE  Fits(OnError(r), M, x, V)
  <1> USE DEF HoldsProxy, NetworkEnsured, Provisioning, Undo, RollbackCalls, DeleteCalls,
          AtRest, Removals
  <1>1. CASE r.pc \in {"check", "delInspect"}
    <2>1. Settled(M, x, V)
      BY <1>1 DEF Fits
    <2> QED BY <1>1, <2>1, ReturnFits DEF OnError
  <1>2. CASE r.pc = "netCreate" \/ (r.pc = "netVerify" /\ ~r.net)
    <2>1. Settled(M, x, V)
      BY <1>2 DEF Fits, Underway, Left, Recorded, Settled, Nothing
    <2> QED BY <1>2, <2>1, ReturnFits DEF OnError
  <1>3. ASSUME NEW p \in {"netCreate", "netUndo", "volCreate"},
               r.pc \in {"netInspect", "netVerify", "volInspect"},
               p = "volCreate" <=> r.pc = "volInspect"
        PROVE  Fits([r EXCEPT !.pc = p], M, x, V)
    <2> DEFINE t == [r EXCEPT !.pc = p]
    <2>1. /\ t.pc = p /\ t.proxy = r.proxy /\ t.made = r.made /\ t.vol = r.vol
          /\ t.net = r.net /\ t.want = r.want /\ t.id = r.id
      BY DEF Operation
    <2> HIDE DEF t
    <2>2. Fits(t, M, x, V)
      BY <1>3, <2>1 DEF Fits, Underway, Left, OwnSidecar
    <2> QED BY <2>2 DEF t
  <1>4. CASE r.pc \in {"netInspect", "volInspect"} \/ (r.pc = "netVerify" /\ r.net)
    BY <1>3, <1>4 DEF OnError
  <1>5. CASE r.pc \in {"volCreate", "proxyCreate", "create"}
    <2>1. Left(r, M, x, V)
      BY <1>5 DEF Fits, Underway
    <2> QED BY <1>5, <2>1, RollbackFits DEF OnError
  <1>6. CASE r.pc \in {"proxyConnect", "proxyStart", "waitCA", "waitListen"}
    <2> DEFINE t == [r EXCEPT !.pc = "proxyUndo", !.polls = 0]
    <2>1. /\ t.pc = "proxyUndo" /\ t.proxy = r.proxy /\ t.made = r.made
          /\ t.net = r.net /\ t.want = r.want /\ t.id = r.id
      BY DEF Operation
    <2>2. OnError(r) = t
      BY <1>6 DEF OnError
    <2> HIDE DEF t
    <2>3. Fits(t, M, x, V)
      BY <1>6, <2>1 DEF Fits, Underway, OwnSidecar
    <2> QED BY <2>2, <2>3
  <1> QED
    BY <1>1, <1>2, <1>4, <1>5, <1>6 DEF Operation, Locations

-----------------------------------------------------------------------------
(* What a step does to the parts of its own name and to those of others.    *)

SameParts(n) ==
    /\ Managed(n)' = Managed(n)
    /\ nets'[n] = nets[n]
    /\ VolsOf(n)' = VolsOf(n)

OthersSame(m) == \A n \in Names : n # m => SameParts(n)

\* The effects of the engine calls on the name they are about, and on the rest.
LEMMA PartEffects ==
    ASSUME TypeOK, NEW m \in Names
    PROVE  /\ UNCHANGED engine => SameParts(m) /\ OthersSame(m)
           /\ \A x : NetworkSet(m, x) =>
                 /\ OthersSame(m) /\ nets'[m] = x
                 /\ Managed(m)' = Managed(m) /\ VolsOf(m)' = VolsOf(m)
           /\ \A v \in VolKinds :
                 /\ VolumeCreate(v, m) =>
                       /\ OthersSame(m) /\ VolsOf(m)' = VolsOf(m) \cup {v}
                       /\ Managed(m)' = Managed(m) /\ nets'[m] = nets[m]
                 /\ VolumeRemove(v, m) =>
                       /\ OthersSame(m) /\ VolsOf(m)' = VolsOf(m) \ {v}
                       /\ Managed(m)' = Managed(m) /\ nets'[m] = nets[m]
           /\ \A gone : ContainerRemove(gone) /\ (\A k \in ctrs \cap gone : k.name = m) =>
                 /\ OthersSame(m) /\ Managed(m)' = Managed(m) \ gone
                 /\ nets'[m] = nets[m] /\ VolsOf(m)' = VolsOf(m)
  <1>1. UNCHANGED engine => SameParts(m) /\ OthersSame(m)
    BY DEF engine, SameParts, OthersSame, Managed, VolsOf
  <1>2. ASSUME NEW x, NetworkSet(m, x)
        PROVE  /\ OthersSame(m) /\ nets'[m] = x
               /\ Managed(m)' = Managed(m) /\ VolsOf(m)' = VolsOf(m)
    <2>1. ctrs' = ctrs /\ vols' = vols /\ nets' = [nets EXCEPT ![m] = x]
      BY <1>2 DEF NetworkSet
    <2>2. nets'[m] = x /\ \A n \in Names : n # m => nets'[n] = nets[n]
      BY <2>1 DEF TypeOK, EngineTypeOK
    <2>3. \A n \in Names : Managed(n)' = Managed(n) /\ VolsOf(n)' = VolsOf(n)
      BY <2>1 DEF Managed, VolsOf
    <2> QED BY <2>2, <2>3 DEF OthersSame, SameParts
  <1>3. ASSUME NEW v \in VolKinds, VolumeCreate(v, m)
        PROVE  /\ OthersSame(m) /\ VolsOf(m)' = VolsOf(m) \cup {v}
               /\ Managed(m)' = Managed(m) /\ nets'[m] = nets[m]
    <2>1. ctrs' = ctrs /\ nets' = nets /\ vols' = vols \cup {<<v, m>>}
      BY <1>3 DEF VolumeCreate
    <2>2. \A n \in Names : Managed(n)' = Managed(n) /\ nets'[n] = nets[n]
      BY <2>1 DEF Managed
    <2>3. \A n \in Names : n # m => VolsOf(n)' = VolsOf(n)
      BY <2>1 DEF VolsOf
    <2>4. VolsOf(m)' = VolsOf(m) \cup {v}
      BY <2>1 DEF VolsOf
    <2> QED BY <2>2, <2>3, <2>4 DEF OthersSame, SameParts
  <1>4. ASSUME NEW v \in VolKinds, VolumeRemove(v, m)
        PROVE  /\ OthersSame(m) /\ VolsOf(m)' = VolsOf(m) \ {v}
               /\ Managed(m)' = Managed(m) /\ nets'[m] = nets[m]
    <2>1. ctrs' = ctrs /\ nets' = nets /\ vols' = vols \ {<<v, m>>}
      BY <1>4 DEF VolumeRemove
    <2>2. \A n \in Names : Managed(n)' = Managed(n) /\ nets'[n] = nets[n]
      BY <2>1 DEF Managed
    <2>3. \A n \in Names : n # m => VolsOf(n)' = VolsOf(n)
      BY <2>1 DEF VolsOf
    <2>4. VolsOf(m)' = VolsOf(m) \ {v}
      BY <2>1 DEF VolsOf
    <2> QED BY <2>2, <2>3, <2>4 DEF OthersSame, SameParts
  <1>5. ASSUME NEW gone, ContainerRemove(gone), \A k \in ctrs \cap gone : k.name = m
        PROVE  /\ OthersSame(m) /\ Managed(m)' = Managed(m) \ gone
               /\ nets'[m] = nets[m] /\ VolsOf(m)' = VolsOf(m)
    <2>1. ctrs' = ctrs \ gone /\ nets' = nets /\ vols' = vols
      BY <1>5 DEF ContainerRemove
    <2>2. \A n \in Names : n # m => Managed(n)' = Managed(n)
      BY <1>5, <2>1 DEF Managed
    <2>3. Managed(m)' = Managed(m) \ gone
      BY <2>1 DEF Managed
    <2>4. \A n \in Names : nets'[n] = nets[n] /\ VolsOf(n)' = VolsOf(n)
      BY <2>1 DEF VolsOf
    <2> QED BY <2>2, <2>3, <2>4 DEF OthersSame, SameParts
  <1> QED BY <1>1, <1>2, <1>3, <1>4, <1>5

\* A new container, with the volumes it mounts.
LEMMA CreateEffects ==
    ASSUME TypeOK, NEW m \in Names, NEW w \in SUBSET VolKinds, NEW cn, NEW x,
           ContainerCreate(cn, x, m, w)
    PROVE  /\ OthersSame(m) /\ nets'[m] = nets[m] /\ VolsOf(m)' = VolsOf(m) \cup w
           /\ Managed(m)' = Managed(m) \cup
                 {[cname |-> cn, id |-> nextId, role |-> x, name |-> m, mounts |-> w,
                   running |-> FALSE]}
  <1> DEFINE new == [cname |-> cn, id |-> nextId, role |-> x, name |-> m, mounts |-> w,
                     running |-> FALSE]
  <1>1. /\ ctrs' = ctrs \cup {new} /\ nets' = nets
        /\ vols' = vols \cup {<<v, m>> : v \in w}
    BY DEF ContainerCreate
  <1>2. new.name = m
    OBVIOUS
  <1> HIDE DEF new
  <1>3. Managed(m)' = Managed(m) \cup {new}
    BY <1>1, <1>2 DEF Managed
  <1>4. \A n \in Names : n # m => Managed(n)' = Managed(n)
    BY <1>1, <1>2 DEF Managed
  <1>5. VolsOf(m)' = VolsOf(m) \cup w
    BY <1>1 DEF VolsOf
  <1>6. \A n \in Names : n # m => VolsOf(n)' = VolsOf(n)
    BY <1>1 DEF VolsOf
  <1> QED BY <1>1, <1>3, <1>4, <1>5, <1>6 DEF OthersSame, SameParts, new

\* Starting or stopping the container with an id.
LEMMA RunningEffects ==
    ASSUME TypeOK, CtrIdentity, NEW k \in ctrs, NEW b \in BOOLEAN, SetRunning(k.id, b)
    PROVE  /\ OthersSame(k.name) /\ nets'[k.name] = nets[k.name]
           /\ VolsOf(k.name)' = VolsOf(k.name)
           /\ Managed(k.name)' = (Managed(k.name) \ {k}) \cup {[k EXCEPT !.running = b]}
  <1>1. /\ ctrs' = {IF j.id = k.id THEN [j EXCEPT !.running = b] ELSE j : j \in ctrs}
        /\ nets' = nets /\ vols' = vols
    BY DEF SetRunning
  <1>2. \A j \in ctrs : j.id = k.id => j = k
    BY DEF CtrIdentity
  <1> DEFINE new == [k EXCEPT !.running = b]
  <1>3. ctrs' = (ctrs \ {k}) \cup {new}
    BY <1>1, <1>2
  <1>4. new.name = k.name
    BY DEF TypeOK, EngineTypeOK, Container
  <1> HIDE DEF new
  <1>5. Managed(k.name)' = (Managed(k.name) \ {k}) \cup {new}
    BY <1>3, <1>4 DEF Managed
  <1>6. \A n \in Names : n # k.name => Managed(n)' = Managed(n)
    BY <1>3, <1>4 DEF Managed
  <1>7. \A n \in Names : nets'[n] = nets[n] /\ VolsOf(n)' = VolsOf(n)
    BY <1>1 DEF VolsOf
  <1>8. k.name \in Names
    BY DEF TypeOK, EngineTypeOK, Container
  <1> QED BY <1>5, <1>6, <1>7, <1>8 DEF OthersSame, SameParts, new

-----------------------------------------------------------------------------
(* Wholeness is inductive with TypeOK, Identity, Confinement and Records.   *)

\* A step of a running operation that changes nothing of other names, and after
\* which what is there fits the operation, unless the name is spoiled.
LEMMA WholenessGoto ==
    ASSUME TypeOK, Confinement, Wholeness, NEW c \in Callers, Busy(c),
           NEW n \in Names, n = op[c].name, OthersSame(n), spoiled \subseteq spoiled',
           NEW t, Goto(c, t), t.name = n \/ t.pc \in AtRest,
           n \notin spoiled' => Fits(t, Managed(n)', nets'[n], VolsOf(n)')
    PROVE  Wholeness'
  <1>1. op'[c] = t /\ \A d \in Callers : d # c => op'[d] = op[d]
    BY DEF Goto, TypeOK
  <1>2. ASSUME NEW m \in Names, m \notin spoiled', ~InFlight(m)'
        PROVE  Settled(Managed(m)', nets'[m], VolsOf(m)')
    <2>1. CASE m = n
      <3>1. t.pc \in AtRest
        BY <1>1, <1>2, <2>1 DEF InFlight, Busy
      <3> QED BY <1>2, <2>1, <3>1 DEF Fits
    <2>2. CASE m # n
      <3>1. ~InFlight(m)
        BY <1>1, <1>2, <2>2 DEF InFlight, Busy
      <3>2. Settled(Managed(m), nets[m], VolsOf(m))
        BY <1>2, <3>1 DEF Wholeness
      <3>3. SameParts(m)
        BY <2>2 DEF OthersSame
      <3> QED BY <3>2, <3>3 DEF SameParts
    <2> QED BY <2>1, <2>2
  <1>3. ASSUME NEW d \in Callers, Busy(d)', NEW m, m = op'[d].name, m \notin spoiled'
        PROVE  Fits(op'[d], Managed(m)', nets'[m], VolsOf(m)')
    <2>1. CASE d = c
      <3>1. m = n
        BY <1>1, <1>3, <2>1 DEF Busy
      <3> QED BY <1>1, <1>3, <2>1, <3>1
    <2>2. CASE d # c
      <3>1. op'[d] = op[d] /\ Busy(d) /\ m \in Names /\ m # n
        BY <1>1, <1>3, <2>2, OpTypes DEF Busy, Confinement
      <3>2. Fits(op[d], Managed(m), nets[m], VolsOf(m))
        BY <1>3, <3>1 DEF Wholeness
      <3>3. SameParts(m)
        BY <3>1 DEF OthersSame
      <3> QED BY <3>1, <3>2, <3>3 DEF SameParts
    <2> QED BY <2>1, <2>2
  <1> QED BY <1>2, <1>3 DEF Wholeness

\* A step of a running operation that changes nothing on the engine.
LEMMA WholenessCalm ==
    ASSUME TypeOK, Confinement, Wholeness, NEW c \in Callers, Busy(c),
           NEW n \in Names, n = op[c].name, UNCHANGED engine, spoiled \subseteq spoiled',
           NEW t, Goto(c, t), t.name = n,
           n \notin spoiled' => Fits(t, Managed(n), nets[n], VolsOf(n))
    PROVE  Wholeness'
  <1>1. SameParts(n) /\ OthersSame(n)
    BY PartEffects
  <1>2. n \notin spoiled' => Fits(t, Managed(n)', nets'[n], VolsOf(n)')
    BY <1>1 DEF SameParts
  <1> QED BY <1>1, <1>2, WholenessGoto

\* An operation begins on a name that no other operation is about.
LEMMA WholenessBegin ==
    ASSUME TypeOK, Wholeness, NEW c \in Callers, ~Busy(c), UNCHANGED engine, NoFault,
           NEW t, Goto(c, t), t.pc \in {"check", "delInspect"}, t.name \in Names,
           ~InFlight(t.name)
    PROVE  Wholeness'
  <1>1. op'[c] = t /\ \A d \in Callers : d # c => op'[d] = op[d]
    BY DEF Goto, TypeOK
  <1>2. spoiled' = spoiled /\ \A n \in Names : SameParts(n)
    BY PartEffects DEF NoFault
  <1>3. ASSUME NEW m \in Names, m \notin spoiled', ~InFlight(m)'
        PROVE  Settled(Managed(m)', nets'[m], VolsOf(m)')
    <2>1. ~InFlight(m)
      BY <1>1, <1>3 DEF InFlight, Busy
    <2> QED BY <1>2, <1>3, <2>1 DEF Wholeness, SameParts
  <1>4. ASSUME NEW d \in Callers, Busy(d)', NEW m, m = op'[d].name, m \notin spoiled'
        PROVE  Fits(op'[d], Managed(m)', nets'[m], VolsOf(m)')
    <2>1. CASE d = c
      <3>1. Settled(Managed(m), nets[m], VolsOf(m)) /\ m \in Names
        BY <1>1, <1>2, <1>4, <2>1 DEF Wholeness
      <3>2. Fits(t, Managed(m), nets[m], VolsOf(m))
        BY <3>1 DEF Fits, Provisioning, Undo, RollbackCalls, DeleteCalls
      <3> QED BY <1>1, <1>2, <2>1, <3>1, <3>2 DEF SameParts
    <2>2. CASE d # c
      <3>1. op'[d] = op[d] /\ Busy(d) /\ m \in Names
        BY <1>1, <1>4, <2>2, OpTypes DEF Busy
      <3>2. Fits(op[d], Managed(m), nets[m], VolsOf(m))
        BY <1>2, <1>4, <3>1 DEF Wholeness
      <3> QED BY <1>2, <3>1, <3>2 DEF SameParts
    <2> QED BY <2>1, <2>2
  <1> QED BY <1>3, <1>4 DEF Wholeness

\* Start and Stop leave a settled sandbox settled.
LEMMA WholenessRunning ==
    ASSUME TypeOK, Identity, Wholeness, NEW k \in Sandboxes, NEW b \in BOOLEAN,
           SetRunning(k.id, b), UNCHANGED op, NoFault, ~InFlight(k.name)
    PROVE  Wholeness'
  <1> DEFINE n == k.name
             new == [k EXCEPT !.running = b]
  <1>1. k \in ctrs /\ n \in Names /\ k \in Managed(n) /\ k.role = "sandbox"
    BY DEF Sandboxes, Managed, TypeOK, EngineTypeOK, Container
  <1>2. /\ OthersSame(n) /\ nets'[n] = nets[n] /\ VolsOf(n)' = VolsOf(n)
        /\ Managed(n)' = (Managed(n) \ {k}) \cup {new}
    BY <1>1, RunningEffects DEF Identity
  <1>3. new.role = "sandbox" /\ new.mounts = k.mounts
    BY <1>1 DEF TypeOK, EngineTypeOK, Container
  <1> HIDE DEF new
  <1>4. ASSUME NEW M, NEW x, NEW V, k \in M, Settled(M, x, V)
        PROVE  Settled((M \ {k}) \cup {new}, x, V)
    <2>1. PICK j \in M : Around(j, M, x, V)
      BY <1>4 DEF Settled, Nothing
    <2>2. j = k
      BY <1>1, <1>4, <2>1 DEF Around
    <2>3. Around(new, (M \ {k}) \cup {new}, x, V)
      <3>1. CASE "ca" \notin k.mounts
        BY <1>3, <2>1, <2>2, <3>1 DEF Around
      <3>2. CASE "ca" \in k.mounts
        <4>1. PICK p \in M : /\ M = {k, p} /\ p.role = "proxy" /\ p.running
                             /\ p.mounts = k.mounts \ {"data"}
          BY <2>1, <2>2, <3>2 DEF Around
        <4>2. (M \ {k}) \cup {new} = {new, p}
          BY <1>1, <4>1
        <4> QED BY <1>3, <2>1, <2>2, <3>2, <4>1, <4>2 DEF Around
      <3> QED BY <3>1, <3>2
    <2> QED BY <2>3 DEF Settled
  <1>5. op' = op /\ spoiled' = spoiled
    BY DEF NoFault
  <1>6. ASSUME NEW m \in Names, m \notin spoiled, ~InFlight(m)'
        PROVE  Settled(Managed(m)', nets'[m], VolsOf(m)')
    <2>1. Settled(Managed(m), nets[m], VolsOf(m))
      BY <1>5, <1>6 DEF Wholeness, InFlight, Busy
    <2>2. CASE m = n
      BY <1>1, <1>2, <1>4, <2>1, <2>2
    <2>3. CASE m # n
      BY <1>2, <2>1, <2>3 DEF OthersSame, SameParts
    <2> QED BY <2>2, <2>3
  <1>7. ASSUME NEW d \in Callers, Busy(d), NEW m, m = op[d].name, m \notin spoiled
        PROVE  Fits(op[d], Managed(m)', nets'[m], VolsOf(m)')
    <2>1. m \in Names /\ m # n
      BY <1>7, OpTypes DEF InFlight
    <2>2. Fits(op[d], Managed(m), nets[m], VolsOf(m))
      BY <1>7 DEF Wholeness
    <2> QED BY <1>2, <2>1, <2>2 DEF OthersSame, SameParts
  <1> QED BY <1>5, <1>6, <1>7 DEF Wholeness, Busy

\* The steps of Create.
LEMMA WholenessCreate ==
    ASSUME TypeOK, Identity, Confinement, Records, Wholeness,
           NEW c \in Callers, CreateStep(c)
    PROVE  Wholeness'
  <1> PICK n \in Names : n = op[c].name
    BY OpTypes
  <1> DEFINE r == op[c]
             M == Managed(n)
             x == nets[n]
             V == VolsOf(n)
  <1>1. r \in Operation /\ r.name = n /\ Recorded(r)
    BY OpTypes DEF Records
  <1>2. Busy(c)
    BY DEF CreateStep, CheckExisting, NetworkInspect, NetworkCreate, NetworkVerify,
           VolumeInspect, EnsureVolumeCreate, ProxyCreate, ProxyConnect, ProxyStart,
           ProxyReady, ProxyNotReady, ProxyGiveUp, SandboxCreate, Busy, AtRest
  <1>3. n \notin spoiled => Fits(r, M, x, V)
    BY <1>1, <1>2 DEF Wholeness
  <1>4. x \in NetModes /\ V \subseteq VolKinds
    BY <1>1 DEF TypeOK, EngineTypeOK, VolsOf
  <1>5. OnError(r).name = n
    BY <1>1, <1>2, OnErrorFacts DEF Busy, Continues
  <1>6. r.pc \notin Removals => (n \notin spoiled => Fits(OnError(r), M, x, V))
    BY <1>1, <1>2, <1>3, OnErrorFits DEF Busy
  \* A step that leaves the engine alone.
  <1>7. ASSUME NEW t, Goto(c, t), t.name = n, UNCHANGED engine, NoFault,
               n \notin spoiled => Fits(t, M, x, V)
        PROVE  Wholeness'
    BY <1>1, <1>2, <1>7, WholenessCalm DEF NoFault
  \* A creation: its lost answer spoils the name.
  <1>8. ASSUME NEW t, Reply(c, t), t.name = n, OthersSame(n),
               r.pc \in {"netCreate", "volCreate", "proxyCreate", "create"},
               n \notin spoiled => Fits(t, Managed(n)', nets'[n], VolsOf(n)')
        PROVE  Wholeness'
    <2>1. CASE Goto(c, t) /\ NoFault
      BY <1>1, <1>2, <1>8, <2>1, WholenessGoto DEF NoFault
    <2>2. CASE Goto(c, OnError(r)) /\ spoiled' = spoiled \cup {n}
      BY <1>1, <1>2, <1>5, <1>8, <2>2, WholenessGoto
    <2> QED BY <1>8, <2>1, <2>2 DEF Reply
  <1> HIDE DEF M, x, V
  <1> USE DEF HoldsProxy, NetworkEnsured, Provisioning, Undo, RollbackCalls, DeleteCalls,
          Removals
  <1>9. CASE CheckExisting(c)
    <2> DEFINE t == [r EXCEPT !.pc = "netInspect"]
    <2>1. r.pc = "check" /\ UNCHANGED engine /\ NoFault
      BY <1>9 DEF CheckExisting
    <2>2. n \notin spoiled => Settled(M, x, V)
      BY <1>3, <2>1 DEF Fits
    <2>3. CASE M # {}
      <3>1. Return(r, "err").name = n
        BY <1>1, ReturnFacts DEF Continues
      <3>2. n \notin spoiled => Fits(Return(r, "err"), M, x, V)
        BY <1>1, <2>2, ReturnFits
      <3> QED BY <1>7, <1>9, <2>1, <2>3, <3>1, <3>2 DEF CheckExisting, M
    <2>4. CASE M = {}
      <3>1. /\ t.pc = "netInspect" /\ t.name = n /\ t.made = r.made /\ t.net = r.net
            /\ t.proxy = r.proxy
        BY <1>1 DEF Operation
      <3>2. Goto(c, t)
        BY <1>9, <2>4 DEF CheckExisting, M
      <3> HIDE DEF t
      <3>3. n \notin spoiled => Nothing(M, x, V)
        BY <2>2, <2>4 DEF Settled
      <3>4. n \notin spoiled => Fits(t, M, x, V)
        BY <1>1, <2>1, <3>1, <3>3 DEF Fits, Underway, Left, Nothing, Recorded, AtRest
      <3> QED BY <1>7, <2>1, <3>1, <3>2, <3>4
    <2> QED BY <2>3, <2>4
  <1>10. CASE NetworkInspect(c)
    <2>1. r.pc = "netInspect" /\ UNCHANGED engine /\ NoFault
      BY <1>10 DEF NetworkInspect
    <2>2. CASE x = "none"
      <3>1. Goto(c, OnError(r))
        BY <1>10, <2>1, <2>2 DEF NetworkInspect, OnError, x
      <3> QED BY <1>5, <1>6, <1>7, <2>1, <3>1
    <2>3. CASE x # "none"
      <3>1. n \in spoiled
        BY <1>1, <1>3, <2>1, <2>3 DEF Fits, Underway, Left, Recorded
      <3>2. PICK t \in {Return(r, "err"), [r EXCEPT !.pc = "netVerify"], AfterNetwork(r)} :
               Goto(c, t)
        BY <1>4, <1>10, <2>3 DEF NetworkInspect, x, NetModes
      <3>3. t.name = n
        BY <1>1, <3>2, ReturnFacts, ProvisioningFacts DEF Continues, Operation
      <3> QED BY <1>7, <2>1, <3>1, <3>2, <3>3
    <2> QED BY <2>2, <2>3
  <1>11. CASE NetworkCreate(c)
    <2> DEFINE made == [r EXCEPT !.net = TRUE]
               verify == [made EXCEPT !.pc = "netVerify"]
               next == IF Native /\ Proxied(r) THEN verify ELSE AfterNetwork(made)
    <2>1. PICK mode \in NewModes(r) :
             r.pc = "netCreate" /\ Reply(c, next) /\ NetworkSet(n, mode)
      BY <1>11 DEF NetworkCreate
    <2>10. mode # "none"
      BY DEF NewModes
    <2>2. /\ made \in Operation /\ made.net /\ made.proxy = r.proxy /\ made.made = r.made
          /\ made.name = n
          /\ verify.pc = "netVerify" /\ verify.net /\ verify.proxy = r.proxy
          /\ verify.made = r.made /\ verify.name = n
      BY <1>1 DEF Operation
    <2> HIDE DEF made, verify
    <2>3. next.name = n
      BY <2>2, ProvisioningFacts DEF Continues
    <2>4. OthersSame(n) /\ nets'[n] = mode /\ Managed(n)' = M /\ VolsOf(n)' = V
      BY <1>1, <2>1, PartEffects DEF M, V
    <2>5. n \notin spoiled => M = {} /\ V \subseteq {"data"} /\ ~r.proxy /\ r.made = {}
      BY <1>1, <1>3, <2>1 DEF Fits, Underway, Left, Recorded
    <2>6. n \notin spoiled => Left(made, M, mode, V) /\ Left(verify, M, mode, V)
      BY <2>2, <2>5 DEF Left
    <2>7. n \notin spoiled => Fits(verify, M, mode, V)
      BY <2>2, <2>6 DEF Fits, Underway, AtRest
    <2>8. n \notin spoiled => Fits(AfterNetwork(made), M, mode, V)
      BY <2>2, <2>6, <2>10, ForwardFits
    <2>9. n \notin spoiled => Fits(next, M, mode, V)
      BY <2>7, <2>8
    <2> QED BY <1>8, <2>1, <2>3, <2>4, <2>9
  <1>12. CASE NetworkVerify(c)
    <2>1. r.pc = "netVerify" /\ UNCHANGED engine /\ NoFault
      BY <1>12 DEF NetworkVerify
    <2>2. CASE x = "isolated"
      <3>1. n \notin spoiled => Fits(AfterNetwork(r), M, x, V)
        BY <1>1, <1>3, <2>1, <2>2, ForwardFits DEF Fits, Underway
      <3>2. AfterNetwork(r).name = n /\ Goto(c, AfterNetwork(r))
        BY <1>1, <1>12, <2>2, ProvisioningFacts DEF NetworkVerify, Continues, x
      <3> QED BY <1>7, <2>1, <3>1, <3>2
    <2>3. CASE x # "isolated"
      BY <1>5, <1>6, <1>7, <1>12, <2>1, <2>3 DEF NetworkVerify, x
    <2> QED BY <2>2, <2>3
  <1>13. CASE VolumeInspect(c)
    <2>1. r.pc = "volInspect" /\ UNCHANGED engine /\ NoFault
      BY <1>13 DEF VolumeInspect
    <2>2. CASE r.vol \in V
      <3>1. n \notin spoiled => Fits(AfterVolume(r), M, x, V)
        BY <1>1, <1>3, <2>1, <2>2, ForwardFits DEF Fits, Underway, Left
      <3>2. AfterVolume(r).name = n /\ Goto(c, AfterVolume(r))
        BY <1>1, <1>13, <2>2, ProvisioningFacts DEF VolumeInspect, Continues, V, VolsOf
      <3> QED BY <1>7, <2>1, <3>1, <3>2
    <2>3. CASE r.vol \notin V
      <3>1. r.vol \in VolKinds
        BY <1>1 DEF Operation
      <3>2. Goto(c, OnError(r))
        BY <1>13, <2>1, <2>3, <3>1 DEF VolumeInspect, OnError, V, VolsOf
      <3> QED BY <1>5, <1>6, <1>7, <2>1, <3>2
    <2> QED BY <2>2, <2>3
  <1>14. CASE EnsureVolumeCreate(c)
    <2> DEFINE made == [r EXCEPT !.made = @ \cup {r.vol}]
               next == IF r.vol = "data" THEN AfterVolume(r) ELSE AfterVolume(made)
               W == V \cup {r.vol}
    <2>1. r.pc = "volCreate" /\ Reply(c, next) /\ VolumeCreate(r.vol, n)
      BY <1>14 DEF EnsureVolumeCreate
    <2>2. /\ made \in Operation /\ made.net = r.net /\ made.proxy = r.proxy
          /\ made.made = r.made \cup {r.vol} /\ made.name = n /\ made.vol = r.vol
          /\ made.want = r.want /\ made.id = r.id /\ r.vol \in VolKinds
      BY <1>1 DEF Operation
    <2> HIDE DEF made
    <2>3. next.name = n
      BY <1>1, <2>2, ProvisioningFacts DEF Continues
    <2>4. OthersSame(n) /\ nets'[n] = x /\ Managed(n)' = M /\ VolsOf(n)' = W
      BY <1>1, <2>1, <2>2, PartEffects DEF M, V, x
    <2>5. n \notin spoiled => /\ Left(r, M, x, V) /\ x # "none"
                              /\ r.vol = "ssh" => "ca" \in r.made
      BY <1>3, <2>1 DEF Fits, Underway
    <2>6. r.vol = "data" /\ n \notin spoiled => Fits(AfterVolume(r), M, x, W)
      <3>1. r.vol = "data" /\ n \notin spoiled => Left(r, M, x, W)
        BY <2>5 DEF Left
      <3> QED BY <1>1, <2>5, <3>1, ForwardFits
    <2>7. r.vol # "data" /\ n \notin spoiled => Fits(AfterVolume(made), M, x, W)
      <3>1. n \notin spoiled => Left(made, M, x, W)
        BY <2>2, <2>5 DEF Left, OwnSidecar
      <3> QED BY <2>2, <2>5, <3>1, ForwardFits
    <2> QED BY <1>8, <2>1, <2>3, <2>4, <2>6, <2>7
  <1>15. CASE ProxyCreate(c)
    <2> DEFINE t == [r EXCEPT !.pc = "proxyConnect", !.id = nextId]
               w == r.want \ {"data"}
               new == [cname |-> ProxyName[n], id |-> nextId, role |-> "proxy", name |-> n,
                       mounts |-> w, running |-> FALSE]
    <2>1. /\ r.pc = "proxyCreate" /\ Reply(c, t)
          /\ ContainerCreate(ProxyName[n], "proxy", n, w)
      BY <1>15 DEF ProxyCreate
    <2>2. w \in SUBSET VolKinds
      BY <1>1 DEF Operation
    <2>3. /\ OthersSame(n) /\ nets'[n] = x /\ VolsOf(n)' = V \cup w
          /\ Managed(n)' = M \cup {new}
      BY <1>1, <2>1, <2>2, CreateEffects DEF M, V, x
    <2>4. /\ t.pc = "proxyConnect" /\ t.id = nextId /\ t.name = n /\ t.want = r.want
          /\ t.proxy = r.proxy /\ t.net = r.net /\ t.made = r.made
          /\ new.id = nextId /\ new.role = "proxy" /\ new.mounts = r.want \ {"data"}
      BY <1>1 DEF Operation
    <2> HIDE DEF t, new
    <2>5. n \notin spoiled =>
             /\ ~r.proxy /\ M = {} /\ V \subseteq r.made \cup {"data"} /\ r.net
             /\ x # "none" /\ w \subseteq r.made
      BY <1>1, <1>3, <2>1 DEF Fits, Underway, Left, Recorded
    <2>6. n \notin spoiled => OwnSidecar(t, M \cup {new})
      BY <2>4, <2>5 DEF OwnSidecar
    <2>7. n \notin spoiled => Fits(t, M \cup {new}, x, V \cup w)
      BY <2>4, <2>5, <2>6 DEF Fits, Underway, AtRest
    <2> QED BY <1>8, <2>1, <2>3, <2>4, <2>7
  \* From one wait for the sidecar to the next.
  <1>16. ASSUME NEW t, t.pc \in HoldsProxy \ {"proxyUndo"}, r.pc \in HoldsProxy,
                t.id = r.id, t.want = r.want, t.proxy = r.proxy, t.net = r.net,
                t.made = r.made, n \notin spoiled, x # "none"
         PROVE  Fits(t, M, x, V)
    BY <1>3, <1>16 DEF Fits, Underway, OwnSidecar, AtRest
  <1>17. r.pc \in NetworkEnsured /\ n \notin spoiled => x # "none"
    BY <1>3 DEF Fits, Underway
  <1>18. CASE ProxyConnect(c) \/ ProxyNotReady(c)
    <2>1. PICK t \in {[r EXCEPT !.pc = "proxyStart"], [r EXCEPT !.polls = @ + 1]} :
             /\ Goto(c, t) /\ UNCHANGED engine /\ NoFault
             /\ t.pc \in HoldsProxy \ {"proxyUndo"}
             /\ r.pc \in HoldsProxy \ {"proxyUndo"}
      BY <1>1, <1>18 DEF ProxyConnect, ProxyNotReady, Operation
    <2>2. /\ t.id = r.id /\ t.want = r.want /\ t.proxy = r.proxy /\ t.net = r.net
          /\ t.made = r.made /\ t.name = n
      BY <1>1, <2>1 DEF Operation
    <2> QED BY <1>7, <1>16, <1>17, <2>1, <2>2
  <1>19. CASE ProxyStart(c)
    <2> DEFINE t == [r EXCEPT !.pc = "waitCA"]
    <2>1. r.pc = "proxyStart" /\ Reply(c, t)
      BY <1>19 DEF ProxyStart
    <2>2. PICK k \in ctrs : k.id = r.id /\ SetRunning(k.id, TRUE)
      BY <1>19 DEF ProxyStart, CanStart
    <2> DEFINE up == [k EXCEPT !.running = TRUE]
               M1 == (M \ {k}) \cup {up}
    <2>3. k.name = n /\ k.role = "proxy" /\ k \in M
      BY <2>1, <2>2 DEF Identity, HoldsOwn, M, Managed
    <2>4. OthersSame(n) /\ nets'[n] = x /\ VolsOf(n)' = V /\ Managed(n)' = M1
      BY <2>2, <2>3, RunningEffects DEF M, V, x, Identity
    <2>5. up.id = r.id /\ up.role = "proxy" /\ up.running /\ up.mounts = k.mounts
      BY <2>2, <2>3 DEF TypeOK, EngineTypeOK, Container
    <2>6. /\ t.pc = "waitCA" /\ t.id = r.id /\ t.want = r.want /\ t.proxy = r.proxy
          /\ t.net = r.net /\ t.made = r.made /\ t.name = n
      BY <1>1 DEF Operation
    <2> HIDE DEF up, t
    <2>7. n \notin spoiled => OwnSidecar(r, M1)
      <3> SUFFICES ASSUME n \notin spoiled PROVE OwnSidecar(r, M1)
        OBVIOUS
      <3>1. PICK p \in M : M = {p} /\ p.mounts = r.want \ {"data"}
        BY <1>3, <2>1 DEF Fits, Underway, OwnSidecar
      <3>2. p = k /\ M1 = {up}
        BY <2>3, <3>1
      <3> QED BY <2>5, <3>1, <3>2 DEF OwnSidecar
    <2>8. n \notin spoiled => Fits(r, M1, x, V)
      BY <1>3, <2>1, <2>7 DEF Fits, Underway, AtRest
    <2>9. n \notin spoiled => Fits(OnError(r), M1, x, V)
      BY <1>1, <2>1, <2>8, OnErrorFits DEF AtRest
    <2>10. n \notin spoiled => Fits(t, M1, x, V)
      BY <2>1, <2>6, <2>8 DEF Fits, Underway, OwnSidecar, AtRest
    <2>11. /\ Goto(c, t) \/ Goto(c, OnError(r))
           /\ spoiled' = spoiled
      BY <2>1 DEF Reply, NoFault
    <2> HIDE DEF M1
    <2> QED
      BY <1>1, <1>2, <1>5, <2>4, <2>6, <2>9, <2>10, <2>11, WholenessGoto
  <1>20. CASE ProxyReady(c)
    <2> DEFINE up == [r EXCEPT !.proxy = TRUE, !.polls = 0]
               listen == [r EXCEPT !.pc = "waitListen", !.polls = 0]
    <2>1. r.pc \in {"waitCA", "waitListen"} /\ UNCHANGED engine /\ NoFault
      BY <1>20 DEF ProxyReady
    <2>2. CASE r.pc = "waitCA"
      <3>1. /\ listen.pc = "waitListen" /\ listen.id = r.id /\ listen.want = r.want
            /\ listen.proxy = r.proxy /\ listen.net = r.net /\ listen.made = r.made
            /\ listen.name = n
        BY <1>1 DEF Operation
      <3>2. Goto(c, listen)
        BY <1>20, <2>2 DEF ProxyReady
      <3> HIDE DEF listen
      <3> QED BY <1>7, <1>16, <1>17, <2>1, <2>2, <3>1, <3>2
    <2>3. CASE r.pc = "waitListen"
      <3>1. PICK k \in ctrs : k.id = r.id /\ k.running
        BY <1>20 DEF ProxyReady
      <3>2. /\ up \in Operation /\ up.proxy /\ up.net = r.net /\ up.made = r.made
            /\ up.name = n /\ up.want = r.want /\ up.id = r.id
        BY <1>1, PollsType DEF Operation
      <3>3. Goto(c, AfterProxy(up))
        BY <1>20, <2>3 DEF ProxyReady
      <3> HIDE DEF up
      <3>4. M \subseteq ctrs
        BY DEF M, Managed
      <3>5. n \notin spoiled => OwnSidecar(up, M)
        <4> SUFFICES ASSUME n \notin spoiled PROVE OwnSidecar(up, M)
          OBVIOUS
        <4>1. PICK p \in M : /\ M = {p} /\ p.id = r.id /\ p.role = "proxy"
                             /\ p.mounts = r.want \ {"data"}
          BY <1>3, <2>3 DEF Fits, Underway, OwnSidecar
        <4>2. p = k
          BY <3>1, <3>4, <4>1 DEF Identity, CtrIdentity
        <4> QED BY <3>1, <3>2, <4>1, <4>2 DEF OwnSidecar
      <3>6. n \notin spoiled => Left(up, M, x, V)
        BY <1>3, <2>3, <3>2, <3>5 DEF Fits, Underway, Left
      <3>7. n \notin spoiled => Fits(AfterProxy(up), M, x, V)
        BY <1>17, <2>3, <3>2, <3>6, ForwardFits
      <3>8. AfterProxy(up).name = n
        BY <3>2, ProvisioningFacts DEF Continues
      <3> QED BY <1>7, <2>1, <3>3, <3>7, <3>8
    <2> QED BY <2>1, <2>2, <2>3
  <1>21. CASE ProxyGiveUp(c)
    BY <1>5, <1>6, <1>7, <1>21 DEF ProxyGiveUp
  <1>22. CASE SandboxCreate(c)
    <2> DEFINE t == Return([r EXCEPT !.id = nextId], "ok")
               new == [cname |-> SandboxName[n], id |-> nextId, role |-> "sandbox",
                       name |-> n, mounts |-> r.want, running |-> FALSE]
               M1 == M \cup {new}
               V1 == V \cup r.want
    <2>1. /\ r.pc = "create" /\ Reply(c, t)
          /\ ContainerCreate(SandboxName[n], "sandbox", n, r.want)
      BY <1>22 DEF SandboxCreate
    <2>2. OthersSame(n) /\ nets'[n] = x /\ VolsOf(n)' = V1 /\ Managed(n)' = M1
      BY <1>1, <2>1, CreateEffects DEF M, V, x, Operation
    <2>3. [r EXCEPT !.id = nextId] \in Operation /\ [r EXCEPT !.id = nextId].name = n
      BY <1>1 DEF Operation, TypeOK, EngineTypeOK
    <2>4. t.name = n
      BY <2>3, ReturnFacts DEF Continues
    <2>5. new.role = "sandbox" /\ new.mounts = r.want
      OBVIOUS
    <2> HIDE DEF new
    <2>6. ASSUME n \notin spoiled PROVE Around(new, M1, x, V1)
      <3>1. Left(r, M, x, V) /\ x # "none" /\ (r.proxy <=> "ca" \in r.want)
            /\ r.made \subseteq r.want
        BY <1>1, <1>3, <2>1, <2>6 DEF Fits, Underway, Recorded, Proxied
      <3>2. r.want \subseteq V1 /\ V1 \subseteq r.want \cup {"data"}
        BY <3>1 DEF Left
      <3>3. CASE "ca" \notin r.want
        BY <2>5, <3>1, <3>2, <3>3 DEF Around, Left
      <3>4. CASE "ca" \in r.want
        <4>1. PICK p \in M : /\ M = {p} /\ p.role = "proxy" /\ p.running
                             /\ p.mounts = r.want \ {"data"}
          BY <3>1, <3>4 DEF Left, OwnSidecar
        <4>2. M1 = {new, p}
          BY <4>1
        <4> QED BY <2>5, <3>1, <3>2, <3>4, <4>1, <4>2 DEF Around
      <3> QED BY <3>3, <3>4
    <2>7. n \notin spoiled => Settled(M1, x, V1)
      BY <2>6 DEF Settled
    <2>8. n \notin spoiled => Fits(t, M1, x, V1)
      BY <2>3, <2>7, ReturnFits
    <2> HIDE DEF t, M1, V1
    <2> QED BY <1>8, <2>1, <2>2, <2>4, <2>8
  <1> QED
    BY <1>9, <1>10, <1>11, <1>12, <1>13, <1>14, <1>15, <1>18, <1>19, <1>20, <1>21, <1>22
    DEF CreateStep

\* The removals of a rollback and of Delete, and Delete's inspection.
LEMMA WholenessRemoval ==
    ASSUME NoNameClash, TypeOK, Identity, Confinement, Records, Wholeness,
           NEW c \in Callers, RemovalStep(c)
    PROVE  Wholeness'
  <1> PICK n \in Names : n = op[c].name
    BY OpTypes
  <1> DEFINE r == op[c]
             M == Managed(n)
             x == nets[n]
             V == VolsOf(n)
  <1> USE DEF HoldsProxy, NetworkEnsured, Provisioning, Undo, RollbackCalls, DeleteCalls,
          Removals, AtRest
  <1>1. r \in Operation /\ r.name = n /\ Recorded(r)
    BY OpTypes DEF Records
  <1>2. Busy(c)
    BY DEF RemovalStep, ProxyUndo, ProxyRemoval, NetworkRemoval, VolumeRemoval,
           DeleteInspect, DeleteContainer, Busy
  <1>3. n \notin spoiled => Fits(r, M, x, V)
    BY <1>1, <1>2 DEF Wholeness
  <1>4. x \in NetModes /\ M \subseteq ctrs /\ \A k \in ctrs : k \in M <=> k.name = n
    BY DEF TypeOK, EngineTypeOK, Managed
  <1>5. r.pc \in Removals => AfterRemoval(r).name = n
    BY <1>1, AfterRemovalFacts DEF Continues
  \* What a removal does, in terms of the parts of the name.
  <1>6. ASSUME NEW M1, NEW x1, NEW V1, OthersSame(n),
               Managed(n)' = M1, nets'[n] = x1, VolsOf(n)' = V1,
               r.pc \in Removals, Goto(c, AfterRemoval(r)), NoFault,
               n \notin spoiled => Fits(AfterRemoval(r), M1, x1, V1)
        PROVE  Wholeness'
    BY <1>1, <1>2, <1>5, <1>6, WholenessGoto DEF NoFault
  \* Containers go: only those of the name.
  <1>7. ASSUME NEW gone, ContainerRemove(gone), \A k \in ctrs \cap gone : k.name = n
        PROVE  /\ OthersSame(n) /\ Managed(n)' = M \ gone /\ nets'[n] = x
               /\ VolsOf(n)' = V
    BY <1>7, PartEffects
  <1> HIDE DEF M, x, V
  <1>8. CASE ProxyUndo(c)
    <2> DEFINE gone == {k \in ctrs : k.id = r.id}
    <2>1. /\ r.pc = "proxyUndo" /\ ContainerRemove(gone)
          /\ Goto(c, AfterRemoval(r)) /\ NoFault
      BY <1>8 DEF ProxyUndo
    <2>2. \A k \in gone : k.name = n
      BY <1>1, <2>1 DEF Identity, HoldsOwn
    <2>3. /\ OthersSame(n) /\ Managed(n)' = M \ gone /\ nets'[n] = x
          /\ VolsOf(n)' = V
      BY <1>7, <2>1, <2>2
    <2>4. n \notin spoiled => /\ M \ gone = {} /\ ~r.proxy /\ r.net
                              /\ V \subseteq r.made \cup {"data"}
      BY <1>1, <1>3, <1>4, <2>1 DEF Fits, Underway, OwnSidecar, Recorded
    <2> HIDE DEF gone
    <2>5. n \notin spoiled => Left(r, M \ gone, x, V)
      BY <2>4 DEF Left
    <2>6. n \notin spoiled => Fits(AfterRemoval(r), M \ gone, x, V)
      BY <1>1, <2>1, <2>5, RollbackFits DEF AfterRemoval
    <2> QED BY <1>6, <2>1, <2>3, <2>6
  <1>9. CASE ProxyRemoval(c)
    <2> DEFINE gone == {k \in ctrs : k.cname = ProxyName[n]}
    <2>1. /\ r.pc \in {"rbProxy", "delProxy"} /\ ContainerRemove(gone)
          /\ Goto(c, AfterRemoval(r)) /\ NoFault
      BY <1>1, <1>9 DEF ProxyRemoval
    <2>2. \A k \in ctrs : /\ k.role \in {"sandbox", "proxy"} /\ k.name \in Names
                          /\ k.role = "sandbox" => k.cname = SandboxName[k.name]
                          /\ k.role = "proxy" => k.cname = ProxyName[k.name]
      BY DEF TypeOK, EngineTypeOK, Container, Identity, CtrIdentity
    <2>3. \A k \in gone : k.name = n
      BY <2>2, NamesAssumption DEF NoNameClash
    <2>4. \A k \in M : k.role = "proxy" => k \in gone
      BY <1>4, <2>2
    <2>5. /\ OthersSame(n) /\ Managed(n)' = M \ gone /\ nets'[n] = x
          /\ VolsOf(n)' = V
      BY <1>7, <2>1, <2>3
    <2> HIDE DEF gone
    <2>6. CASE r.pc = "rbProxy"
      <3> DEFINE s == [r EXCEPT !.proxy = FALSE]
      <3>1. s \in Operation /\ s.proxy = FALSE /\ s.made = r.made /\ s.net = r.net
        BY <1>1 DEF Operation
      <3>2. AfterRemoval(r) = Rollback(s)
        BY <2>6 DEF AfterRemoval
      <3> HIDE DEF s
      <3>3. n \notin spoiled => /\ M \ gone = {} /\ V \subseteq r.made \cup {"data"}
                                /\ x # "none" => r.net
        BY <1>1, <1>3, <2>4, <2>6 DEF Fits, Underway, Left, OwnSidecar, Recorded
      <3>4. n \notin spoiled => Left(s, M \ gone, x, V)
        BY <3>1, <3>3 DEF Left
      <3> QED BY <1>6, <2>1, <2>5, <3>1, <3>2, <3>4, RollbackFits
    <2>7. CASE r.pc = "delProxy"
      <3> DEFINE t == AfterRemoval(r)
      <3>1. t.pc = "delNet" /\ t.want = r.want /\ t.labels = r.labels
        BY <1>1, <2>7 DEF AfterRemoval, Operation
      <3> HIDE DEF t
      <3>2. n \notin spoiled => /\ M \ gone = {} /\ V \subseteq r.want \cup {"data"}
                                /\ V \cap r.labels \subseteq r.want
        BY <1>3, <2>4, <2>7 DEF Fits, Dismantled
      <3>3. n \notin spoiled => Fits(t, M \ gone, x, V)
        BY <3>1, <3>2 DEF Fits, Dismantled
      <3> QED BY <1>6, <2>1, <2>5, <3>3 DEF t
    <2> QED BY <2>1, <2>6, <2>7
  <1>10. CASE NetworkRemoval(c)
    <2> DEFINE x1 == nets'[n]
    <2>1. /\ r.pc \in {"netUndo", "rbNet", "delNet"}
          /\ Goto(c, AfterRemoval(r)) /\ NoFault
          /\ IF NetRemovable(n) THEN NetworkSet(n, "none") ELSE UNCHANGED engine
      BY <1>1, <1>10 DEF NetworkRemoval
    <2>2. OthersSame(n) /\ Managed(n)' = M /\ VolsOf(n)' = V
      BY <2>1, PartEffects DEF SameParts, M, V
    <2>3. n \notin spoiled => M = {}
      BY <1>1, <1>3, <2>1 DEF Fits, Underway, Left, Dismantled, Recorded
    <2>4. n \notin spoiled => x1 = "none"
      <3>1. CASE NetRemovable(n)
        BY <2>1, <3>1, PartEffects
      <3>2. CASE ~NetRemovable(n)
        <4>1. x1 = x
          BY <2>1, <3>2, PartEffects DEF SameParts, x
        <4> QED BY <2>3, <3>2, <4>1 DEF NetRemovable, M, x
      <3> QED BY <3>1, <3>2
    <2> HIDE DEF x1
    <2>5. CASE r.pc \in {"netUndo", "rbNet"}
      <3>1. n \notin spoiled => V \subseteq {"data"}
        BY <1>1, <1>3, <2>5 DEF Fits, Underway, Left, Recorded
      <3>2. n \notin spoiled => Settled(M, x1, V)
        BY <2>3, <2>4, <3>1 DEF Settled, Nothing
      <3>3. AfterRemoval(r) = Return(r, "err")
        BY <2>5 DEF AfterRemoval
      <3> QED BY <1>1, <1>6, <2>1, <2>2, <3>2, <3>3, ReturnFits DEF x1
    <2>6. CASE r.pc = "delNet"
      <3>1. n \notin spoiled => /\ V \subseteq r.want \cup {"data"}
                                /\ V \cap r.labels \subseteq r.want
        BY <1>3, <2>6 DEF Fits, Dismantled
      <3>2. AfterRemoval(r) = DeleteVolumes(r)
        BY <2>6 DEF AfterRemoval
      <3>3. n \notin spoiled => Fits(AfterRemoval(r), M, x1, V)
        BY <1>1, <2>3, <2>4, <3>1, <3>2, DeleteVolumesFits
      <3> QED BY <1>6, <2>1, <2>2, <3>3 DEF x1
    <2> QED BY <2>1, <2>5, <2>6
  <1>11. CASE VolumeRemoval(c)
    <2> DEFINE V1 == VolsOf(n)'
    <2>1. /\ r.pc \in {"rbVol", "delVol"} /\ r.vol \in VolKinds
          /\ Goto(c, AfterRemoval(r)) /\ NoFault
          /\ IF VolRemovable(r.vol, n) THEN VolumeRemove(r.vol, n) ELSE UNCHANGED engine
      BY <1>1, <1>11 DEF VolumeRemoval, Operation
    <2>2. OthersSame(n) /\ Managed(n)' = M /\ nets'[n] = x
      BY <2>1, PartEffects DEF SameParts, M, x
    <2>3. n \notin spoiled => M = {}
      BY <1>1, <1>3, <2>1 DEF Fits, Underway, Left, Dismantled, Recorded
    <2>4. n \notin spoiled => V1 = V \ {r.vol}
      BY <2>1, <2>3, PartEffects DEF VolRemovable, M, V
    <2> HIDE DEF V1
    <2>5. CASE r.pc = "rbVol"
      <3> DEFINE s == [r EXCEPT !.made = @ \ {r.vol}]
      <3>1. /\ s \in Operation /\ s.proxy = r.proxy /\ s.made = r.made \ {r.vol}
            /\ s.net = r.net
        BY <1>1 DEF Operation
      <3>2. AfterRemoval(r) = Rollback(s)
        BY <2>5 DEF AfterRemoval
      <3> HIDE DEF s
      <3>3. n \notin spoiled => /\ ~r.proxy /\ V \subseteq r.made \cup {"data"}
                                /\ x # "none" => r.net
        BY <1>1, <1>3, <2>5 DEF Fits, Underway, Left, Recorded
      <3>4. n \notin spoiled => Left(s, M, x, V1)
        BY <2>3, <2>4, <3>1, <3>3 DEF Left
      <3> QED BY <1>6, <2>1, <2>2, <3>1, <3>2, <3>4, RollbackFits DEF V1
    <2>6. CASE r.pc = "delVol"
      <3> DEFINE s == [r EXCEPT !.want = @ \ {r.vol}]
      <3>1. s \in Operation /\ s.want = r.want \ {r.vol} /\ s.labels = r.labels
        BY <1>1 DEF Operation
      <3>2. AfterRemoval(r) = DeleteVolumes(s)
        BY <2>6 DEF AfterRemoval
      <3> HIDE DEF s
      <3>3. n \notin spoiled => /\ x = "none" /\ V1 \subseteq s.want \cup {"data"}
                                /\ V1 \cap s.labels \subseteq s.want
        BY <1>3, <2>4, <2>6, <3>1 DEF Fits, Dismantled
      <3>4. n \notin spoiled => Fits(AfterRemoval(r), M, x, V1)
        BY <2>3, <3>1, <3>2, <3>3, DeleteVolumesFits
      <3> QED BY <1>6, <2>1, <2>2, <3>4 DEF V1
    <2> QED BY <2>1, <2>5, <2>6
  <1>12. CASE DeleteInspect(c)
    <2>1. PICK k \in ctrs :
             /\ k.id = r.id
             /\ Goto(c, [r EXCEPT !.pc = "delCtr", !.name = k.name, !.want = k.mounts,
                                  !.labels = k.mounts])
      BY <1>12 DEF DeleteInspect
    <2>2. r.pc = "delInspect" /\ UNCHANGED engine /\ spoiled' = spoiled
      BY <1>12 DEF DeleteInspect, NoFault
    <2>3. k.name = n /\ k.role = "sandbox" /\ k \in M
      BY <1>1, <1>4, <2>1, <2>2 DEF Identity, HoldsOwn, HoldsTarget
    <2> DEFINE t == [r EXCEPT !.pc = "delCtr", !.name = k.name, !.want = k.mounts,
                              !.labels = k.mounts]
    <2>4. /\ t.pc = "delCtr" /\ t.name = n /\ t.want = k.mounts /\ t.labels = k.mounts
          /\ t.id = k.id
      BY <1>1, <2>1, <2>3 DEF Operation
    <2> HIDE DEF t
    <2>5. n \notin spoiled => Around(k, M, x, V)
      <3> SUFFICES ASSUME n \notin spoiled PROVE Around(k, M, x, V)
        OBVIOUS
      <3>1. PICK j \in M : Around(j, M, x, V)
        BY <1>3, <2>2, <2>3 DEF Fits, Settled, Nothing
      <3>2. j = k
        BY <2>3, <3>1 DEF Around
      <3> QED BY <3>1, <3>2
    <2>6. n \notin spoiled => Fits(t, M, x, V)
      BY <2>3, <2>4, <2>5 DEF Fits, Dismantled
    <2> QED
      BY <1>1, <1>2, <2>1, <2>2, <2>4, <2>6, WholenessCalm DEF t, M, x, V
  <1>13. CASE DeleteContainer(c)
    <2> DEFINE gone == {k \in ctrs : k.id = r.id}
               t == AfterRemoval(r)
    <2>1. r.pc = "delCtr" /\ ContainerRemove(gone) /\ Goto(c, t) /\ NoFault
      BY <1>13 DEF DeleteContainer
    <2>2. \A k \in gone : k.name = n
      BY <1>1, <2>1 DEF Identity, HoldsOwn, HoldsTarget
    <2>3. /\ OthersSame(n) /\ Managed(n)' = M \ gone /\ nets'[n] = x
          /\ VolsOf(n)' = V
      BY <1>7, <2>1, <2>2
    <2>4. t.pc = "delProxy" /\ t.want = r.want /\ t.labels = r.labels
      BY <1>1, <2>1 DEF AfterRemoval, Operation
    <2>5. \A k \in M : k.id = r.id => k \in gone
      BY <1>4
    <2> HIDE DEF gone, t
    <2>6. n \notin spoiled =>
             /\ \A k \in M \ gone : k.role = "proxy"
             /\ V \subseteq r.want \cup {"data"} /\ V \cap r.labels \subseteq r.want
      <3> SUFFICES ASSUME n \notin spoiled
                   PROVE  /\ \A k \in M \ gone : k.role = "proxy"
                          /\ V \subseteq r.want \cup {"data"}
                          /\ V \cap r.labels \subseteq r.want
        OBVIOUS
      <3>1. PICK k \in M : /\ k.id = r.id /\ r.want = k.mounts /\ r.labels = k.mounts
                           /\ Around(k, M, x, V)
        BY <1>3, <2>1 DEF Fits, Dismantled
      <3> QED BY <2>5, <3>1 DEF Around
    <2>7. n \notin spoiled => Fits(t, M \ gone, x, V)
      BY <2>4, <2>6 DEF Fits, Dismantled
    <2> QED BY <1>6, <2>1, <2>3, <2>7 DEF t
  <1> QED BY <1>8, <1>9, <1>10, <1>11, <1>12, <1>13 DEF RemovalStep

\* Every step of serialised callers keeps what is on the engine in step with the
\* operations.
LEMMA WholenessStep ==
    ASSUME Serialised, NoNameClash
    PROVE  TypeOK /\ Identity /\ Confinement /\ Records /\ Wholeness /\ [Next]_vars
           => Wholeness'
  <1> SUFFICES ASSUME TypeOK, Identity, Confinement, Records, Wholeness, [Next]_vars
               PROVE  Wholeness'
    OBVIOUS
  <1>1. ASSUME NEW c \in Callers, Begin(c) PROVE Wholeness'
    <2>1. ASSUME NEW n \in Names, NEW w \in Wants, CreateBegin(c, n, w)
          PROVE  Wholeness'
      <3> DEFINE t == [Idle EXCEPT !.pc = "check", !.call = "create", !.name = n,
                                   !.want = w]
      <3>1. t.pc = "check" /\ t.name = n
        BY DEF Idle
      <3>2. ~Busy(c) /\ ~InFlight(n) /\ UNCHANGED engine /\ NoFault /\ Goto(c, t)
        BY <2>1 DEF CreateBegin, Unlocked
      <3> HIDE DEF t
      <3> QED BY <3>1, <3>2, WholenessBegin
    <2>2. ASSUME NEW k \in Sandboxes, DeleteBegin(c, k) PROVE Wholeness'
      <3> DEFINE t == [Idle EXCEPT !.pc = "delInspect", !.call = "delete",
                                   !.name = k.name, !.id = k.id]
      <3>1. t.pc = "delInspect" /\ t.name = k.name /\ k.name \in Names
        BY DEF Idle, Sandboxes, TypeOK, EngineTypeOK, Container
      <3>2. ~Busy(c) /\ ~InFlight(k.name) /\ UNCHANGED engine /\ NoFault /\ Goto(c, t)
        BY <2>2 DEF DeleteBegin, Unlocked
      <3> HIDE DEF t
      <3> QED BY <3>1, <3>2, WholenessBegin
    <2>3. ASSUME NEW k \in Sandboxes, Start(c, k) \/ Stop(c, k) PROVE Wholeness'
      <3>1. PICK b \in BOOLEAN : SetRunning(k.id, b)
        BY <2>3 DEF Start, Stop
      <3>2. UNCHANGED op /\ NoFault /\ ~InFlight(k.name)
        BY <2>3 DEF Start, Stop, Unlocked
      <3> QED BY <3>1, <3>2, WholenessRunning
    <2> QED BY <1>1, <2>1, <2>2, <2>3 DEF Begin
  <1>2. ASSUME NEW c \in Callers, Rejected(c) \/ CallCancelled(c) \/ CallFails(c)
        PROVE  Wholeness'
    <2> PICK n \in Names : n = op[c].name
      BY OpTypes
    <2> DEFINE r == op[c]
    <2>1. Busy(c) /\ Goto(c, OnError(r)) /\ UNCHANGED engine
      BY <1>2 DEF Rejected, Rejects, CallCancelled, CallFails, Busy, AtRest
    <2>2. /\ spoiled \subseteq spoiled'
          /\ r.pc \in Removals => n \in spoiled'
      BY <1>2
      DEF Rejected, Rejects, CallCancelled, CallFails, NoFault, Removals, Undo,
          RollbackCalls, DeleteCalls
    <2>3. r \in Operation /\ Recorded(r) /\ r.name = n
      BY OpTypes DEF Records
    <2>4. OnError(r).name = n
      BY <2>1, <2>3, OnErrorFacts DEF Busy, Continues
    <2>5. n \notin spoiled => Fits(r, Managed(n), nets[n], VolsOf(n))
      BY <2>1, <2>3 DEF Wholeness
    <2>6. n \notin spoiled' => Fits(OnError(r), Managed(n), nets[n], VolsOf(n))
      BY <2>1, <2>2, <2>3, <2>5, OnErrorFits DEF Busy
    <2> QED BY <2>1, <2>2, <2>3, <2>4, <2>6, WholenessCalm
  <1>3. ASSUME NEW c \in Callers, Cancel(c) PROVE Wholeness'
    <2> PICK n \in Names : n = op[c].name
      BY OpTypes
    <2> DEFINE r == op[c]
               t == [r EXCEPT !.live = FALSE]
    <2>1. Busy(c) /\ Goto(c, t) /\ UNCHANGED engine /\ spoiled' = spoiled
      BY <1>3 DEF Cancel, Goto
    <2>2. r \in Operation /\ r.name = n
      BY OpTypes
    <2>3. n \notin spoiled => Fits(r, Managed(n), nets[n], VolsOf(n))
      BY <2>1, <2>2 DEF Wholeness
    <2>4. /\ t.pc = r.pc /\ t.name = n /\ t.want = r.want /\ t.id = r.id /\ t.net = r.net
          /\ t.made = r.made /\ t.proxy = r.proxy /\ t.vol = r.vol /\ t.labels = r.labels
      BY <2>2 DEF Operation
    <2> HIDE DEF t
    <2>5. \A M, x, V : Fits(r, M, x, V) => Fits(t, M, x, V)
      BY <2>4 DEF Fits, Underway, Left, OwnSidecar, Dismantled
    <2> QED BY <2>1, <2>2, <2>3, <2>4, <2>5, WholenessCalm
  <1>4. ASSUME NEW c \in Callers, Crash(c) PROVE Wholeness'
    <2> PICK n \in Names : n = op[c].name
      BY OpTypes
    <2>1. /\ Busy(c) /\ Goto(c, Idle) /\ UNCHANGED engine /\ n \in spoiled'
          /\ spoiled \subseteq spoiled'
      BY <1>4 DEF Crash
    <2>2. Idle.pc \in AtRest
      BY DEF Idle, AtRest
    <2>3. OthersSame(n)
      BY <2>1, PartEffects
    <2> QED BY <2>1, <2>2, <2>3, WholenessGoto
  <1>5. CASE UNCHANGED vars
    BY <1>5 DEF vars, Wholeness, InFlight, Busy, Managed, VolsOf
  <1> QED
    BY <1>1, <1>2, <1>3, <1>4, <1>5, WholenessCreate, WholenessRemoval
    DEF Next, DriverStep

\* With serialised callers and names that do not clash, Wholeness holds in every
\* reachable state.
THEOREM WholenessInvariant == Serialised /\ NoNameClash => (Spec => []Wholeness)
  <1> SUFFICES ASSUME Serialised, NoNameClash PROVE Spec => []Wholeness
    OBVIOUS
  <1>1. Init => Wholeness
    <2> SUFFICES ASSUME Init PROVE Wholeness
      OBVIOUS
    <2>1. \A c \in Callers : ~Busy(c)
      BY DEF Init, Idle, Busy, AtRest
    <2>2. \A n \in Names : Settled(Managed(n), nets[n], VolsOf(n))
      BY DEF Init, EngineInit, Settled, Nothing, Managed, VolsOf
    <2> QED BY <2>1, <2>2 DEF Wholeness
  <1>2. TypeOK /\ Identity /\ Confinement /\ Records /\ Wholeness /\ [Next]_vars
        => Wholeness'
    BY WholenessStep
  <1>3. Spec => []Confinement
    BY ConfinementInvariant
  <1> QED
    BY <1>1, <1>2, <1>3, TypeCorrect, IdentityInvariant, RecordsInvariant, PTL DEF Spec

\* Create's rollback and Delete together: whenever no operation on a sandbox is in
\* flight, it has all of its parts or none of them, unless a removal failed, the
\* answer to a creation was lost or the process died.
THEOREM AllOrNothingThm == Serialised /\ NoNameClash => (Spec => []AllOrNothing)
  <1> SUFFICES ASSUME Serialised, NoNameClash PROVE Spec => []AllOrNothing
    OBVIOUS
  <1>1. Wholeness => AllOrNothing
    <2> SUFFICES ASSUME Wholeness, NEW n \in Names \ spoiled, ~InFlight(n)
                 PROVE  Whole(n) \/ Clean(n)
      BY DEF AllOrNothing
    <2> DEFINE M == Managed(n)
               V == VolsOf(n)
    <2>1. Settled(M, nets[n], V)
      BY DEF Wholeness
    <2>2. CASE Nothing(M, nets[n], V)
      BY <2>2 DEF Nothing, Clean, VolsOf
    <2>3. ASSUME NEW k \in M, Around(k, M, nets[n], V) PROVE Whole(n)
      BY <2>3 DEF Around, Whole, VolsOf
    <2> QED BY <2>1, <2>2, <2>3 DEF Settled
  <1>2. Spec => []Wholeness
    BY WholenessInvariant
  <1> QED BY <1>1, <1>2, PTL

\* The sidecar of a sandbox stays up until the sandbox's own Delete: no rollback
\* of another Create takes it away.
THEOREM SidecarKeptThm == Serialised /\ NoNameClash => (Spec => []SidecarKept)
  <1> SUFFICES ASSUME Serialised, NoNameClash PROVE Spec => []SidecarKept
    OBVIOUS
  <1>1. TypeOK /\ Records /\ Wholeness => SidecarKept
    <2> SUFFICES ASSUME TypeOK, Records, Wholeness,
                        NEW k \in Sandboxes, "ca" \in k.mounts, k.name \notin spoiled,
                        \A c \in Callers :
                            op[c].call = "delete" /\ Busy(c) => op[c].name # k.name
                 PROVE  \E p \in Managed(k.name) : p.role = "proxy" /\ p.running
      BY DEF SidecarKept
    <2> DEFINE n == k.name
               M == Managed(n)
    <2>1. n \in Names /\ k \in M /\ k.role = "sandbox"
      BY DEF Sandboxes, Managed, TypeOK, EngineTypeOK, Container
    <2>2. Settled(M, nets[n], VolsOf(n))
      <3>1. CASE ~InFlight(n)
        BY <2>1, <3>1 DEF Wholeness
      <3>2. ASSUME NEW c \in Callers, Busy(c), op[c].name = n
            PROVE  Settled(M, nets[n], VolsOf(n))
        <4>1. op[c] \in Operation /\ Recorded(op[c]) /\ op[c].call # "delete"
          BY <3>2, OpTypes DEF Records
        <4>2. Fits(op[c], M, nets[n], VolsOf(n))
          BY <3>2 DEF Wholeness
        <4>3. op[c].pc \in CreatePlaces
          BY <3>2, <4>1
          DEF Recorded, Busy, Operation, Locations, Removals
        <4>4. CASE op[c].pc = "check"
          BY <4>2, <4>4 DEF Fits
        <4>5. CASE op[c].pc # "check"
          <5>1. \A j \in M : j.role = "proxy"
            BY <4>2, <4>3, <4>5 DEF Fits, Underway, Left, OwnSidecar
          <5> QED BY <2>1, <5>1
        <4> QED BY <4>4, <4>5
      <3> QED BY <3>1, <3>2 DEF InFlight
    <2>3. PICK j \in M : Around(j, M, nets[n], VolsOf(n))
      BY <2>1, <2>2 DEF Settled, Nothing
    <2>4. j = k
      BY <2>1, <2>3 DEF Around
    <2> QED BY <2>3, <2>4 DEF Around
  <1>2. Spec => []Wholeness
    BY WholenessInvariant
  <1> QED BY <1>1, <1>2, TypeCorrect, RecordsInvariant, PTL

\* Delete's nil means that nothing of the sandbox is left, every volume its labels
\* named included, unless a removal failed, although it ignores every result.
THEOREM DeleteCompletesThm == Serialised /\ NoNameClash => (Spec => DeleteCompletes)
  <1> SUFFICES ASSUME Serialised, NoNameClash PROVE Spec => DeleteCompletes
    OBVIOUS
  <1> DEFINE Completes == \A c \in Callers :
                            DeleteReturns(c) /\ op[c].name \notin spoiled' =>
                                /\ Clean(op[c].name)'
                                /\ \A v \in op[c].labels : <<v, op[c].name>> \notin vols'
  <1>1. TypeOK /\ Records /\ Wholeness /\ Wholeness' /\ Confinement /\ [Next]_vars
        => [Completes]_vars
    <2> SUFFICES ASSUME TypeOK, Records, Wholeness, Wholeness', Confinement, Next,
                        NEW c \in Callers, DeleteReturns(c), op[c].name \notin spoiled'
                 PROVE  /\ Clean(op[c].name)'
                        /\ \A v \in op[c].labels : <<v, op[c].name>> \notin vols'
      BY DEF DeleteReturns, vars, Busy, AtRest
    <2> PICK n \in Names : n = op[c].name
      BY OpTypes
    <2> DEFINE r == op[c]
    <2>1. r \in Operation /\ Recorded(r) /\ r.pc \in DeletePlaces /\ r.name = n
      BY OpTypes
      DEF Records, DeleteReturns, Recorded, Busy, Operation, Locations, Removals
    \* The step is this Delete's own.
    <2>2. DriverStep(c) /\ \A d \in Callers : d # c => op'[d] = op[d]
      <3>1. PICK d \in Callers : Begin(d) \/ DriverStep(d) \/ Cancel(d) \/ Crash(d)
        BY DEF Next
      <3>2. \A e \in Callers : e # d => op'[e] = op[e]
        BY <3>1
        DEF TypeOK, Begin, CreateBegin, DeleteBegin, Start, Stop, Cancel, Crash, DriverStep,
            CreateStep, CheckExisting, NetworkInspect, NetworkCreate, NetworkVerify,
            VolumeInspect, EnsureVolumeCreate, ProxyCreate, ProxyConnect, ProxyStart,
            ProxyReady, ProxyNotReady, ProxyGiveUp, SandboxCreate, RemovalStep, ProxyUndo,
            ProxyRemoval, NetworkRemoval, VolumeRemoval, DeleteInspect, DeleteContainer,
            Rejected, CallCancelled, CallFails, Reply, Goto
      <3>3. d = c
        BY <3>2 DEF DeleteReturns, Busy, AtRest
      <3>4. ~Begin(c)
        BY DEF DeleteReturns, Begin, CreateBegin, DeleteBegin, Start, Stop
      <3>5. ~Cancel(c)
        BY <2>1 DEF DeleteReturns, Cancel, TypeOK, Operation, Busy, AtRest
      <3>6. ~Crash(c)
        BY DEF DeleteReturns, Crash, Goto, TypeOK, Idle
      <3> QED BY <3>1, <3>2, <3>3, <3>4, <3>5, <3>6
    \* Only the removals after the containers' can be its last.
    <2>3. /\ NetworkRemoval(c) \/ VolumeRemoval(c)
          /\ r.pc \in {"delNet", "delVol"} /\ op'[c].name = n /\ spoiled' = spoiled
      <3> USE DEF Provisioning, Undo, RollbackCalls, DeleteCalls, Removals
      <3>1. \A t : Goto(c, t) => op'[c] = t
        BY DEF Goto, TypeOK
      <3>2. ~Goto(c, Return(r, "err"))
        BY <2>1, <3>1, ReturnFacts DEF DeleteReturns
      <3>3. r.pc = "delInspect" => ~Goto(c, OnError(r))
        BY <3>2 DEF OnError
      <3>4. ~(Rejected(c) \/ CallCancelled(c) \/ CallFails(c))
        BY <2>1, <3>3 DEF Rejected, Rejects, CallCancelled, CallFails
      <3>5. ~CreateStep(c)
        BY <2>1
        DEF CreateStep, CheckExisting, NetworkInspect, NetworkCreate, NetworkVerify,
            VolumeInspect, EnsureVolumeCreate, ProxyCreate, ProxyConnect, ProxyStart,
            ProxyReady, ProxyNotReady, ProxyGiveUp, SandboxCreate
      <3>6. ~DeleteInspect(c)
        BY <2>1, <3>1 DEF DeleteInspect, DeleteReturns, Operation
      <3>7. r.pc \in {"delCtr", "delProxy"} => ~Goto(c, AfterRemoval(r))
        BY <2>1, <3>1 DEF AfterRemoval, DeleteReturns, Operation
      <3>8. /\ NetworkRemoval(c) \/ VolumeRemoval(c)
            /\ r.pc \in {"delNet", "delVol"}
        BY <2>1, <2>2, <3>4, <3>5, <3>6, <3>7
        DEF DriverStep, RemovalStep, ProxyUndo, ProxyRemoval, DeleteContainer,
            NetworkRemoval, VolumeRemoval
      <3>9. Goto(c, AfterRemoval(r)) /\ spoiled' = spoiled
        BY <3>8 DEF NetworkRemoval, VolumeRemoval, NoFault
      <3> QED BY <2>1, <3>1, <3>8, <3>9, AfterRemovalFacts DEF Continues
    <2>4. Managed(n)' = {}
      <3>1. Managed(n) = {}
        BY <2>1, <2>3 DEF Wholeness, DeleteReturns, Fits, Dismantled, DeleteCalls
      <3>2. ctrs' = ctrs
        BY <2>3
        DEF NetworkRemoval, VolumeRemoval, NetworkSet, VolumeRemove, engine
      <3> QED BY <3>1, <3>2 DEF Managed
    <2>5. ~InFlight(n)'
      BY <2>1, <2>2 DEF DeleteReturns, InFlight, Busy, AtRest, Confinement
    <2>6. Settled(Managed(n)', nets'[n], VolsOf(n)')
      BY <2>1, <2>5 DEF Wholeness
    <2>7. Clean(n)'
      BY <2>4, <2>6 DEF Settled, Nothing, Clean, VolsOf
    \* The volumes the labels named: what was left of them is removed now.
    <2>8. ASSUME NEW v \in r.labels PROVE <<v, n>> \notin vols'
      <3>1. v \in VolKinds /\ (v \in VolsOf(n) => v \in r.want) /\ Managed(n) = {}
        BY <2>1, <2>3
        DEF Wholeness, DeleteReturns, Fits, Dismantled, DeleteCalls, Operation, VolsOf
      <3>2. op'[c] = AfterRemoval(r)
        BY <2>3 DEF NetworkRemoval, VolumeRemoval, Goto, TypeOK
      <3>3. CASE r.pc = "delNet"
        <4>1. r.want = {}
          BY <2>1, <3>2, <3>3 DEF AfterRemoval, DeleteVolumes, DeleteReturns, Operation
        <4>2. vols' = vols
          BY <2>3, <3>3 DEF NetworkRemoval, VolumeRemoval, NetworkSet, engine
        <4> QED BY <3>1, <4>1, <4>2 DEF VolsOf
      <3>4. CASE r.pc = "delVol"
        <4> DEFINE s == [r EXCEPT !.want = @ \ {r.vol}]
        <4>1. s.want = r.want \ {r.vol} /\ s \in Operation
          BY <2>1 DEF Operation
        <4>2. op'[c] = DeleteVolumes(s)
          BY <3>2, <3>4 DEF AfterRemoval
        <4> HIDE DEF s
        <4>3. s.want = {}
          BY <4>1, <4>2 DEF DeleteVolumes, DeleteReturns, Operation
        <4>4. vols' = vols \ {<<r.vol, n>>}
          BY <2>1, <2>3, <3>1, <3>4
          DEF NetworkRemoval, VolumeRemoval, VolRemovable, VolumeRemove
        <4> QED BY <3>1, <4>1, <4>3, <4>4 DEF VolsOf
      <3> QED BY <2>3, <3>3, <3>4
    <2> QED BY <2>3, <2>7, <2>8 DEF Clean, Managed
  <1>2. Spec => []Wholeness
    BY WholenessInvariant
  <1>3. Spec => []Confinement
    BY ConfinementInvariant
  <1> QED
    BY <1>1, <1>2, <1>3, TypeCorrect, RecordsInvariant, PTL DEF Spec, DeleteCompletes
=============================================================================
