------------------------------- MODULE Probe -------------------------------
(***************************************************************************)
(* Driver.RunProbe (internal/docker/docker.go): ensureImage, a helper       *)
(* container made from the reference, its start, the wait for its end, its  *)
(* output, and the deferred removal.  Every request, the removal included,  *)
(* is made with the caller's context.                                       *)
(***************************************************************************)
EXTENDS Image

CONSTANT Probers     \* the callers that probe; the others create sandboxes

ASSUME ProbeAssumption == Probers \subseteq Callers

VARIABLE probe       \* the probe of each prober

probeVars == <<vars, probe>>

\* helper      the helper container on the engine
\* known       the caller has its id: the removal is deferred
\* cancelled   the context is done
\* lost        the engine did what was asked, the answer did not arrive; or it
\*             refused the removal
Run ==
    [pc : {"off", "start", "wait", "logs", "remove", "done"}, result : {"none", "text", "err"},
     helper : {"none", "created", "running", "exited"}, known : BOOLEAN,
     cancelled : BOOLEAN, lost : BOOLEAN]

ProbeInit ==
    /\ Init
    /\ probe = [p \in Probers |->
          [pc |-> "off", result |-> "none", helper |-> "none", known |-> FALSE,
           cancelled |-> FALSE, lost |-> FALSE]]

SetRun(p, r) == probe' = [probe EXCEPT ![p] = r] /\ UNCHANGED vars

-----------------------------------------------------------------------------
\* The helper is created from whatever the reference names now.
CreateHelper(p) ==
    LET r == probe[p] IN
    /\ call[p].pc = "inspect" /\ r.pc = "off"
    /\ tag # NoImage /\ ~r.cancelled
    /\ SetRun(p, [r EXCEPT !.pc = "start", !.helper = "created", !.known = TRUE])

\* Nothing is deferred yet; the container may be there all the same.
CreateHelperFails(p) ==
    LET r == probe[p] IN
    /\ call[p].pc = "inspect" /\ r.pc = "off"
    /\ \/ SetRun(p, [r EXCEPT !.pc = "done", !.result = "err"])
       \/ /\ tag # NoImage
          /\ SetRun(p, [r EXCEPT !.pc = "done", !.result = "err", !.helper = "created", !.lost = TRUE])

\* Mutant: an error of the start returns before the removal is deferred.
StartHelperReturns(p) ==
    LET r == probe[p] IN
    /\ r.pc = "start"
    /\ \/ ~r.cancelled /\ SetRun(p, [r EXCEPT !.pc = "wait", !.helper = "running"])
       \/ SetRun(p, [r EXCEPT !.pc = "done", !.result = "err"])

StartHelper(p) ==
    LET r == probe[p] IN
    /\ r.pc = "start"
    /\ \/ ~r.cancelled /\ SetRun(p, [r EXCEPT !.pc = "wait", !.helper = "running"])
       \/ SetRun(p, [r EXCEPT !.pc = "remove", !.result = "err"])
       \/ SetRun(p, [r EXCEPT !.pc = "remove", !.result = "err", !.helper = "running"])

HelperExits(p) ==
    /\ probe[p].helper = "running"
    /\ SetRun(p, [probe[p] EXCEPT !.helper = "exited"])

\* wait.Result: the helper is not running any more; its status is not read.
WaitResult(p) ==
    LET r == probe[p] IN
    /\ r.pc = "wait" /\ r.helper = "exited"
    /\ SetRun(p, [r EXCEPT !.pc = "logs"])

\* wait.Error.
WaitError(p) ==
    LET r == probe[p] IN
    /\ r.pc = "wait"
    /\ SetRun(p, [r EXCEPT !.pc = "remove", !.result = "err"])

\* Mutant: the select has no case for the context.
WaitDoneNever(p) == probe[p].pc = "wait" /\ FALSE /\ UNCHANGED probeVars

\* ctx.Done().
WaitDone(p) ==
    LET r == probe[p] IN
    /\ r.pc = "wait" /\ r.cancelled
    /\ SetRun(p, [r EXCEPT !.pc = "remove", !.result = "err"])

\* An output that breaks off is used as far as it was read.
ReadOutput(p) ==
    LET r == probe[p] IN
    /\ r.pc = "logs"
    /\ \/ ~r.cancelled /\ SetRun(p, [r EXCEPT !.pc = "remove", !.result = "text"])
       \/ SetRun(p, [r EXCEPT !.pc = "remove", !.result = "err"])

\* The deferred ContainerRemove; its result is ignored.
RemoveHelper(p) ==
    LET r == probe[p] IN
    /\ r.pc = "remove"
    /\ \/ ~r.cancelled /\ SetRun(p, [r EXCEPT !.pc = "done", !.helper = "none"])
       \/ SetRun(p, [r EXCEPT !.pc = "done", !.lost = TRUE])

CancelProbe(p) ==
    /\ ~probe[p].cancelled /\ probe[p].pc # "done"
    /\ SetRun(p, [probe[p] EXCEPT !.cancelled = TRUE])

-----------------------------------------------------------------------------
Prober(p) ==
    \/ CreateHelper(p) \/ CreateHelperFails(p) \/ StartHelper(p) \/ WaitResult(p)
    \/ WaitDone(p) \/ ReadOutput(p) \/ RemoveHelper(p)

\* ensureImage, which both kinds of callers begin with.
EnsureImage(c) ==
    /\ \/ Ensure(c) \/ Pull(c) \/ PullAs(c) \/ TagAs(c)
       \/ (c \notin Probers \/ call[c].pc # "inspect") /\ Fail(c)
    /\ UNCHANGED probe

ProbeNext ==
    \/ Move /\ UNCHANGED probe
    \/ \E c \in Callers : EnsureImage(c)
    \/ \E c \in Callers \ Probers : (Inspect(c) \/ Create(c)) /\ UNCHANGED probe
    \/ \E p \in Probers : Prober(p) \/ WaitError(p) \/ HelperExits(p) \/ CancelProbe(p)

\* The engine answers or fails every request; the helper need not end, and a
\* wait on it need not fail.
ProbeFairness ==
    /\ \A p \in Probers : WF_probeVars(Prober(p)) /\ WF_probeVars(EnsureImage(p))

ProbeSpec == ProbeInit /\ [][ProbeNext]_probeVars /\ ProbeFairness

-----------------------------------------------------------------------------
(* Properties.                                                              *)

\* The deferred removal: whichever request failed, a probe that returned has
\* left a helper behind only if its context was cancelled or an answer of the
\* engine was lost or refused.
HelperRemoved ==
    \A p \in Probers :
        probe[p].pc = "done" /\ ~probe[p].cancelled /\ ~probe[p].lost => probe[p].helper = "none"

\* The select on ctx.Done(): a cancelled probe returns although its helper may
\* run for ever.
CancelledProbeReturns ==
    \A p \in Probers : probe[p].cancelled ~> (probe[p].pc = "done" \/ call[p].pc = "err")
=============================================================================
