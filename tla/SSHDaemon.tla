----------------------------- MODULE SSHDaemon -----------------------------
(***************************************************************************)
(* Driver.EnsureSSHDaemon and rawExec (internal/docker/docker.go): the      *)
(* relay's daemon is started in a running sandbox by an exec, and its       *)
(* socket polled for.  The socket lies in the sandbox's ssh volume and      *)
(* outlives the daemon; sandboxes are stopped and started meanwhile.        *)
(***************************************************************************)
EXTENDS Naturals, FiniteSets

CONSTANTS
    SSHCallers,  \* concurrent calls
    MaxStops     \* bound: how often the sandbox is stopped

ASSUME SSHAssumption == MaxStops \in Nat

VARIABLES
    ssh,         \* the sandbox has the ssh label
    running,     \* the sandbox runs
    socket,      \* the socket file: none, stale (its daemon is gone) or live
    pending,     \* calls whose daemon was started and has not looked yet
    ensure,      \* the call of each caller
    stops

sshVars == <<ssh, running, socket, pending, ensure, stops>>

\* hit      test -S of the poll at hand found the socket
\* stale    a stale socket lay there when the daemon was started (history)
\* broken   the connection of a poll broke off (history)
\* served   a daemon has bound the socket since the call began (history)
Ensures ==
    [pc : {"inspect", "create", "start", "poll", "copy", "wait", "nil", "err", "disabled"},
     hit : BOOLEAN, cancelled : BOOLEAN, stale : BOOLEAN, broken : BOOLEAN, served : BOOLEAN]

SSHInit ==
    /\ ssh \in BOOLEAN /\ running \in BOOLEAN
    /\ socket \in IF ssh THEN {"none", "stale", "live"} ELSE {"none"}
    /\ socket = "live" => running
    /\ pending = {} /\ stops = 0
    /\ ensure = [c \in SSHCallers |-> [pc |-> "inspect", hit |-> FALSE, cancelled |-> FALSE,
                                       stale |-> FALSE, broken |-> FALSE, served |-> FALSE]]

SetEnsure(c, k) == ensure' = [ensure EXCEPT ![c] = k]
To(c, pc) == SetEnsure(c, [ensure[c] EXCEPT !.pc = pc])
sandbox == <<ssh, running, socket, pending, stops>>

-----------------------------------------------------------------------------
(* EnsureSSHDaemon.                                                         *)

InspectSandbox(c) ==
    /\ ensure[c].pc = "inspect"
    /\ SetEnsure(c, [ensure[c] EXCEPT
          !.pc = CASE ~ssh -> "disabled" [] ssh /\ ~running -> "err" [] OTHER -> "create",
          !.served = socket = "live"])
    /\ UNCHANGED sandbox

\* The exec is made in a running container only; it may have stopped since.
ExecCreate(c) ==
    /\ ensure[c].pc = "create" /\ running /\ ~ensure[c].cancelled
    /\ To(c, "start")
    /\ UNCHANGED sandbox

\* Detached: the call does not hear of the daemon's end.
ExecStart(c) ==
    /\ ensure[c].pc = "start" /\ running /\ ~ensure[c].cancelled
    /\ SetEnsure(c, [ensure[c] EXCEPT !.pc = "poll", !.stale = socket = "stale"])
    /\ pending' = pending \cup {c}
    /\ UNCHANGED <<ssh, running, socket, stops>>

RequestFails(c) ==
    /\ ensure[c].pc \in {"inspect", "create", "start"}
    /\ To(c, "err")
    /\ UNCHANGED sandbox

\* Mutant: the daemon's exec is the last step.
PollNothing(c) ==
    /\ ensure[c].pc = "poll"
    /\ To(c, "nil")
    /\ UNCHANGED sandbox

\* rawExec of test -S is made and attached, and looks for the socket.
PollOnce(c) ==
    /\ ensure[c].pc = "poll" /\ running /\ ~ensure[c].cancelled
    /\ SetEnsure(c, [ensure[c] EXCEPT !.pc = "copy", !.hit = socket # "none"])
    /\ UNCHANGED sandbox

\* A request of it fails; the error is taken for a socket that is not there.
PollFails(c) ==
    /\ ensure[c].pc = "poll"
    /\ To(c, "wait")
    /\ UNCHANGED sandbox

\* The copy of the attached stream is at its end, and the exit status is asked
\* for; by then the sandbox may have stopped and the context be cancelled.
PollEnds(c) ==
    /\ ensure[c].pc = "copy"
    /\ \/ ensure[c].hit /\ ~ensure[c].cancelled /\ To(c, "nil")
       \/ To(c, "wait")
    /\ UNCHANGED sandbox

\* The attached stream breaks off: the copy's error is ignored, and the status
\* of an exec that still runs reads as zero.
PollBroken(c) ==
    /\ ensure[c].pc = "copy" /\ running /\ ~ensure[c].cancelled
    /\ SetEnsure(c, [ensure[c] EXCEPT !.pc = "nil", !.broken = TRUE])
    /\ UNCHANGED sandbox

\* ctx.Done(), or the poll interval.
WaitAgain(c) ==
    /\ ensure[c].pc = "wait"
    /\ \/ ensure[c].cancelled /\ To(c, "err")
       \/ To(c, "poll")
    /\ UNCHANGED sandbox

\* Mutant: the loop has no deadline.
DeadlineNever(c) == ensure[c].pc = "wait" /\ ensure[c].cancelled /\ To(c, "err") /\ UNCHANGED sandbox

\* readinessTimeout is over.
Deadline(c) ==
    /\ ensure[c].pc = "wait"
    /\ To(c, "err")
    /\ UNCHANGED sandbox

CancelEnsure(c) ==
    /\ ~ensure[c].cancelled /\ ensure[c].pc \notin {"nil", "err", "disabled"}
    /\ SetEnsure(c, [ensure[c] EXCEPT !.cancelled = TRUE])
    /\ UNCHANGED sandbox

-----------------------------------------------------------------------------
(* The sandbox.                                                             *)

\* cauteum-sshd: it leaves when a live daemon owns the socket, else it takes
\* the socket, or fails.
DaemonComes(c) ==
    /\ c \in pending
    /\ pending' = pending \ {c}
    /\ \/ /\ socket' = "live"
          /\ ensure' = [d \in SSHCallers |-> [ensure[d] EXCEPT !.served = TRUE]]
       \/ UNCHANGED <<socket, ensure>>
    /\ UNCHANGED <<ssh, running, stops>>

\* The daemon ends and its socket stays.
DaemonGoes ==
    /\ socket = "live"
    /\ socket' = "stale"
    /\ UNCHANGED <<ssh, running, pending, ensure, stops>>

StopSandbox ==
    /\ running /\ stops < MaxStops
    /\ running' = FALSE /\ stops' = stops + 1
    /\ pending' = {}
    /\ socket' = IF socket = "none" THEN "none" ELSE "stale"
    /\ UNCHANGED <<ssh, ensure>>

StartSandbox ==
    /\ ~running
    /\ running' = TRUE
    /\ UNCHANGED <<ssh, socket, pending, ensure, stops>>

-----------------------------------------------------------------------------
EnsureStep(c) ==
    \/ InspectSandbox(c) \/ ExecCreate(c) \/ ExecStart(c) \/ RequestFails(c)
    \/ PollOnce(c) \/ PollFails(c) \/ WaitAgain(c)

StreamEnds(c) == PollEnds(c) \/ PollBroken(c)

SSHNext ==
    \/ DaemonGoes \/ StopSandbox \/ StartSandbox
    \/ \E c \in SSHCallers :
          EnsureStep(c) \/ StreamEnds(c) \/ Deadline(c) \/ CancelEnsure(c) \/ DaemonComes(c)

\* The engine answers or fails every request and the clock goes on: a loop that
\* is at its head again and again meets its deadline.  The stream of an exec has
\* none: that it ends with its process is up to the engine.
SSHFairness ==
    \A c \in SSHCallers :
        WF_sshVars(EnsureStep(c)) /\ WF_sshVars(StreamEnds(c)) /\ SF_sshVars(Deadline(c))

SSHSpec == SSHInit /\ [][SSHNext]_sshVars /\ SSHFairness

-----------------------------------------------------------------------------
(* Properties.                                                              *)

\* "waits until the socket exists": a call that returned nil found the socket of
\* a daemon that was there during the call.  The exceptions are a socket file
\* that an earlier daemon left, and a poll whose connection broke off.
NilMeansServed ==
    \A c \in SSHCallers :
        LET k == ensure[c] IN k.pc = "nil" /\ ~k.stale /\ ~k.broken => k.served

\* The deadline: a call returns although the sandbox is stopped, its daemon
\* fails or every poll does, if the stream of each poll ends.
EnsureReturns ==
    \A c \in SSHCallers :
        ensure[c].pc # "inspect" ~> ensure[c].pc \in {"nil", "err", "disabled"}
=============================================================================
