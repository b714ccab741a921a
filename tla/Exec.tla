-------------------------------- MODULE Exec --------------------------------
(***************************************************************************)
(* Driver.Exec (internal/docker/docker.go): a command run in a container    *)
(* over a hijacked connection, with a terminal also a goroutine that copies *)
(* its output, one that copies the host's stdin and one that follows the    *)
(* terminal's size.  One caller runs its Execs one after the other, on one  *)
(* terminal; the goroutines of an Exec may outlive it.                      *)
(***************************************************************************)
EXTENDS Naturals

CONSTANTS
    Kinds,       \* "plain": no TTY, "tty": TTY without a host terminal,
                 \* "term": TTY on the host's terminal
    MaxExecs,    \* bound: Execs one after the other
    MaxKeys      \* bound: reads of stdin that return input

ASSUME ExecAssumption ==
    /\ Kinds \subseteq {"plain", "tty", "term"}
    /\ MaxExecs \in Nat /\ MaxKeys \in Nat

Ids == 1 .. MaxExecs

VARIABLES
    begun,     \* Execs begun so far
    run,       \* each Exec's state
    mode,      \* the host terminal: cooked or raw
    keys       \* reads of stdin that returned input

vars == <<begun, run, mode, keys>>

AtRest == {"off", "ok", "err"}

\* pc       the call: its requests, streaming, the exit code request, its end
\* saved    the terminal mode term.Restore goes back to, "none" before MakeRaw
\* conn     the connection: ended by the remote side, closed by attach.Close
\* pending  output in the connection; cut: output was lost on the way
\* out, inp, size   the three goroutines
\* stolen   reads of stdin taken by the goroutine after the Exec returned
Execs ==
    [pc : AtRest \cup {"inspect", "create", "attach", "raw", "stream", "code"},
     kind : Kinds, live : BOOLEAN, saved : {"none", "cooked", "raw"},
     conn : {"none", "open", "ended", "closed"},
     pending : BOOLEAN, cut : BOOLEAN, out : {"off", "copy", "done"},
     inp : {"off", "read", "write", "close", "done"},
     size : {"off", "retry", "watch", "done"},
     stolen : Nat]

Fresh(k) ==
    [pc |-> "off", kind |-> k, live |-> TRUE, saved |-> "none",
     conn |-> "none", pending |-> FALSE, cut |-> FALSE, out |-> "off",
     inp |-> "off", size |-> "off", stolen |-> 0]

Init ==
    /\ begun = 0
    /\ run \in {[i \in Ids |-> Fresh(k[i])] : k \in [Ids -> Kinds]}
    /\ mode = "cooked"
    /\ keys = 0

Set(i, r) == run' = [run EXCEPT ![i] = r]

-----------------------------------------------------------------------------
(* The call.                                                                *)

Begin ==
    LET i == begun + 1 IN
    /\ begun < MaxExecs /\ \A j \in Ids : run[j].pc \in AtRest
    /\ begun' = i
    /\ Set(i, [run[i] EXCEPT !.pc = "inspect"])
    /\ UNCHANGED <<mode, keys>>

\* The goroutines that copy the streams are started (without a TTY the call
\* copies the output itself).
Streaming(r) ==
    [r EXCEPT !.pc = "stream", !.out = "copy",
              !.inp = IF r.kind = "plain" THEN "off" ELSE "read"]

\* ExecAttach starts the command.
Attached(r) == [r EXCEPT !.conn = "open"]

Request(i) ==
    LET r == run[i] IN
    /\ r.live
    /\ \/ r.pc = "inspect" /\ Set(i, [r EXCEPT !.pc = "create"])
       \/ r.pc = "create" /\ Set(i, [r EXCEPT !.pc = "attach"])
       \/ r.pc = "attach" /\ Set(i, IF r.kind = "term" THEN [Attached(r) EXCEPT !.pc = "raw"]
                                    ELSE Streaming(Attached(r)))
    /\ UNCHANGED <<begun, mode, keys>>

\* The deferred calls: attach.Close and term.Restore.
Ended(r, how) == [r EXCEPT !.pc = how, !.conn = IF r.conn = "none" THEN "none" ELSE "closed"]

Return(i, r, how) ==
    /\ mode' = IF r.saved = "none" THEN mode ELSE r.saved
    /\ Set(i, Ended(r, how))
    /\ UNCHANGED <<begun, keys>>

\* A request fails, also because the context is done.
RequestFails(i) ==
    /\ run[i].pc \in {"inspect", "create", "attach"}
    /\ Return(i, run[i], "err")

MakeRaw(i) ==
    LET r == run[i] IN
    /\ r.pc = "raw"
    /\ \/ /\ mode' = "raw"
          /\ Set(i, [Streaming(r) EXCEPT !.saved = mode, !.size = "retry"])
          /\ UNCHANGED <<begun, keys>>
       \/ Return(i, r, "err")

\* Mutant: the call waits for its stdin goroutine too.
StreamEndsBoth(i) ==
    LET r == run[i] IN
    /\ r.pc = "stream" /\ r.out = "done" /\ r.inp \in {"off", "done"}
    /\ Set(i, [r EXCEPT !.pc = "code"])
    /\ UNCHANGED <<begun, mode, keys>>

\* Mutant: the call waits for nothing.
StreamEndsEarly(i) ==
    LET r == run[i] IN
    /\ r.pc = "stream"
    /\ Set(i, [r EXCEPT !.pc = "code"])
    /\ UNCHANGED <<begun, mode, keys>>

\* <-outDone: the output is at its end, stdin is not waited for.
StreamEnds(i) ==
    LET r == run[i] IN
    /\ r.pc = "stream" /\ r.out = "done"
    /\ Set(i, [r EXCEPT !.pc = "code"])
    /\ UNCHANGED <<begun, mode, keys>>

\* ExecInspect: its Running field is not looked at, so that the status of a
\* command that still runs is returned as well.
ExitCode(i) ==
    /\ run[i].pc = "code" /\ run[i].live
    /\ Return(i, run[i], "ok")

\* Mutant: the terminal is restored on the way to success only.
ExitCodeFailsRaw(i) ==
    LET r == run[i] IN
    /\ r.pc = "code"
    /\ Return(i, [r EXCEPT !.saved = "none"], "err")

ExitCodeFails(i) ==
    LET r == run[i] IN
    /\ r.pc = "code"
    /\ Return(i, r, "err")

-----------------------------------------------------------------------------
(* The goroutines.                                                          *)

CopyOutput(i) ==
    LET r == run[i] IN
    /\ r.out = "copy" /\ r.pending /\ r.conn # "closed"
    /\ Set(i, [r EXCEPT !.pending = FALSE])
    /\ UNCHANGED <<begun, mode, keys>>

\* io.Copy ends: at the end of the stream, or because stdout failed.
OutputEnds(i) ==
    LET r == run[i] IN
    /\ r.out = "copy" /\ (~r.pending \/ r.conn = "closed") /\ r.conn \in {"ended", "closed"}
    /\ Set(i, [r EXCEPT !.out = "done"])
    /\ UNCHANGED <<begun, mode, keys>>

StdoutFails(i) ==
    LET r == run[i] IN
    /\ r.out = "copy" /\ r.pending
    /\ Set(i, [r EXCEPT !.out = "done", !.cut = TRUE])
    /\ UNCHANGED <<begun, mode, keys>>

\* A blocked read of stdin returns input: any of the goroutines may get it.
Key(i) ==
    LET r == run[i] IN
    /\ r.inp = "read" /\ keys < MaxKeys
    /\ keys' = keys + 1
    /\ Set(i, [r EXCEPT !.inp = "write",
                        !.stolen = IF r.pc \in AtRest THEN @ + 1 ELSE @])
    /\ UNCHANGED <<begun, mode>>

StdinEnds(i) ==
    /\ run[i].inp = "read"
    /\ Set(i, [run[i] EXCEPT !.inp = "close"])
    /\ UNCHANGED <<begun, mode, keys>>

\* Mutant: a failed write is ignored.
WriteKeyAlways(i) ==
    /\ run[i].inp = "write"
    /\ Set(i, [run[i] EXCEPT !.inp = "read"])
    /\ UNCHANGED <<begun, mode, keys>>

\* copyStdinTTY writes what it read; the write fails on a closed connection,
\* and may fail once the remote side is gone.
WriteKey(i) ==
    LET r == run[i] IN
    /\ r.inp = "write"
    /\ \/ r.conn # "closed" /\ Set(i, [r EXCEPT !.inp = "read"])
       \/ r.conn # "open" /\ Set(i, [r EXCEPT !.inp = "close"])
    /\ UNCHANGED <<begun, mode, keys>>

\* attach.CloseWrite, its error ignored.
CloseWrite(i) ==
    /\ run[i].inp = "close"
    /\ Set(i, [run[i] EXCEPT !.inp = "done"])
    /\ UNCHANGED <<begun, mode, keys>>

\* resizeExecTTY: a bounded number of retries, then until the context is done.
Resized(i) ==
    /\ run[i].size = "retry"
    /\ Set(i, [run[i] EXCEPT !.size = "watch"])
    /\ UNCHANGED <<begun, mode, keys>>

\* Mutant: the watch notices the context only while its Exec streams.
WatchEndsDeaf(i) ==
    /\ run[i].size = "watch" /\ ~run[i].live /\ run[i].pc = "stream"
    /\ Set(i, [run[i] EXCEPT !.size = "done"])
    /\ UNCHANGED <<begun, mode, keys>>

WatchEnds(i) ==
    /\ run[i].size = "watch" /\ ~run[i].live
    /\ Set(i, [run[i] EXCEPT !.size = "done"])
    /\ UNCHANGED <<begun, mode, keys>>

-----------------------------------------------------------------------------
(* The command, the connection and the caller's context.                    *)

RemoteWrites(i) ==
    LET r == run[i] IN
    /\ r.conn = "open" /\ ~r.pending
    /\ Set(i, [r EXCEPT !.pending = TRUE])
    /\ UNCHANGED <<begun, mode, keys>>

\* The command exits, or closes its output and goes on.
RemoteCloses(i) ==
    /\ run[i].conn = "open"
    /\ Set(i, [run[i] EXCEPT !.conn = "ended"])
    /\ UNCHANGED <<begun, mode, keys>>

ConnectionBreaks(i) ==
    /\ run[i].conn = "open"
    /\ Set(i, [run[i] EXCEPT !.conn = "ended", !.pending = FALSE, !.cut = TRUE])
    /\ UNCHANGED <<begun, mode, keys>>

\* The requests obey the context, the hijacked connection does not.
Cancel(i) ==
    /\ i <= begun /\ run[i].live
    /\ Set(i, [run[i] EXCEPT !.live = FALSE])
    /\ UNCHANGED <<begun, mode, keys>>

Call(i) ==
    \/ Request(i) \/ RequestFails(i) \/ MakeRaw(i) \/ StreamEnds(i)
    \/ ExitCode(i) \/ ExitCodeFails(i)

Output(i) == CopyOutput(i) \/ OutputEnds(i)

Resize(i) == Resized(i) \/ WatchEnds(i)

Next ==
    \/ Begin
    \/ \E i \in Ids :
          \/ Call(i) \/ Output(i) \/ Resize(i) \/ StdoutFails(i)
          \/ Key(i) \/ StdinEnds(i) \/ WriteKey(i) \/ CloseWrite(i)
          \/ RemoteWrites(i) \/ RemoteCloses(i) \/ ConnectionBreaks(i) \/ Cancel(i)

Spec == Init /\ [][Next]_vars

\* Requests return and goroutines that can run do run; nobody has to type,
\* and the command need not end.
FairSpec ==
    Spec /\ \A i \in Ids : WF_vars(Call(i)) /\ WF_vars(Output(i)) /\ WF_vars(Resize(i))

-----------------------------------------------------------------------------
(* Properties.                                                              *)

\* Every Exec, and the terminal, has its type.
TypeOK ==
    /\ begun \in 0 .. MaxExecs
    /\ run \in [Ids -> Execs]
    /\ mode \in {"cooked", "raw"}
    /\ keys \in 0 .. MaxKeys

\* The deferred term.Restore: between two Execs the host's terminal is as it
\* was, whichever request failed and whatever goroutines are left.
TerminalRestored == (\A i \in Ids : run[i].pc \in AtRest) => mode = "cooked"

\* <-outDone: an Exec that returns a status has handed on all of the output
\* that its connection delivered.
OutputFirst ==
    \A i \in Ids : run[i].pc = "ok" /\ ~run[i].cut => ~run[i].pending

\* The goroutine that copies stdin outlives its Exec, blocked in its read, and
\* competes with the next Exec for the keyboard; it gets at most one read,
\* because its write to the closed connection ends it.
OneReadStolen == \A i \in Ids : run[i].stolen <= 1

\* "When the remote PTY closes, stop waiting on stdin": an Exec whose output
\* has ended returns without another key.
HangupReturns ==
    \A i \in Ids :
        run[i].pc = "stream" /\ run[i].conn = "ended" ~> run[i].pc \in AtRest

\* The goroutine that follows the terminal's size ends with the caller's
\* context, also when its Exec has returned long before.
ResizersEnd ==
    \A i \in Ids : run[i].size # "off" /\ ~run[i].live ~> run[i].size = "done"
=============================================================================
