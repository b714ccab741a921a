-------------------------------- MODULE Logs --------------------------------
(***************************************************************************)
(* Driver.Logs (internal/docker/docker.go): the log streams of a sandbox    *)
(* and of its sidecar merged into one writer.  Each stream has a goroutine  *)
(* that copies it into a pipe and one that scans the pipe for lines; the    *)
(* scanners share a mutex around the writer and report an error to a        *)
(* channel, a waiter closes done, and the caller selects between done, the  *)
(* errors and its context.                                                  *)
(***************************************************************************)
EXTENDS Naturals, FiniteSets, Sequences

CONSTANT MaxLines    \* bound: lines of a stream

ASSUME LogsAssumption == MaxLines \in Nat

Streams == {"sandbox", "proxy"}

VARIABLES
    main,        \* the caller: what it is doing, then how it returned
    sources,     \* the streams still to be opened, in order
    opened,      \* the streams it opened
    cancelled,   \* its context is done
    copier,      \* copying goroutine: reading, blocked in the pipe, finished
    pipe,        \* how the write end was closed
    scan,        \* scanning goroutine
    closed,      \* streams whose reader was closed
    errs,        \* errors waiting in errCh
    done,        \* the waiter closed done
    lines,       \* lines each stream produced (history)
    written      \* lines of it that were written (history)

vars == <<main, sources, opened, cancelled, copier, pipe, scan, closed, errs,
          done, lines, written>>

Returns == {"nil", "error", "cancelled", "notOpened"}

\* The order in which the streams are opened, when the sidecar is found.
Order == <<"sandbox", "proxy">>

\* errCh := make(chan error, len(sources))
Capacity == Len(Order)

Init ==
    /\ main = "inspect"
    /\ sources = <<>>
    /\ opened = {}
    /\ cancelled = FALSE
    /\ copier = [s \in Streams |-> "off"]
    /\ pipe = [s \in Streams |-> "open"]
    /\ scan = [s \in Streams |-> "off"]
    /\ closed = {}
    /\ errs = 0
    /\ done = FALSE
    /\ lines = [s \in Streams |-> 0]
    /\ written = [s \in Streams |-> 0]

caller == <<main, sources, opened>>
stream == <<copier, pipe, lines>>
scanner == <<scan, closed, errs, written>>

-----------------------------------------------------------------------------
(* The caller.                                                              *)

\* The sidecar is looked up; any error means there is none.
Inspect ==
    /\ main = "inspect"
    /\ sources' \in {<<"sandbox">>, Order}
    /\ main' = IF Len(sources') = 1 THEN "openOnly" ELSE "open"
    /\ UNCHANGED <<opened, cancelled, stream, scanner, done>>

\* Without a sidecar the stream is copied by the caller itself, line by line.
OpenOnly ==
    /\ main = "openOnly"
    /\ main' \in {"copy", "notOpened"}
    /\ UNCHANGED <<sources, opened, cancelled, stream, scanner, done>>

\* A line, the end of the stream or a failure of it.
CopyOnly ==
    /\ main = "copy"
    /\ main' \in {"emit", "nil", "error"}
    /\ UNCHANGED <<sources, opened, cancelled, stream, scanner, done>>

CopyOnlyFails ==
    /\ main = "copy" /\ cancelled
    /\ main' = "error"
    /\ UNCHANGED <<sources, opened, cancelled, stream, scanner, done>>

EmitOnly ==
    /\ main = "emit"
    /\ main' \in {"copy", "error"}
    /\ UNCHANGED <<sources, opened, cancelled, stream, scanner, done>>

Open ==
    LET s == Head(sources) IN
    /\ main = "open" /\ sources # <<>> /\ ~cancelled
    /\ sources' = Tail(sources)
    /\ opened' = opened \cup {s}
    /\ copier' = [copier EXCEPT ![s] = "read"]
    /\ scan' = [scan EXCEPT ![s] = "wait"]
    /\ UNCHANGED <<main, cancelled, pipe, closed, errs, done, lines, written>>

\* The sidecar's stream may be missing, the sandbox's may not.
OpenFails ==
    /\ main = "open" /\ sources # <<>>
    /\ IF Head(sources) = "proxy"
       THEN sources' = Tail(sources) /\ UNCHANGED main
       ELSE main' = "notOpened" /\ UNCHANGED sources
    /\ UNCHANGED <<opened, cancelled, stream, scanner, done>>

Launched ==
    /\ main = "open" /\ sources = <<>>
    /\ main' = "select"
    /\ UNCHANGED <<sources, opened, cancelled, stream, scanner, done>>

\* Mutant: done alone means success.
SelectDoneOnly ==
    /\ main = "select" /\ done
    /\ main' = "nil" /\ UNCHANGED errs
    /\ UNCHANGED <<sources, opened, cancelled, stream, scan, closed, done, written>>

\* done: an error that was reported before still counts.
SelectDone ==
    /\ main = "select" /\ done
    /\ IF errs > 0 THEN main' = "error" /\ errs' = errs - 1
       ELSE main' = "nil" /\ UNCHANGED errs
    /\ UNCHANGED <<sources, opened, cancelled, stream, scan, closed, done, written>>

SelectError ==
    /\ main = "select" /\ errs > 0
    /\ main' = "error" /\ errs' = errs - 1
    /\ UNCHANGED <<sources, opened, cancelled, stream, scan, closed, done, written>>

\* Mutant: the caller does not select on its context.
SelectNeverCancelled ==
    /\ main = "select" /\ cancelled /\ done
    /\ main' = "cancelled"
    /\ UNCHANGED <<sources, opened, cancelled, stream, scanner, done>>

SelectCancelled ==
    /\ main = "select" /\ cancelled
    /\ main' = "cancelled"
    /\ UNCHANGED <<sources, opened, cancelled, stream, scanner, done>>

-----------------------------------------------------------------------------
(* The goroutines of a stream.                                              *)

\* StdCopy has a line and blocks in the pipe until it is read.
Line(s) ==
    /\ copier[s] = "read" /\ s \notin closed
    /\ lines[s] < MaxLines
    /\ copier' = [copier EXCEPT ![s] = "write"]
    /\ lines' = [lines EXCEPT ![s] = @ + 1]
    /\ UNCHANGED <<caller, cancelled, pipe, scanner, done>>

CloseWithError(s, how) ==
    /\ copier' = [copier EXCEPT ![s] = "done"]
    /\ pipe' = [pipe EXCEPT ![s] = how]
    /\ UNCHANGED <<caller, cancelled, lines, scanner, done>>

\* The container stops, or the connection breaks.
StreamEnds(s) ==
    /\ copier[s] = "read" /\ s \notin closed
    /\ CloseWithError(s, "eof") \/ CloseWithError(s, "broken")

\* Reading ends with the context of the request or with the reader's Close.
ReadFails(s) ==
    /\ copier[s] = "read" /\ (cancelled \/ s \in closed)
    /\ CloseWithError(s, "broken")

ScanTo(s, l) == scan' = [scan EXCEPT ![s] = l]

ScanLine(s) ==
    /\ scan[s] = "wait" /\ copier[s] = "write"
    /\ ScanTo(s, "line")
    /\ copier' = [copier EXCEPT ![s] = "read"]
    /\ UNCHANGED <<caller, cancelled, pipe, lines, closed, errs, done, written>>

\* A line longer than the scanner's buffer; the pipe is not read further.
ScanTooLong(s) ==
    /\ scan[s] = "wait" /\ copier[s] = "write"
    /\ ScanTo(s, IF cancelled THEN "close" ELSE "send")
    /\ UNCHANGED <<caller, cancelled, stream, closed, errs, done, written>>

\* The pipe is at its end; an error after a cancellation is not reported.
ScanEnd(s) ==
    /\ scan[s] = "wait" /\ pipe[s] # "open"
    /\ ScanTo(s, IF pipe[s] = "broken" /\ ~cancelled THEN "send" ELSE "close")
    /\ UNCHANGED <<caller, cancelled, stream, closed, errs, done, written>>

CheckContext(s) ==
    /\ scan[s] = "line"
    /\ ScanTo(s, IF cancelled THEN "send" ELSE "lock")
    /\ UNCHANGED <<caller, cancelled, stream, closed, errs, done, written>>

Lock(s) ==
    /\ scan[s] = "lock" /\ \A t \in Streams : scan[t] # "write"
    /\ ScanTo(s, "write")
    /\ UNCHANGED <<caller, cancelled, stream, closed, errs, done, written>>

\* The caller's writer takes the line, or fails; it may also block.
WriteLine(s) ==
    /\ scan[s] = "write"
    /\ \/ ScanTo(s, "wait") /\ written' = [written EXCEPT ![s] = @ + 1]
       \/ ScanTo(s, "send") /\ UNCHANGED written
    /\ UNCHANGED <<caller, cancelled, stream, closed, errs, done>>

\* Mutant: the channel has no buffer, a send needs the caller in its select.
SendUnbuffered(s) ==
    /\ scan[s] = "send" /\ errs = 0 /\ main = "select"
    /\ ScanTo(s, "close")
    /\ errs' = errs + 1
    /\ UNCHANGED <<caller, cancelled, stream, closed, done, written>>

Send(s) ==
    /\ scan[s] = "send" /\ errs < Capacity
    /\ ScanTo(s, "close")
    /\ errs' = errs + 1
    /\ UNCHANGED <<caller, cancelled, stream, closed, done, written>>

\* The deferred calls: rc.Close and wg.Done.
Close(s) ==
    /\ scan[s] = "close"
    /\ ScanTo(s, "done")
    /\ closed' = closed \cup {s}
    /\ UNCHANGED <<caller, cancelled, stream, errs, done, written>>

\* The waiter goroutine, started when every stream is.
Waiter ==
    /\ main \in {"select", "nil", "error", "cancelled"} /\ opened # {} /\ ~done
    /\ \A s \in opened : scan[s] = "done"
    /\ done' = TRUE
    /\ UNCHANGED <<caller, cancelled, stream, scanner>>

Cancel ==
    /\ ~cancelled
    /\ cancelled' = TRUE
    /\ UNCHANGED <<caller, stream, scanner, done>>

-----------------------------------------------------------------------------
Caller ==
    \/ Inspect \/ Open \/ OpenFails \/ Launched \/ OpenOnly \/ CopyOnlyFails
    \/ SelectDone \/ SelectError \/ SelectCancelled

Scanner(s) ==
    \/ ScanLine(s) \/ ScanTooLong(s) \/ ScanEnd(s) \/ CheckContext(s) \/ Lock(s)
    \/ Send(s) \/ Close(s)

Next ==
    \/ Caller \/ CopyOnly \/ EmitOnly \/ Waiter \/ Cancel
    \/ \E s \in Streams : Line(s) \/ StreamEnds(s) \/ ReadFails(s) \/ WriteLine(s)
                          \/ Scanner(s)

Spec == Init /\ [][Next]_vars

\* Goroutines that can run do run; containers need not log or end, and the
\* writer need not take a line.
FairSpec ==
    /\ Spec
    /\ WF_vars(Caller) /\ WF_vars(Waiter)
    /\ \A s \in Streams : WF_vars(Scanner(s)) /\ WF_vars(ReadFails(s))

-----------------------------------------------------------------------------
(* Properties.                                                              *)

\* The two selects: nil means that every stream was read to its end, that all
\* of its lines reached the writer and that no goroutine writes any more,
\* unless the caller cancelled.
NilMeansAll ==
    main = "nil" /\ ~cancelled =>
        \A s \in opened :
            pipe[s] = "eof" /\ written[s] = lines[s] /\ scan[s] = "done"

\* The caller's select on its context: a cancelled call returns although the
\* writer may block a scanner (without a sidecar it may block the caller).
CancelReturns == cancelled ~> main \in Returns \cup {"emit"}

\* errCh has room for every scanner: after a cancellation all of them end, also
\* those whose errors nobody receives, unless the writer blocks one.
ScannersEnd ==
    cancelled ~> \/ \A s \in Streams : scan[s] \in {"off", "done"}
                 \/ \E s \in Streams : scan[s] = "write"
=============================================================================
