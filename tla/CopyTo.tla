------------------------------- MODULE CopyTo -------------------------------
(***************************************************************************)
(* Driver.CopyTo (internal/docker/docker.go): a goroutine walks the host    *)
(* tree and writes it as a tar archive into a pipe, the engine call reads   *)
(* the other end, the caller closes the read end and collects the writer's  *)
(* error.  The walk, the engine and the caller's context may fail at any    *)
(* point, and the engine may stop reading before the end.                   *)
(***************************************************************************)
EXTENDS Naturals

CONSTANT Entries    \* files and directories of the host tree

ASSUME CopyToAssumption == Entries \in Nat \ {0}

VARIABLES
    writer,    \* the walking goroutine
    put,       \* entries it has written in full
    werr,      \* its error, or nil
    tail,      \* the last entry it began: whole, or cut short of its header
    archive,   \* what the engine finds at the end of what was written
    engine,    \* the request: reading, ok, failed
    got,       \* entries the engine extracted
    uploader,  \* the caller: calling, draining errCh, nil or error
    readEnd    \* the read end of the pipe

toVars == <<writer, put, werr, tail, archive, engine, got, uploader, readEnd>>

ToInit ==
    /\ writer = "walk" /\ put = 0 /\ werr = "nil" /\ tail = "whole"
    /\ archive = "open" /\ engine = "reading" /\ got = 0
    /\ uploader = "call" /\ readEnd = "open"

walk == <<writer, put, werr, tail>>
call == <<engine, got, uploader, readEnd>>

-----------------------------------------------------------------------------
(* The writer.                                                              *)

\* Writing an entry blocks until the engine has read it.
WriteEntry ==
    /\ writer = "walk" /\ put < Entries
    /\ engine = "reading" /\ readEnd = "open"
    /\ put' = put + 1 /\ got' = got + 1
    /\ UNCHANGED <<writer, werr, tail, archive, engine, uploader, readEnd>>

WalkEnds ==
    /\ writer = "walk" /\ put = Entries
    /\ writer' = "trailer"
    /\ UNCHANGED <<put, werr, tail, archive, call>>

\* A file shrank since its size was put into the header: nothing is reported
\* where it happens, but the archive writer refuses the next header, and, after
\* the last entry, the trailer, whose error is ignored.
EntryShrinks ==
    /\ writer = "walk" /\ put < Entries
    /\ engine = "reading" /\ readEnd = "open"
    /\ tail' = "cut"
    /\ werr' = IF put + 1 < Entries THEN "err" ELSE werr
    /\ writer' = "close"
    /\ UNCHANGED <<put, archive, call>>

\* The walk fails between two entries, so that the archive so far is whole, or
\* within one.  A file that grew and a symbolic link, whose header says that it
\* has no data but whose target is read, fail with "write too long"; that leaves
\* the entry whole.
WalkFails ==
    /\ writer = "walk" /\ put < Entries
    /\ werr' = "err"
    /\ writer' \in {"trailer", "close"}
    /\ UNCHANGED <<put, tail, archive, call>>

\* The read end is closed: the write returns an error.
WriteRefused ==
    /\ writer \in {"walk", "trailer"} /\ readEnd = "closed"
    /\ werr' = IF writer = "walk" /\ put < Entries THEN "err" ELSE werr
    /\ writer' = "close"
    /\ UNCHANGED <<put, tail, archive, call>>

\* tw.Close, after an error too; its own error is ignored.
WriteTrailer ==
    /\ writer = "trailer" /\ engine = "reading" /\ readEnd = "open"
    /\ archive' = "trailer"
    /\ writer' = "close"
    /\ UNCHANGED <<put, werr, tail, call>>

\* pw.CloseWithError(err), then errCh <- err, which has room for it.
CloseArchive ==
    /\ writer = "close"
    /\ archive' = IF werr = "err" THEN "broken" ELSE IF tail = "cut" THEN "cut" ELSE "eof"
    /\ writer' = "send"
    /\ UNCHANGED <<put, werr, tail, call>>

Report ==
    /\ writer = "send"
    /\ writer' = "done"
    /\ UNCHANGED <<put, werr, tail, archive, call>>

-----------------------------------------------------------------------------
(* The engine call and the caller.                                          *)

\* The archive is complete for the engine at its trailer, and at its end unless
\* that cuts an entry.
EngineAccepts ==
    /\ engine = "reading" /\ archive \in {"trailer", "eof"}
    /\ engine' = "ok"
    /\ UNCHANGED <<walk, archive, got, uploader, readEnd>>

\* A broken body fails the request; the engine and the context fail it too.
EngineFails ==
    /\ engine = "reading"
    /\ engine' = "failed"
    /\ UNCHANGED <<walk, archive, got, uploader, readEnd>>

\* Mutant: the read end stays open.
CallReturnsOpen ==
    /\ uploader = "call" /\ engine # "reading"
    /\ uploader' = "drain"
    /\ UNCHANGED <<walk, archive, engine, got, readEnd>>

\* pr.Close releases a writer nobody reads any more.
CallReturns ==
    /\ uploader = "call" /\ engine # "reading"
    /\ readEnd' = "closed"
    /\ uploader' = "drain"
    /\ UNCHANGED <<walk, archive, engine, got>>

\* Mutant: only the engine's answer counts.
DrainIgnored ==
    /\ uploader = "drain" /\ writer = "done"
    /\ uploader' = IF engine = "ok" THEN "nil" ELSE "error"
    /\ UNCHANGED <<walk, archive, engine, got, readEnd>>

\* <-errCh: the writer's error counts when the engine reported none.
Drain ==
    /\ uploader = "drain" /\ writer = "done"
    /\ uploader' = IF engine = "ok" /\ werr = "nil" THEN "nil" ELSE "error"
    /\ UNCHANGED <<walk, archive, engine, got, readEnd>>

-----------------------------------------------------------------------------
Writer ==
    \/ WriteEntry \/ EntryShrinks \/ WalkEnds \/ WalkFails \/ WriteRefused
    \/ WriteTrailer \/ CloseArchive \/ Report

ToNext == Writer \/ EngineAccepts \/ EngineFails \/ CallReturns \/ Drain

ToSpec == ToInit /\ [][ToNext]_toVars

\* Goroutines that can run do run, and the request returns.
ToFairSpec ==
    /\ ToSpec
    /\ WF_toVars(Writer) /\ WF_toVars(EngineAccepts \/ EngineFails)
    /\ WF_toVars(CallReturns \/ Drain)

-----------------------------------------------------------------------------
(* Properties.                                                              *)

\* Every process is in one of its states.
TypeOK ==
    /\ writer \in {"walk", "trailer", "close", "send", "done"}
    /\ put \in 0 .. Entries /\ got \in 0 .. Entries
    /\ werr \in {"nil", "err"} /\ tail \in {"whole", "cut"} /\ readEnd \in {"open", "closed"}
    /\ archive \in {"open", "trailer", "eof", "cut", "broken"}
    /\ engine \in {"reading", "ok", "failed"}
    /\ uploader \in {"call", "drain", "nil", "error"}

\* nil means that the guest has the whole tree, although the archive of a walk
\* that failed between two entries looks complete to the engine, and the walk of
\* a tree whose last file shrank reports no error.
NilMeansCopied == uploader = "nil" => got = Entries

\* pr.Close before <-errCh: the call returns, whoever failed first.
CallEnds == <>(uploader \in {"nil", "error"})

\* Inductive with TypeOK: the engine has what was written; a writer that left
\* its walk without an error has written everything or cut its last entry; and
\* the engine accepts no archive with an entry cut.
Delivered ==
    /\ got = put
    /\ writer # "walk" /\ werr = "nil" => put = Entries \/ tail = "cut"
    /\ writer \in {"walk", "trailer"} => archive = "open"
    /\ tail = "cut" => writer \notin {"walk", "trailer"} /\ archive \notin {"trailer", "eof"}
    /\ engine = "ok" => tail = "whole"
    /\ uploader \in {"nil", "error"} => writer = "done"
    /\ uploader = "nil" => werr = "nil" /\ engine = "ok"
=============================================================================
