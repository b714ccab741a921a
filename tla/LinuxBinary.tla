---------------------------- MODULE LinuxBinary ----------------------------
(***************************************************************************)
(* The cached Linux binaries (internal/sidecar/sidecar.go): EnsureLinuxCLI, *)
(* EnsureLinuxInit, EnsureLinuxSSHD and EnsureLinuxAgent compare the cached *)
(* file's time with the sources' and rebuild it when they are newer.  Calls *)
(* of several processes share the file and the sources without a lock, and  *)
(* people edit the sources meanwhile.                                       *)
(***************************************************************************)
EXTENDS Naturals

CONSTANTS
    Builders,    \* concurrent calls
    MaxEdits,    \* bound: edits of the sources
    MaxTime      \* bound: ticks of the file system's clock

ASSUME BuildAssumption == MaxEdits \in Nat /\ MaxTime \in Nat

VARIABLES
    now,         \* the clock of the file times
    src,         \* the sources: their version and the newest of their times
    cache,       \* the cached file
    build        \* the call of each builder

buildVars == <<now, src, cache, build>>

\* size     none (no file), empty, partial or whole
\* ver      the sources it was made from
\* time     its modification time
\* raced    the sources changed between the compiler's reading and the file's
\*          writing, or they changed without a newer time (history)
Files == [size : {"none", "empty", "partial", "whole"}, ver : 0 .. MaxEdits,
          time : 0 .. MaxTime, raced : BOOLEAN]

\* seen      outTime; ver   the version the compiler read
\* wrote     the call's compiler has begun to write the file (history)
\* wanted    the sources' version when the call began (history)
\* got       the file when the call returned its path (history)
Calls == [pc : {"start", "check", "compile", "write", "finish", "ok", "err"},
          seen : 0 .. MaxTime, ver : 0 .. MaxEdits, wrote : BOOLEAN,
          wanted : 0 .. MaxEdits, got : Files]

NoFile == [size |-> "none", ver |-> 0, time |-> 0, raced |-> FALSE]

BuildInit ==
    /\ now = 0
    /\ src = [ver |-> 0, time |-> 0]
    /\ cache = NoFile
    /\ build = [b \in Builders |->
          [pc |-> "start", seen |-> 0, ver |-> 0, wrote |-> FALSE, wanted |-> 0, got |-> NoFile]]

\* The file a build of version v writes now.
Output(s, v) == [size |-> s, ver |-> v, time |-> now, raced |-> v # src.ver]

SetBuild(b, k) == build' = [build EXCEPT ![b] = k]

-----------------------------------------------------------------------------
(* needsLinuxRebuild.                                                       *)

\* The environment may ask for a build; the file is looked at first.
StatOut(b) ==
    /\ build[b].pc = "start"
    /\ \E forced \in BOOLEAN :
          SetBuild(b, [build[b] EXCEPT
             !.pc = IF forced \/ cache.size \in {"none", "empty"} THEN "compile" ELSE "check",
             !.seen = cache.time, !.wanted = src.ver])
    /\ UNCHANGED <<now, src, cache>>

\* Mutant: only go.mod and go.sum are looked at, and they stay as they are.
CheckGoModOnly(b) ==
    /\ build[b].pc = "check"
    /\ SetBuild(b, [build[b] EXCEPT !.pc = "ok", !.got = cache])
    /\ UNCHANGED <<now, src, cache>>

\* go.mod, go.sum and the walk; a tree that cannot be read means a build.
CheckSources(b) ==
    /\ build[b].pc = "check"
    /\ \E unreadable \in BOOLEAN :
          SetBuild(b, IF unreadable \/ src.time > build[b].seen
                      THEN [build[b] EXCEPT !.pc = "compile"]
                      ELSE [build[b] EXCEPT !.pc = "ok", !.got = cache])
    /\ UNCHANGED <<now, src, cache>>

-----------------------------------------------------------------------------
(* go build -o out.                                                         *)

Compile(b) ==
    /\ build[b].pc = "compile"
    /\ SetBuild(b, [build[b] EXCEPT !.pc = "write", !.ver = src.ver])
    /\ UNCHANGED <<now, src, cache>>

\* The output is written in place: empty, then partly, then whole.
Write(b) ==
    /\ build[b].pc = "write"
    /\ cache' \in {Output(s, build[b].ver) : s \in {"empty", "partial"}}
    /\ SetBuild(b, [build[b] EXCEPT !.pc = "finish", !.wrote = TRUE])
    /\ UNCHANGED <<now, src>>

\* Mutant: a build that failed is not noticed.
FinishAnyhow(b) ==
    /\ build[b].pc = "finish"
    /\ cache' = Output("whole", build[b].ver) \/ UNCHANGED cache
    /\ SetBuild(b, [build[b] EXCEPT !.pc = "ok", !.got = cache'])
    /\ UNCHANGED <<now, src>>

Finish(b) ==
    /\ build[b].pc = "finish"
    /\ cache' = Output("whole", build[b].ver)
    /\ SetBuild(b, [build[b] EXCEPT !.pc = "ok", !.got = cache'])
    /\ UNCHANGED <<now, src>>

\* MkdirAll or the compiler fails, or the context kills the compiler: whatever
\* was written stays.
BuildFails(b) ==
    /\ build[b].pc \in {"compile", "write", "finish"}
    /\ SetBuild(b, [build[b] EXCEPT !.pc = "err"])
    /\ UNCHANGED <<now, src, cache>>

\* So does a whole file that cannot be made executable.
ChmodFails(b) ==
    /\ build[b].pc = "finish"
    /\ cache' = Output("whole", build[b].ver)
    /\ SetBuild(b, [build[b] EXCEPT !.pc = "err"])
    /\ UNCHANGED <<now, src>>

-----------------------------------------------------------------------------
Tick ==
    /\ now < MaxTime
    /\ now' = now + 1
    /\ UNCHANGED <<src, cache, build>>

\* A source file is written now; a file made from an earlier version is not to
\* blame if it has no older time.
Edit ==
    /\ src.ver < MaxEdits
    /\ src' = [ver |-> src.ver + 1, time |-> now]
    /\ cache' = [cache EXCEPT !.raced = @ \/ cache.time >= now]
    /\ UNCHANGED <<now, build>>

\* A source file is removed, or replaced by one with an old time.
EditUnseen ==
    /\ src.ver < MaxEdits
    /\ src' = [src EXCEPT !.ver = @ + 1]
    /\ cache' = [cache EXCEPT !.raced = TRUE]
    /\ UNCHANGED <<now, build>>

BuildNext ==
    \/ Tick \/ Edit \/ EditUnseen
    \/ \E b \in Builders :
          StatOut(b) \/ CheckSources(b) \/ Compile(b) \/ Write(b) \/ Finish(b) \/ BuildFails(b)
          \/ ChmodFails(b)

BuildSpec == BuildInit /\ [][BuildNext]_buildVars

-----------------------------------------------------------------------------
(* Properties.                                                              *)

\* needsLinuxRebuild, its size test and the compiler's status: whatever other
\* calls do to the file meanwhile, a call returns a whole binary of the sources it
\* found, or of newer ones.  The exceptions are a file that another call is
\* writing, or was stopped while it did, and sources that changed while the
\* binary was built, or without a newer time.
CurrentUnlessRaced ==
    \A b \in Builders :
        LET k == build[b] IN
        k.pc = "ok" =>
            \/ k.got.size = "whole" /\ (k.got.ver >= k.wanted \/ k.got.raced)
            \/ k.got.size # "whole" /\ \E o \in Builders \ {b} : build[o].wrote
=============================================================================
