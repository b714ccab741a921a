---------------------------- MODULE HelperProofs ----------------------------
(***************************************************************************)
(* Image acquisition, probes, cached binaries and the relay's daemon, for   *)
(* any number of concurrent calls and any interference: others moving the   *)
(* tag, editing the sources, writing the same file, stopping the sandbox.   *)
(***************************************************************************)
EXTENDS Helpers, TLAPS

-----------------------------------------------------------------------------
(* The parts.  Each takes its own steps only, so that what is proved of a   *)
(* part alone holds of the composition.                                     *)

ImagesAlone == ProbeInit /\ [][ProbeNext]_probeVars
BinariesAlone == BuildInit /\ [][BuildNext]_buildVars
DaemonsAlone == SSHInit /\ [][SSHNext]_sshVars

\* A behaviour of the composition is one of each part.
LEMMA PartsKeepTheirSteps == HelperSpec => ImagesAlone /\ BinariesAlone /\ DaemonsAlone
  <1>1. HelperInit => ProbeInit /\ BuildInit /\ SSHInit
    BY DEF HelperInit
  <1>2. [HelperNext]_helperVars => [ProbeNext]_probeVars
    BY DEF HelperNext, Images, Binaries, Daemons, helperVars
  <1>3. [HelperNext]_helperVars => [BuildNext]_buildVars
    BY DEF HelperNext, Images, Binaries, Daemons, helperVars
  <1>4. [HelperNext]_helperVars => [SSHNext]_sshVars
    BY DEF HelperNext, Images, Binaries, Daemons, helperVars
  <1> QED
    BY <1>1, <1>2, <1>3, <1>4, PTL DEF HelperSpec, ImagesAlone, BinariesAlone, DaemonsAlone

-----------------------------------------------------------------------------
(* The cached binaries.                                                     *)

BuildTypeOK ==
    /\ now \in 0 .. MaxTime
    /\ src \in [ver : 0 .. MaxEdits, time : 0 .. MaxTime]
    /\ cache \in Files
    /\ build \in [Builders -> Calls]

\* A whole file that is not of the present sources is older than they are, or
\* its sources changed under the compiler or without a newer time.
FileDated ==
    /\ src.time <= now /\ cache.time <= now
    /\ cache.size = "whole" => cache.raced \/ cache.ver = src.ver \/ cache.time < src.time

\* A call that compares times has not written, and the file is no older than it
\* was; a file that is not whole has a writer.
CallDated ==
    /\ cache.size \in {"empty", "partial"} => \E o \in Builders : build[o].wrote
    /\ \A b \in Builders :
          /\ build[b].wanted <= src.ver
          /\ build[b].pc \in {"start", "check"} => ~build[b].wrote
          /\ build[b].pc = "check" => build[b].seen <= cache.time /\ cache.size # "none"
          /\ build[b].pc \in {"write", "finish"} => build[b].ver >= build[b].wanted

Dated == BuildTypeOK /\ FileDated /\ CallDated /\ CurrentUnlessRaced

LEMMA BuildTypeStep == BuildTypeOK /\ [BuildNext]_buildVars => BuildTypeOK'
  <1> SUFFICES ASSUME BuildTypeOK, [BuildNext]_buildVars PROVE BuildTypeOK'
    OBVIOUS
  <1> USE BuildAssumption DEF BuildTypeOK, Files
  <1>1. CASE Tick
    BY <1>1 DEF Tick
  <1>2. CASE Edit
    <2>1. src' \in [ver : 0 .. MaxEdits, time : 0 .. MaxTime]
      BY <1>2 DEF Edit
    <2>2. cache' \in Files
      BY <1>2 DEF Edit
    <2> QED BY <1>2, <2>1, <2>2 DEF Edit
  <1>3. CASE EditUnseen
    <2>1. src' \in [ver : 0 .. MaxEdits, time : 0 .. MaxTime]
      BY <1>3 DEF EditUnseen
    <2> QED BY <1>3, <2>1 DEF EditUnseen
  <1>4. ASSUME NEW b \in Builders, StatOut(b) PROVE BuildTypeOK'
    <2>1. PICK pc \in {"compile", "check"} :
             build' = [build EXCEPT ![b] =
                [build[b] EXCEPT !.pc = pc, !.seen = cache.time, !.wanted = src.ver]]
      BY <1>4 DEF StatOut, SetBuild
    <2>2. [build[b] EXCEPT !.pc = pc, !.seen = cache.time, !.wanted = src.ver] \in Calls
      <3>1. build[b] \in Calls /\ cache.time \in 0 .. MaxTime /\ src.ver \in 0 .. MaxEdits
        OBVIOUS
      <3> QED BY <3>1 DEF Calls
    <2> QED BY <1>4, <2>1, <2>2 DEF StatOut
  <1>5. ASSUME NEW b \in Builders, CheckSources(b) PROVE BuildTypeOK'
    <2>1. \/ SetBuild(b, [build[b] EXCEPT !.pc = "compile"])
          \/ SetBuild(b, [build[b] EXCEPT !.pc = "ok", !.got = cache])
      BY <1>5 DEF CheckSources
    <2>2. /\ [build[b] EXCEPT !.pc = "compile"] \in Calls
          /\ [build[b] EXCEPT !.pc = "ok", !.got = cache] \in Calls
      BY DEF Calls
    <2> QED BY <1>5, <2>1, <2>2 DEF CheckSources, SetBuild
  <1>6. ASSUME NEW b \in Builders, Compile(b) \/ BuildFails(b) PROVE BuildTypeOK'
    <2>1. \/ SetBuild(b, [build[b] EXCEPT !.pc = "write", !.ver = src.ver])
          \/ SetBuild(b, [build[b] EXCEPT !.pc = "err"])
      BY <1>6 DEF Compile, BuildFails
    <2>2. /\ [build[b] EXCEPT !.pc = "write", !.ver = src.ver] \in Calls
          /\ [build[b] EXCEPT !.pc = "err"] \in Calls
      BY DEF Calls
    <2> QED BY <1>6, <2>1, <2>2 DEF Compile, BuildFails, SetBuild
  <1>7. ASSUME NEW b \in Builders, Write(b) \/ Finish(b) \/ ChmodFails(b) PROVE BuildTypeOK'
    <2>1. build[b].ver \in 0 .. MaxEdits
      BY DEF Calls
    <2>2. PICK s \in {"empty", "partial", "whole"} : cache' = Output(s, build[b].ver)
      BY <1>7 DEF Write, Finish, ChmodFails
    <2>3. cache' \in Files
      BY <2>1, <2>2 DEF Output
    <2>4. \/ SetBuild(b, [build[b] EXCEPT !.pc = "finish", !.wrote = TRUE])
          \/ SetBuild(b, [build[b] EXCEPT !.pc = "ok", !.got = cache'])
          \/ SetBuild(b, [build[b] EXCEPT !.pc = "err"])
      BY <1>7 DEF Write, Finish, ChmodFails
    <2>5. /\ [build[b] EXCEPT !.pc = "finish", !.wrote = TRUE] \in Calls
          /\ [build[b] EXCEPT !.pc = "ok", !.got = cache'] \in Calls
          /\ [build[b] EXCEPT !.pc = "err"] \in Calls
      <3>1. build[b] \in Calls
        OBVIOUS
      <3> HIDE DEF Files
      <3> QED BY <2>3, <3>1 DEF Calls
    <2> QED BY <1>7, <2>3, <2>4, <2>5 DEF Write, Finish, ChmodFails, SetBuild
  <1>8. CASE UNCHANGED buildVars
    BY <1>8 DEF buildVars
  <1> QED BY <1>1, <1>2, <1>3, <1>4, <1>5, <1>6, <1>7, <1>8 DEF BuildNext

LEMMA DatedStep == Dated /\ [BuildNext]_buildVars => Dated'
  <1> SUFFICES ASSUME Dated, [BuildNext]_buildVars PROVE Dated'
    OBVIOUS
  <1>t. BuildTypeOK'
    BY BuildTypeStep DEF Dated
  <1> USE BuildAssumption DEF Dated, BuildTypeOK, Files
  <1>1. CASE Tick
    BY <1>1, <1>t DEF Tick, FileDated, CallDated, CurrentUnlessRaced
  <1>2. CASE Edit
    <2>1. FileDated'
      <3>1. /\ now' = now /\ src'.time = now
            /\ cache'.time = cache.time
            /\ cache.time >= now => cache'.raced
        BY <1>2 DEF Edit
      <3> QED BY <3>1 DEF FileDated
    <2>2. CallDated'
      BY <1>2 DEF Edit, CallDated, Calls
    <2>3. CurrentUnlessRaced'
      BY <1>2 DEF Edit, CurrentUnlessRaced
    <2> QED BY <1>t, <2>1, <2>2, <2>3
  <1>3. CASE EditUnseen
    <2>1. FileDated'
      BY <1>3 DEF EditUnseen, FileDated
    <2>2. CallDated'
      BY <1>3 DEF EditUnseen, CallDated, Calls
    <2>3. CurrentUnlessRaced'
      BY <1>3 DEF EditUnseen, CurrentUnlessRaced
    <2> QED BY <1>t, <2>1, <2>2, <2>3
  <1>4. ASSUME NEW b \in Builders, StatOut(b) PROVE Dated'
    <2>1. FileDated'
      BY <1>4 DEF StatOut, FileDated
    <2>2. CallDated'
      BY <1>4 DEF StatOut, SetBuild, CallDated, Calls
    <2>3. CurrentUnlessRaced'
      BY <1>4 DEF StatOut, SetBuild, CurrentUnlessRaced, Calls
    <2> QED BY <1>t, <2>1, <2>2, <2>3
  <1>5. ASSUME NEW b \in Builders, CheckSources(b) PROVE Dated'
    <2>1. FileDated'
      BY <1>5 DEF CheckSources, FileDated
    <2>2. CallDated'
      BY <1>5 DEF CheckSources, SetBuild, CallDated, Calls
    <2>3. CurrentUnlessRaced'
      <3>1. \/ cache.size = "whole" /\ (cache.ver >= build[b].wanted \/ cache.raced)
            \/ cache.size # "whole" /\ \E o \in Builders \ {b} : build[o].wrote
            \/ src.time > build[b].seen
        BY <1>5 DEF CheckSources, FileDated, CallDated, Calls
      <3> QED BY <1>5, <3>1 DEF CheckSources, SetBuild, CurrentUnlessRaced, Calls
    <2> QED BY <1>t, <2>1, <2>2, <2>3
  <1>6. ASSUME NEW b \in Builders, Compile(b) \/ BuildFails(b) PROVE Dated'
    <2>1. FileDated'
      BY <1>6 DEF Compile, BuildFails, FileDated
    <2>2. CASE Compile(b)
      <3>1. CallDated'
        BY <2>2 DEF Compile, SetBuild, CallDated, Calls
      <3>2. CurrentUnlessRaced'
        BY <2>2 DEF Compile, SetBuild, CurrentUnlessRaced, Calls
      <3> QED BY <1>t, <2>1, <3>1, <3>2
    <2>3. CASE BuildFails(b)
      <3>1. CallDated'
        BY <2>3 DEF BuildFails, SetBuild, CallDated, Calls
      <3>2. CurrentUnlessRaced'
        BY <2>3 DEF BuildFails, SetBuild, CurrentUnlessRaced, Calls
      <3> QED BY <1>t, <2>1, <3>1, <3>2
    <2> QED BY <1>6, <2>2, <2>3
  <1>7. ASSUME NEW b \in Builders, Write(b) PROVE Dated'
    <2>1. FileDated'
      <3>1. PICK s \in {"empty", "partial"} : cache' = Output(s, build[b].ver)
        BY <1>7 DEF Write
      <3>2. cache'.size # "whole" /\ cache'.time = now /\ now' = now /\ src' = src
        BY <1>7, <3>1 DEF Write, Output
      <3> QED BY <3>2 DEF FileDated
    <2>2. CallDated'
      BY <1>7 DEF Write, Output, SetBuild, FileDated, CallDated, Calls
    <2>3. CurrentUnlessRaced'
      BY <1>7 DEF Write, SetBuild, CurrentUnlessRaced, Calls
    <2> QED BY <1>t, <2>1, <2>2, <2>3
  <1>8. ASSUME NEW b \in Builders, Finish(b) PROVE Dated'
    <2>1. FileDated'
      <3>1. /\ now' = now /\ src' = src /\ cache'.time = now
            /\ cache'.ver # src.ver => cache'.raced
        BY <1>8 DEF Finish, Output
      <3> QED BY <3>1 DEF FileDated
    <2>2. CallDated'
      BY <1>8 DEF Finish, Output, SetBuild, FileDated, CallDated, Calls
    <2>3. CurrentUnlessRaced'
      BY <1>8 DEF Finish, Output, SetBuild, CallDated, CurrentUnlessRaced, Calls
    <2> QED BY <1>t, <2>1, <2>2, <2>3
  <1>9. ASSUME NEW b \in Builders, ChmodFails(b) PROVE Dated'
    <2>1. FileDated'
      <3>1. /\ now' = now /\ src' = src /\ cache'.time = now
            /\ cache'.ver # src.ver => cache'.raced
        BY <1>9 DEF ChmodFails, Output
      <3> QED BY <3>1 DEF FileDated
    <2>2. CallDated'
      BY <1>9 DEF ChmodFails, Output, SetBuild, FileDated, CallDated, Calls
    <2>3. CurrentUnlessRaced'
      BY <1>9 DEF ChmodFails, SetBuild, CurrentUnlessRaced, Calls
    <2> QED BY <1>t, <2>1, <2>2, <2>3
  <1>10. CASE UNCHANGED buildVars
    BY <1>10, <1>t DEF buildVars, FileDated, CallDated, CurrentUnlessRaced
  <1> QED BY <1>1, <1>2, <1>3, <1>4, <1>5, <1>6, <1>7, <1>8, <1>9, <1>10 DEF BuildNext

\* A call returns a whole binary of the sources it found, or of newer ones, save
\* for the two races of CurrentUnlessRaced: for any number of processes that share
\* the cached file, and of edits.
THEOREM CurrentUnlessRacedThm == HelperSpec => []CurrentUnlessRaced
  <1>1. BuildInit => Dated
    BY BuildAssumption
    DEF BuildInit, Dated, BuildTypeOK, FileDated, CallDated, CurrentUnlessRaced, NoFile,
        Files, Calls
  <1>2. Dated => CurrentUnlessRaced
    BY DEF Dated
  <1> QED
    BY <1>1, <1>2, DatedStep, PartsKeepTheirSteps, PTL DEF BinariesAlone

-----------------------------------------------------------------------------
(* The relay's daemon.                                                      *)

\* A call past its inspection knows of a live socket, and one that polls with
\* neither an old socket nor a daemon of its time has no socket to find, and has
\* found none.
Aware(k, sock) ==
    /\ k.pc \in {"create", "start", "poll", "copy", "wait"} /\ sock = "live" => k.served
    /\ k.pc \in {"poll", "copy", "wait"} /\ ~k.stale /\ ~k.served => sock = "none"
    /\ k.pc = "copy" /\ k.hit /\ ~k.stale => k.served
    /\ k.pc = "nil" /\ ~k.stale /\ ~k.broken => k.served

Served ==
    /\ socket \in {"none", "stale", "live"}
    /\ ensure \in [SSHCallers -> Ensures]
    /\ \A c \in SSHCallers : Aware(ensure[c], socket)

LEMMA ServedStep == Served /\ [SSHNext]_sshVars => Served'
  <1> SUFFICES ASSUME Served, [SSHNext]_sshVars PROVE Served'
    OBVIOUS
  <1>1. ASSUME NEW c \in SSHCallers, NEW k \in Ensures, SetEnsure(c, k), Aware(k, socket),
               socket' = socket
        PROVE  Served'
    BY <1>1 DEF Served, SetEnsure
  <1>2. ASSUME NEW c \in SSHCallers, EnsureStep(c) \/ StreamEnds(c) \/ Deadline(c) \/ CancelEnsure(c)
        PROVE  Served'
    <2> PICK k \in Ensures : k = ensure[c] /\ Aware(k, socket)
      BY DEF Served
    <2>s. socket' = socket
      BY <1>2
      DEF EnsureStep, InspectSandbox, ExecCreate, ExecStart, RequestFails, PollOnce, PollFails,
          StreamEnds, PollEnds, PollBroken, WaitAgain, Deadline, CancelEnsure, sandbox
    <2>t. socket \in {"none", "stale", "live"}
      BY DEF Served
    <2>0. ASSUME NEW pc, To(c, pc),
                 \/ pc = "err"
                 \/ pc = "start" /\ k.pc = "create"
                 \/ pc \in {"poll", "wait"} /\ k.pc \in {"poll", "copy", "wait"}
                 \/ pc = "nil" /\ k.pc = "copy" /\ k.hit
          PROVE  Served'
      <3>1. [k EXCEPT !.pc = pc] \in Ensures /\ Aware([k EXCEPT !.pc = pc], socket)
        BY <2>0 DEF Ensures, Aware
      <3> QED BY <1>1, <2>s, <2>0, <3>1 DEF To
    <2>1. CASE InspectSandbox(c)
      <3>1. PICK pc \in {"disabled", "err", "create"} :
               SetEnsure(c, [k EXCEPT !.pc = pc, !.served = socket = "live"])
        BY <2>1 DEF InspectSandbox
      <3>2. /\ [k EXCEPT !.pc = pc, !.served = socket = "live"] \in Ensures
            /\ Aware([k EXCEPT !.pc = pc, !.served = socket = "live"], socket)
        BY DEF Ensures, Aware
      <3> QED BY <1>1, <2>s, <3>1, <3>2
    <2>2. CASE ExecCreate(c)
      BY <2>0, <2>2 DEF ExecCreate
    <2>4. CASE RequestFails(c)
      BY <2>0, <2>4 DEF RequestFails
    <2>3. CASE ExecStart(c)
      <3>1. k.pc = "start" /\ SetEnsure(c, [k EXCEPT !.pc = "poll", !.stale = socket = "stale"])
        BY <2>3 DEF ExecStart
      <3>2. [k EXCEPT !.pc = "poll", !.stale = socket = "stale"] \in Ensures
        BY DEF Ensures
      <3>3. Aware([k EXCEPT !.pc = "poll", !.stale = socket = "stale"], socket)
        BY <2>t, <3>1 DEF Ensures, Aware
      <3> QED BY <1>1, <2>s, <3>1, <3>2, <3>3
    <2>5. CASE PollFails(c) \/ PollEnds(c)
      BY <2>0, <2>5 DEF PollFails, PollEnds
    <2>9. CASE PollOnce(c)
      <3>1. k.pc = "poll" /\ SetEnsure(c, [k EXCEPT !.pc = "copy", !.hit = socket # "none"])
        BY <2>9 DEF PollOnce
      <3>2. [k EXCEPT !.pc = "copy", !.hit = socket # "none"] \in Ensures
        BY DEF Ensures
      <3>3. Aware([k EXCEPT !.pc = "copy", !.hit = socket # "none"], socket)
        BY <3>1 DEF Ensures, Aware
      <3> QED BY <1>1, <2>s, <3>1, <3>2, <3>3
    <2>6. CASE PollBroken(c)
      <3>1. k.pc = "copy" /\ SetEnsure(c, [k EXCEPT !.pc = "nil", !.broken = TRUE])
        BY <2>6 DEF PollBroken
      <3>2. /\ [k EXCEPT !.pc = "nil", !.broken = TRUE] \in Ensures
            /\ Aware([k EXCEPT !.pc = "nil", !.broken = TRUE], socket)
        BY <3>1 DEF Ensures, Aware
      <3> QED BY <1>1, <2>s, <3>1, <3>2
    <2>7. CASE WaitAgain(c) \/ Deadline(c)
      BY <2>0, <2>7 DEF WaitAgain, Deadline
    <2>8. CASE CancelEnsure(c)
      <3>1. /\ [k EXCEPT !.cancelled = TRUE] \in Ensures
            /\ Aware([k EXCEPT !.cancelled = TRUE], socket)
        BY DEF Ensures, Aware
      <3> QED BY <1>1, <2>s, <2>8, <3>1 DEF CancelEnsure
    <2> QED BY <1>2, <2>1, <2>2, <2>3, <2>4, <2>5, <2>6, <2>7, <2>8, <2>9 DEF EnsureStep, StreamEnds
  <1>3. ASSUME NEW c \in SSHCallers, DaemonComes(c) PROVE Served'
    <2>1. CASE UNCHANGED <<socket, ensure>>
      BY <2>1 DEF Served
    <2>2. CASE /\ socket' = "live"
               /\ ensure' = [d \in SSHCallers |-> [ensure[d] EXCEPT !.served = TRUE]]
      <3>1. ASSUME NEW d \in SSHCallers
            PROVE  /\ [ensure[d] EXCEPT !.served = TRUE] \in Ensures
                   /\ Aware([ensure[d] EXCEPT !.served = TRUE], "live")
        BY DEF Served, Ensures, Aware
      <3> QED BY <2>2, <3>1 DEF Served
    <2> QED BY <1>3, <2>1, <2>2 DEF DaemonComes
  <1>4. CASE DaemonGoes \/ StopSandbox \/ StartSandbox
    BY <1>4 DEF DaemonGoes, StopSandbox, StartSandbox, Served, Aware
  <1>5. CASE UNCHANGED sshVars
    BY <1>5 DEF sshVars, Served
  <1> QED BY <1>2, <1>3, <1>4, <1>5 DEF SSHNext

\* EnsureSSHDaemon returns nil only when a daemon served the socket during the
\* call, save for a socket that was there before and a poll that broke off:
\* however many calls there are and however often the sandbox is stopped.
THEOREM NilMeansServedThm == HelperSpec => []NilMeansServed
  <1>1. SSHInit => Served
    BY DEF SSHInit, Served, Aware, Ensures
  <1>2. Served => NilMeansServed
    BY DEF Served, Aware, NilMeansServed
  <1> QED
    BY <1>1, <1>2, ServedStep, PartsKeepTheirSteps, PTL DEF DaemonsAlone

-----------------------------------------------------------------------------
(* Images and probes.                                                       *)

ImageTypeOK == tag \in Digests \cup {NoImage} /\ call \in [Callers -> Call]

\* The image a container is made from was inspected together with its user.
Pins(k) ==
    /\ k.pc = "create" => k.pinned # NoImage /\ k.user = k.pinned
    /\ k.pc = "ok" => k.runs # NoImage /\ k.runs = k.user

Pinned == ImageTypeOK /\ \A c \in Callers : Pins(call[c])

LEMMA PinnedStep == Pinned /\ [ProbeNext]_probeVars => Pinned'
  <1> SUFFICES ASSUME Pinned, [ProbeNext]_probeVars PROVE Pinned'
    OBVIOUS
  <1>1. ASSUME NEW c \in Callers, NEW k \in Call, Set(c, k), Pins(k),
               tag' \in Digests \cup {NoImage}
        PROVE  Pinned'
    BY <1>1 DEF Pinned, ImageTypeOK, Set
  <1>2. CASE Move
    BY <1>2 DEF Move, Pinned, ImageTypeOK
  <1>3. ASSUME NEW c \in Callers,
               \/ Ensure(c) \/ Pull(c) \/ PullAs(c) \/ TagAs(c) \/ Inspect(c)
               \/ Create(c) \/ Fail(c)
        PROVE  Pinned'
    <2> PICK k \in Call : k = call[c] /\ Pins(k)
      BY DEF Pinned, ImageTypeOK
    <2>t. tag \in Digests \cup {NoImage}
      BY DEF Pinned, ImageTypeOK
    <2>0. ASSUME NEW pc \in {"pull", "pullAs", "inspect", "err"}
          PROVE  [k EXCEPT !.pc = pc] \in Call /\ Pins([k EXCEPT !.pc = pc])
      BY DEF Call, Pins
    <2>1. CASE Ensure(c)
      <3>1. PICK pc \in {"pull", "inspect", "err", "pullAs"} : Set(c, [k EXCEPT !.pc = pc])
        BY <2>1 DEF Ensure
      <3> QED BY <1>1, <2>t, <2>0, <2>1, <3>1 DEF Ensure
    <2>2. CASE Pull(c)
      BY <1>1, <2>t, <2>0, <2>2 DEF Pull
    <2>3. CASE PullAs(c)
      <3>1. PICK d \in Digests \cup {NoImage} : Set(c, [k EXCEPT !.pc = "tagAs", !.source = d])
        BY <2>3 DEF PullAs
      <3>2. /\ [k EXCEPT !.pc = "tagAs", !.source = d] \in Call
            /\ Pins([k EXCEPT !.pc = "tagAs", !.source = d])
        BY DEF Call, Pins
      <3> QED BY <1>1, <2>t, <2>3, <3>1, <3>2 DEF PullAs
    <2>4. CASE TagAs(c)
      <3>1. k.source \in Digests \cup {NoImage}
        BY DEF Call
      <3> QED BY <1>1, <2>t, <2>0, <2>4, <3>1 DEF TagAs
    <2>5. CASE Inspect(c)
      <3>1. tag # NoImage =>
               /\ [k EXCEPT !.pc = "create", !.pinned = tag, !.user = tag] \in Call
               /\ Pins([k EXCEPT !.pc = "create", !.pinned = tag, !.user = tag])
        BY <2>t DEF Call, Pins
      <3> QED BY <1>1, <2>t, <2>0, <2>5, <3>1 DEF Inspect
    <2>6. CASE Create(c)
      <3>1. k.pc = "create" =>
               /\ [k EXCEPT !.pc = "ok", !.runs = k.pinned] \in Call
               /\ Pins([k EXCEPT !.pc = "ok", !.runs = k.pinned])
        BY DEF Call, Pins
      <3> QED BY <1>1, <2>t, <2>6, <3>1 DEF Create
    <2>7. CASE Fail(c)
      BY <1>1, <2>t, <2>0, <2>7 DEF Fail
    <2> QED BY <1>3, <2>1, <2>2, <2>3, <2>4, <2>5, <2>6, <2>7
  <1>4. CASE UNCHANGED vars
    BY <1>4 DEF vars, Pinned, ImageTypeOK
  <1>5. ASSUME NEW p \in Probers, Prober(p) \/ WaitError(p) \/ HelperExits(p) \/ CancelProbe(p)
        PROVE  UNCHANGED vars
    BY <1>5
    DEF Prober, CreateHelper, CreateHelperFails, StartHelper, WaitResult, WaitDone, ReadOutput,
        RemoveHelper, WaitError, HelperExits, CancelProbe, SetRun
  <1> QED
    BY <1>2, <1>3, <1>4, <1>5 DEF ProbeNext, EnsureImage, probeVars

\* A container runs the image whose user it was told, whatever happens to the tag
\* and however many calls there are.
THEOREM IdentityOfTheImageThm == HelperSpec => []IdentityOfTheImage
  <1>1. ProbeInit => Pinned
    BY DEF ProbeInit, Init, Pinned, ImageTypeOK, Pins
  <1>2. Pinned => IdentityOfTheImage
    BY DEF Pinned, Pins, IdentityOfTheImage
  <1> QED
    BY <1>1, <1>2, PinnedStep, PartsKeepTheirSteps, PTL DEF ImagesAlone

\* A helper is on the engine only between its creation and its removal.
Tidy(r) ==
    /\ r \in Run
    /\ r.pc = "off" => r.helper = "none"
    /\ r.pc = "done" /\ ~r.cancelled /\ ~r.lost => r.helper = "none"

Removed == probe \in [Probers -> Run] /\ \A p \in Probers : Tidy(probe[p])

LEMMA RemovedStep == Removed /\ [ProbeNext]_probeVars => Removed'
  <1> SUFFICES ASSUME Removed, [ProbeNext]_probeVars PROVE Removed'
    OBVIOUS
  <1>1. ASSUME NEW p \in Probers, NEW r, SetRun(p, r), Tidy(r) PROVE Removed'
    BY <1>1 DEF Removed, SetRun, Tidy
  <1>2. ASSUME NEW p \in Probers, Prober(p) \/ WaitError(p) \/ HelperExits(p) \/ CancelProbe(p)
        PROVE  Removed'
    <2> PICK r \in Run : r = probe[p] /\ Tidy(r)
      BY DEF Removed
    <2> USE DEF Tidy, Run
    <2>1. CASE CreateHelper(p)
      <3>1. Tidy([r EXCEPT !.pc = "start", !.helper = "created", !.known = TRUE])
        OBVIOUS
      <3> QED BY <1>1, <2>1, <3>1 DEF CreateHelper
    <2>2. CASE CreateHelperFails(p)
      <3>1. CASE SetRun(p, [r EXCEPT !.pc = "done", !.result = "err"]) /\ r.pc = "off"
        <4>1. Tidy([r EXCEPT !.pc = "done", !.result = "err"])
          BY <3>1
        <4> QED BY <1>1, <3>1, <4>1
      <3>2. CASE SetRun(p, [r EXCEPT !.pc = "done", !.result = "err", !.helper = "created",
                                     !.lost = TRUE])
        <4>1. Tidy([r EXCEPT !.pc = "done", !.result = "err", !.helper = "created", !.lost = TRUE])
          OBVIOUS
        <4> QED BY <1>1, <3>2, <4>1
      <3> QED BY <2>2, <3>1, <3>2 DEF CreateHelperFails
    <2>3. CASE StartHelper(p)
      <3>1. /\ Tidy([r EXCEPT !.pc = "wait", !.helper = "running"])
            /\ Tidy([r EXCEPT !.pc = "remove", !.result = "err"])
            /\ Tidy([r EXCEPT !.pc = "remove", !.result = "err", !.helper = "running"])
        OBVIOUS
      <3>2. \/ SetRun(p, [r EXCEPT !.pc = "wait", !.helper = "running"])
            \/ SetRun(p, [r EXCEPT !.pc = "remove", !.result = "err"])
            \/ SetRun(p, [r EXCEPT !.pc = "remove", !.result = "err", !.helper = "running"])
        BY <2>3 DEF StartHelper
      <3> HIDE DEF Tidy
      <3> QED BY <1>1, <3>1, <3>2
    <2>4. CASE WaitResult(p)
      <3>1. Tidy([r EXCEPT !.pc = "logs"])
        OBVIOUS
      <3> QED BY <1>1, <2>4, <3>1 DEF WaitResult
    <2>5. CASE WaitDone(p) \/ WaitError(p) \/ ReadOutput(p)
      <3>1. /\ Tidy([r EXCEPT !.pc = "remove", !.result = "err"])
            /\ Tidy([r EXCEPT !.pc = "remove", !.result = "text"])
        OBVIOUS
      <3>2. \/ SetRun(p, [r EXCEPT !.pc = "remove", !.result = "err"])
            \/ SetRun(p, [r EXCEPT !.pc = "remove", !.result = "text"])
        BY <2>5 DEF WaitDone, WaitError, ReadOutput
      <3> HIDE DEF Tidy
      <3> QED BY <1>1, <3>1, <3>2
    <2>6. CASE RemoveHelper(p)
      <3>1. /\ Tidy([r EXCEPT !.pc = "done", !.helper = "none"])
            /\ Tidy([r EXCEPT !.pc = "done", !.lost = TRUE])
        OBVIOUS
      <3>2. \/ SetRun(p, [r EXCEPT !.pc = "done", !.helper = "none"])
            \/ SetRun(p, [r EXCEPT !.pc = "done", !.lost = TRUE])
        BY <2>6 DEF RemoveHelper
      <3> HIDE DEF Tidy
      <3> QED BY <1>1, <3>1, <3>2
    <2>7. CASE HelperExits(p)
      <3>1. r.helper = "running" /\ SetRun(p, [r EXCEPT !.helper = "exited"])
        BY <2>7 DEF HelperExits
      <3>2. Tidy([r EXCEPT !.helper = "exited"])
        BY <3>1
      <3> QED BY <1>1, <3>1, <3>2
    <2>8. CASE CancelProbe(p)
      <3>1. Tidy([r EXCEPT !.cancelled = TRUE])
        OBVIOUS
      <3> QED BY <1>1, <2>8, <3>1 DEF CancelProbe
    <2> QED BY <1>2, <2>1, <2>2, <2>3, <2>4, <2>5, <2>6, <2>7, <2>8 DEF Prober
  <1>3. CASE UNCHANGED probe
    BY <1>3 DEF Removed
  <1> QED
    BY <1>2, <1>3 DEF ProbeNext, EnsureImage, probeVars

\* RunProbe's deferred removal: a probe that returned has left a helper behind only
\* when its context was cancelled or the engine's answer was lost or a refusal.
THEOREM HelperRemovedThm == HelperSpec => []HelperRemoved
  <1>1. ProbeInit => Removed
    BY DEF ProbeInit, Removed, Tidy, Run
  <1>2. Removed => HelperRemoved
    BY DEF Removed, Tidy, HelperRemoved
  <1> QED
    BY <1>1, <1>2, RemovedStep, PartsKeepTheirSteps, PTL DEF ImagesAlone
=============================================================================
