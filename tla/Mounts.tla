------------------------------- MODULE Mounts -------------------------------
(***************************************************************************)
(* Which paths a caller may use: the mounts of a sandbox's driver_config    *)
(* (internal/docker/driver_config.go) and the destinations of uploads       *)
(* against the reserved guest paths (internal/mounts/reserved.go), and the  *)
(* host directory that is the workspace (internal/mounts/mounts.go).  A     *)
(* path is the sequence of its components.                                  *)
(***************************************************************************)
EXTENDS Naturals, Sequences, SequencesExt, FiniteSets

CONSTANTS
    Components,   \* names of files and directories
    Reserved,     \* controlRoots and ociRuntimeMountRoots
    Protected,    \* the paths parseDockerMount protects besides
    Workspace,    \* WorkdirInContainer
    HostNames,    \* names on the host
    Home,         \* the caller's home directory
    Denied,       \* denyBasenames
    MaxFollowed,  \* symbolic links that are followed on the way to a path (255)
    MaxParts,     \* bound: components of a path
    MaxMounts     \* bound: mounts of a configuration

\* Paths as they are, and as callers may spell them.
Paths == UNION {[1 .. n -> Components] : n \in 1 .. MaxParts}
RawParts == UNION {[1 .. n -> Components \cup {"", ".", ".."}] : n \in 1 .. MaxParts}
RawPaths == [abs : BOOLEAN, parts : RawParts]
HostPaths == UNION {[1 .. n -> HostNames] : n \in 1 .. MaxParts}

ASSUME MountsAssumption ==
    /\ Components \cap {"", ".", ".."} = {} /\ Denied \subseteq HostNames
    /\ MaxParts \in Nat \ {0} /\ MaxMounts \in Nat /\ MaxFollowed \in Nat
    /\ Reserved \subseteq Paths /\ Protected \subseteq Paths /\ Workspace \in Paths /\ Home \in HostPaths

\* /workspace and the reserved roots are apart.
ASSUME WorkspaceAssumption ==
    \A r \in Reserved : ~IsPrefix(Workspace, r) /\ ~IsPrefix(r, Workspace)

\* What a mount says besides its target.  sound: the fields left out here are
\* right; extra: a colon in a bind's source, a volume's subpath, a tmpfs's own
\* option rw.
Extras == [bind |-> {"none", "colon"}, volume |-> {"none", "subpath"},
           tmpfs |-> {"none", "rw"}, image |-> {"none"}]
MountForms == UNION {[kind : {k}, ro : {"unset", "true", "false"}, extra : Extras[k], sound : BOOLEAN] :
                        k \in DOMAIN Extras}
PlainMount == [kind |-> "volume", ro |-> "unset", extra |-> "none", sound |-> TRUE]

VARIABLES
    bindsEnabled,  \* enable_bind_mounts
    mounts,        \* the mounts accepted so far, in order
    parse,         \* parsing, ok or err
    uploads,       \* upload destinations accepted
    workspaces     \* workspaces accepted

mountVars == <<bindsEnabled, mounts, parse, uploads, workspaces>>

-----------------------------------------------------------------------------
\* One slash at the end is cut off.
Trim(raw) == IF Last(raw.parts) = "" THEN Front(raw.parts) ELSE raw.parts

\* Absolute, not the root, without empty, "." or ".." components.
Normal(raw) == raw.abs /\ Trim(raw) # <<>> /\ Range(Trim(raw)) \subseteq Components

\* Mutant: a parent of a reserved path does not overlap it.
OverlapBelow(a, b) == IsPrefix(b, a)

pathsOverlap(a, b) == IsPrefix(a, b) \/ IsPrefix(b, a)

ValidateContainerMountTarget(raw) ==
    Normal(raw) /\ \A r \in Reserved : ~pathsOverlap(Trim(raw), r)

\* Mutant: the workspace anywhere in the destination.
UploadAnywhere(raw) ==
    /\ Normal(raw)
    /\ \/ \E i \in DOMAIN Trim(raw) : Trim(raw)[i] = Last(Workspace)
       \/ ValidateContainerMountTarget(raw)

ValidateUploadDest(raw) ==
    /\ Normal(raw)
    /\ IsPrefix(Workspace, Trim(raw)) \/ ValidateContainerMountTarget(raw)

\* Below the protected paths, but not above them.
IsProtected(p) == \E r \in Protected : IsPrefix(r, p)

Targets == {mounts[i].target : i \in DOMAIN mounts}

Seen(raw) == Trim(raw) \in Targets

\* strings.EqualFold, for the names that differ in their case only.
Fold(name) == IF name = ".SSH" THEN ".ssh" ELSE name

\* The home directory, a directory of a denied name in any case, and what is
\* below one in the home directory.
checkDeny(p) ==
    /\ p # Home /\ \A d \in Denied : Fold(Last(p)) # Fold(d)
    /\ \A d \in Denied : ~IsPrefix(Append(Home, d), p)

\* links: the symbolic links on the host, <<path, target>>.  The first one on the
\* way is followed first.
Crossed(p, links) == {l \in links : IsPrefix(l[1], p)}

Follow(p, links) ==
    LET l == CHOOSE m \in Crossed(p, links) : \A k \in Crossed(p, links) : Len(m[1]) <= Len(k[1])
    IN  l[2] \o SubSeq(p, Len(l[1]) + 1, Len(p))

\* Where links still lead on from here, filepath.EvalSymlinks fails.
EvalSymlinks(p, links) ==
    LET at[n \in 0 .. MaxFollowed] ==
            IF n = 0 THEN p
            ELSE IF Crossed(at[n - 1], links) = {} THEN at[n - 1] ELSE Follow(at[n - 1], links)
    IN  at[MaxFollowed]

\* The workspace of a Create, an existing directory; none if it is refused.
\* The home directory is taken as the environment spells it.
ResolveWorkspace(p, links, iKnow) ==
    LET canonical == EvalSymlinks(p, links) IN
    IF Crossed(canonical, links) = {} /\ (iKnow \/ checkDeny(canonical))
    THEN {[path |-> canonical, iKnow |-> iKnow]} ELSE {}

-----------------------------------------------------------------------------
MountsInit ==
    /\ bindsEnabled \in BOOLEAN
    /\ mounts = <<>> /\ parse = "parsing" /\ uploads = {} /\ workspaces = {}

\* The next mount of the configuration; without read_only it is read-only.
ParseMount(raw, m) ==
    /\ parse = "parsing" /\ Len(mounts) < MaxMounts
    /\ IF /\ ValidateContainerMountTarget(raw) /\ ~IsProtected(Trim(raw))
          /\ m.kind \in {"bind", "volume", "tmpfs"} /\ (m.kind = "bind" => bindsEnabled)
          /\ m.sound /\ ~Seen(raw)
       THEN /\ mounts' = Append(mounts, [target |-> Trim(raw), kind |-> m.kind,
                                         ro |-> m.ro # "false", extra |-> m.extra])
            /\ UNCHANGED parse
       ELSE parse' = "err" /\ UNCHANGED mounts
    /\ UNCHANGED <<bindsEnabled, uploads, workspaces>>

ParseEnds ==
    /\ parse = "parsing"
    /\ parse' = "ok"
    /\ UNCHANGED <<bindsEnabled, mounts, uploads, workspaces>>

\* An upload into a sandbox.
Upload(raw) ==
    /\ uploads = {}
    /\ ValidateUploadDest(raw)
    /\ uploads' = {Trim(raw)}
    /\ UNCHANGED <<bindsEnabled, mounts, parse, workspaces>>

-----------------------------------------------------------------------------
(* Properties.                                                              *)

\* What a mount at p hides, or an upload to p may write.
Tree(p) == {q \in Paths : IsPrefix(p, q)}

\* pathsOverlap is the overlap of the trees: a mount that is accepted hides no
\* part of a reserved path and lies in none, and an upload writes nothing of one:
\* the shortcut for the workspace in ValidateUploadDest opens no way around the
\* check.  No mount lies in a protected path.
ControlPathsIntact ==
    /\ \A p \in Targets \cup uploads : \A r \in Reserved : Tree(p) \cap Tree(r) = {}
    /\ \A p \in Targets : \A r \in Protected : p \notin Tree(r)
=============================================================================
