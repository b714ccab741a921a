----------------------------- MODULE NativeSpec -----------------------------
(***************************************************************************)
(* The sandbox container in Podman's own terms: buildNativeSpec and its     *)
(* helpers in internal/podman/libpod_create.go.  Environment, labels,       *)
(* ports and networks are carried over as they are and left out.            *)
(***************************************************************************)
EXTENDS DriverConfig, SequencesExt

\* Mutant: the sum is computed in the width of the ids.
IDMapWraps(list) ==
    \A i \in DOMAIN list :
        /\ list[i].size > 0
        /\ (list[i].cid + list[i].size) % 2 ^ IDBits <= 2 ^ IDBits
        /\ (list[i].hid + list[i].size) % 2 ^ IDBits <= 2 ^ IDBits

\* Both ranges end within the ids; the sums have twice the width.
validateIDMap(list) ==
    \A i \in DOMAIN list :
        /\ list[i].size > 0
        /\ list[i].cid + list[i].size <= 2 ^ IDBits
        /\ list[i].hid + list[i].size <= 2 ^ IDBits

\* The mode as the driver holds it.
NativeMode(m) ==
    /\ m.mode \in {"private", "auto", "host", "keep-id", "no-map"}
    /\ m.mode \in {"host", "no-map"} => m.params = "none"

NativeMaps(m, uid, gid) ==
    IF m.mode = "private" THEN uid # <<>> /\ gid # <<>> /\ Len(uid) = Len(gid)
    ELSE uid = <<>> /\ gid = <<>>

\* A bind whose source has a colon has too many parts; a subpath of a volume
\* cannot be asked for.
Translatable(m) == m.extra \notin {"colon", "subpath"}

\* Mutant: a tmpfs is writable.
NativeOptionsTmpfsRW(m) ==
    CASE m.kind = "bind" -> <<IF m.ro THEN "ro" ELSE "rw", "rbind">>
      [] m.kind = "volume" -> <<IF m.ro THEN "ro" ELSE "rw">>
      [] OTHER -> IF m.extra = "rw" THEN <<"rw">> ELSE <<>>

\* translateNativeVolume, translateNativeMount, and the split of a bind.  A
\* tmpfs has the caller's options besides.
NativeOptions(m) ==
    CASE m.kind = "bind" -> <<IF m.ro THEN "ro" ELSE "rw", "rbind">>
      [] m.kind = "volume" -> <<IF m.ro THEN "ro" ELSE "rw">>
      [] OTHER -> (IF m.ro THEN <<"ro">> ELSE <<>>) \o (IF m.extra = "rw" THEN <<"rw">> ELSE <<>>)

NativeMount(m) == [target |-> m.target, kind |-> m.kind, options |-> NativeOptions(m)]

\* Why the container cannot be asked for: the first check that fails.
Refusal(options, m, uid, gid) ==
    CASE m.mode = "" -> "no mode"
      [] ~NativeMode(m) -> "mode"
      [] ~NativeMaps(m, uid, gid) -> "maps"
      [] ~validateIDMap(uid) \/ ~validateIDMap(gid) -> "range"
      [] \E i \in DOMAIN options.mounts : ~Translatable(options.mounts[i]) -> "mount"
      [] OTHER -> "none"

\* What stays the same of the container; its user namespace is added.  Only
\* with the modes auto and private is there a table to put the maps in.
buildNativeSpec(options, m, uid, gid) ==
    [options EXCEPT !.native = TRUE, !.mode = m.mode, !.uid = uid, !.gid = gid,
                    !.table = m.mode \in {"auto", "private"},
                    !.mounts = [i \in DOMAIN options.mounts |-> NativeMount(options.mounts[i])]]
=============================================================================
