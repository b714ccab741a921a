---------------------------- MODULE RegistryAuth ----------------------------
(***************************************************************************)
(* The credentials of a pull: Podman's credential files                     *)
(* (internal/podman/registry_auth.go) and Docker's, which are also what     *)
(* Podman falls back on (internal/docker/registry_auth.go).  The files may  *)
(* be written by others between any two steps.                              *)
(***************************************************************************)
EXTENDS Integers, Sequences, FiniteSets

CONSTANTS
    AuthKeys,     \* registries as credential files spell them
    Contents,     \* bound: credential files, [AuthKeys -> {"no", "bad", "good"}]
    MaxLogins     \* bound: changes of a file

ASSUME RegistryAuthAssumption ==
    /\ Contents \subseteq [AuthKeys -> {"no", "bad", "good"}]
    /\ MaxLogins \in Nat

\* Where a file may be named, the first that is set or exists first.
Slots == <<"config", "env", "xdg", "home">>
NamedSlots == {"config", "env"}     \* by registry_auth_file, by REGISTRY_AUTH_FILE

\* unset: there is no path; unavailable: os.Stat fails otherwise than with not
\* found; broken: not absolute, not regular, too large or unreadable; garbled: no
\* JSON, as a file may be while somebody writes it.
FileStates == {"unset", "absent", "unavailable", "broken", "garbled"}
AFile(auths) == [state |-> "file", auths |-> auths]
Files == {AFile(a) : a \in Contents}
NoAuths == [k \in AuthKeys |-> "no"]
Other(state) == [state |-> state, auths |-> NoAuths]

VARIABLES
    files,        \* Podman's credential files, by slot
    dockerFile,   \* Docker's, or what its helper knows
    auth,         \* the call of registryAuth
    logins,       \* changes of files so far
    past          \* what files has been since the call began

authVars == <<files, dockerFile, auth, logins, past>>

\* by: whose resolver; from: whose credentials were taken.
Idle == [pc |-> "idle", by |-> "", registry |-> "", path |-> "", auths |-> NoAuths,
         from |-> "", key |-> ""]

-----------------------------------------------------------------------------
normalizeAuthRegistry(key) == IF key = "https://index.docker.io/v1/" THEN "docker.io" ELSE key

dockerAuthKey(registry) == IF registry = "docker.io" THEN "https://index.docker.io/v1/" ELSE registry

\* The entries of a file for the registry of the image, and of the one read.
EntriesFor(auths) == {k \in AuthKeys : auths[k] # "no" /\ normalizeAuthRegistry(k) = auth.registry}
Matching == EntriesFor(auth.auths)

Answer(from, key) == auth' = [auth EXCEPT !.pc = "done", !.from = from, !.key = key]
AuthErr == auth' = [auth EXCEPT !.pc = "err"]
FileTaken(slot) == auth' = [auth EXCEPT !.pc = "validate", !.path = slot]

\* registryAuth of a driver: Podman's resolver, or Docker's alone.
AuthCall(registry, podman) ==
    /\ auth.pc = "idle"
    /\ auth' = IF podman THEN [auth EXCEPT !.pc = "find", !.by = "podman", !.registry = registry]
               ELSE [auth EXCEPT !.pc = "docker", !.by = "docker", !.registry = registry]
    /\ past' = {files}
    /\ UNCHANGED <<files, dockerFile, logins>>

\* A file that is named is taken, there or not.
findPodmanAuthFile ==
    /\ auth.pc = "find"
    /\ \/ files["config"].state # "unset" /\ FileTaken("config")
       \/ files["config"].state = "unset" /\ files["env"].state # "unset" /\ FileTaken("env")
       \/ /\ files["config"].state = "unset" /\ files["env"].state = "unset"
          /\ auth' = [auth EXCEPT !.pc = "xdg"]
    /\ UNCHANGED <<files, dockerFile, logins, past>>

\* os.Stat of one candidate after the other.
StatCandidate(slot, next) ==
    /\ auth.pc = slot
    /\ \/ files[slot].state \in {"unset", "absent"} /\ auth' = [auth EXCEPT !.pc = next]
       \/ files[slot].state = "unavailable" /\ AuthErr
       \/ files[slot].state \notin {"unset", "absent", "unavailable"} /\ FileTaken(slot)
    /\ UNCHANGED <<files, dockerFile, logins, past>>

\* validateRegistryAuthFile of the file that was taken.
ValidateAuthFile ==
    /\ auth.pc = "validate"
    /\ IF files[auth.path].state \in {"file", "garbled"}
       THEN auth' = [auth EXCEPT !.pc = "read"] ELSE AuthErr
    /\ UNCHANGED <<files, dockerFile, logins, past>>

\* Mutant: a file that cannot be read or decoded any more is passed over.
ReadOrElse ==
    /\ auth.pc = "read"
    /\ auth' = IF files[auth.path].state = "file"
               THEN [auth EXCEPT !.pc = "match", !.auths = files[auth.path].auths]
               ELSE [auth EXCEPT !.pc = "docker"]
    /\ UNCHANGED <<files, dockerFile, logins, past>>

\* The file is opened again, read and decoded.
ReadAuthFile ==
    /\ auth.pc = "read"
    /\ IF files[auth.path].state = "file"
       THEN auth' = [auth EXCEPT !.pc = "match", !.auths = files[auth.path].auths]
       ELSE AuthErr
    /\ UNCHANGED <<files, dockerFile, logins, past>>

\* The map of entries is walked in no particular order, to the first that
\* matches; one whose auth cannot be decoded is an error.
MatchEntry ==
    /\ auth.pc = "match"
    /\ IF Matching = {} THEN auth' = [auth EXCEPT !.pc = "docker"]
       ELSE \E k \in Matching :
               IF auth.auths[k] = "bad" THEN AuthErr ELSE Answer("podman", k)
    /\ UNCHANGED <<files, dockerFile, logins, past>>

\* No credentials at all are an empty answer, not an error.
dockerRegistryAuth ==
    /\ auth.pc = "docker"
    /\ IF dockerFile.state = "broken" THEN AuthErr
       ELSE LET key == dockerAuthKey(auth.registry) IN
            CASE key \notin AuthKeys -> Answer("", "")
              [] dockerFile.auths[key] = "no" -> Answer("", "")
              [] dockerFile.auths[key] = "bad" -> AuthErr
              [] OTHER -> Answer("docker", key)
    /\ UNCHANGED <<files, dockerFile, logins, past>>

\* podman login, logout or anybody else, at any time.
Login(slot) ==
    /\ logins < MaxLogins /\ files[slot].state # "unset"
    /\ \E f \in Files \cup {Other("absent"), Other("broken"), Other("garbled")} :
          f # files[slot] /\ files' = [files EXCEPT ![slot] = f]
    /\ logins' = logins + 1
    /\ past' = IF auth.pc = "idle" THEN past ELSE past \cup {files'}
    /\ UNCHANGED <<dockerFile, auth>>

-----------------------------------------------------------------------------
(* Properties.                                                              *)

\* The files that come before one; before "" come all.
Earlier(path) ==
    {Slots[i] : i \in {k \in DOMAIN Slots : \A j \in 1 .. k : Slots[j] # path}}

\* A file may be passed over: nothing names it and it does not exist.
MayPass(slot, fs) ==
    fs[slot].state = "unset" \/ (slot \notin NamedSlots /\ fs[slot].state = "absent")

\* Whoever writes the files during the call (podmanRegistryAuth): an answer comes
\* from the first file, each one before it having been away at some moment of the
\* call, and that file was at some moment an intact one that gives just this
\* answer: the credentials are a good entry of it for the image's registry, and
\* Docker's are used, or none, only if it had no entry for that registry.  A file
\* that is broken, garbled, gone after it was found or has a bad entry is an error
\* and never passed over.
NoSilentFallback ==
    auth.pc = "done" =>
        /\ auth.key # "" => normalizeAuthRegistry(auth.key) = auth.registry
        /\ auth.by = "podman" => \A s \in Earlier(auth.path) : \E fs \in past : MayPass(s, fs)
        /\ auth.path = "" => auth.from # "podman"
        /\ auth.path # "" => \E fs \in past :
              /\ fs[auth.path].state = "file"
              /\ IF auth.from = "podman" THEN fs[auth.path].auths[auth.key] = "good"
                 ELSE EntriesFor(fs[auth.path].auths) = {}
=============================================================================
