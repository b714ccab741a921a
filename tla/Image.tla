------------------------------- MODULE Image -------------------------------
(***************************************************************************)
(* How Create comes by the sandbox image (internal/docker/docker.go):       *)
(* ensureImage under the pull policy, the inspection that pins the image,   *)
(* and the container made from it.  The tag belongs to the engine: other    *)
(* calls and other users move it between any two of these requests.         *)
(***************************************************************************)
EXTENDS Naturals, FiniteSets

CONSTANTS
    Callers,     \* concurrent Creates
    Policies,    \* image_pull_policy values in use
    Kinds,       \* "local": a cauteum-sandbox: name without a published
                 \* image, "published": one with, "other": any other reference
    EnvNever,    \* the environment forbids pulling published images
    Digests,     \* image contents
    MaxMoves     \* bound: how often others move the tag

ASSUME ImageAssumption ==
    /\ Policies \subseteq {"always", "newer", "missing", "never"}
    /\ Kinds \subseteq {"local", "published", "other"}
    /\ EnvNever \subseteq BOOLEAN
    /\ MaxMoves \in Nat

NoImage == "absent"

ASSUME DigestAssumption == NoImage \notin Digests

VARIABLES
    tag,         \* what the reference names on the engine
    call,        \* the Create of each caller
    moves

vars == <<tag, call, moves>>

\* pinned   imageInfo.ID, the image whose Config.User was read
\* user     the image OPENSHELL_OCI_IMAGE_USER was taken from
\* runs     the image of the container
Call ==
    [pc : {"ensure", "pull", "pullAs", "tagAs", "inspect", "create", "ok", "err"},
     policy : Policies, kind : Kinds, never : EnvNever, source : Digests \cup {NoImage},
     pinned : Digests \cup {NoImage}, user : Digests \cup {NoImage},
     runs : Digests \cup {NoImage}]

Init ==
    /\ tag \in Digests \cup {NoImage}
    /\ call \in [Callers -> {k \in Call :
          /\ k.pc = "ensure"
          /\ k.source = NoImage /\ k.pinned = NoImage /\ k.user = NoImage /\ k.runs = NoImage}]
    /\ moves = 0

Set(c, k) == call' = [call EXCEPT ![c] = k]

\* ensureImage: the policy, the local image, and what the reference names.  An
\* inspection that fails counts as an image that is not there.
Ensure(c) ==
    LET k == call[c] IN
    /\ k.pc = "ensure"
    /\ \E found \in {tag # NoImage, FALSE} : Set(c, [k EXCEPT !.pc =
          CASE k.policy \in {"always", "newer"} -> "pull"
            [] found /\ k.policy \in {"missing", "never"} -> "inspect"
            [] ~found /\ k.policy = "never" -> "err"
            [] OTHER -> CASE k.kind = "other" -> "pull"
                          [] k.kind = "published" /\ ~k.never -> "pullAs"
                          [] OTHER -> "err"])
    /\ UNCHANGED <<tag, moves>>

\* pullImage: the stream is read to its end but not looked at, so a pull that
\* fails within the stream returns nil and leaves the tag alone.
Pull(c) ==
    /\ call[c].pc = "pull"
    /\ \/ tag' \in Digests
       \/ UNCHANGED tag
    /\ Set(c, [call[c] EXCEPT !.pc = "inspect"])
    /\ UNCHANGED moves

\* pullAs: the published image under its own name (the stream ignored) ...
PullAs(c) ==
    /\ call[c].pc = "pullAs"
    /\ \E d \in Digests \cup {NoImage} :
          Set(c, [call[c] EXCEPT !.pc = "tagAs", !.source = d])
    /\ UNCHANGED <<tag, moves>>

\* ... then tagged with the local name, which fails when it is not there.
TagAs(c) ==
    LET k == call[c] IN
    /\ k.pc = "tagAs"
    /\ IF k.source = NoImage THEN Set(c, [k EXCEPT !.pc = "err"]) /\ UNCHANGED tag
       ELSE Set(c, [k EXCEPT !.pc = "inspect"]) /\ tag' = k.source
    /\ UNCHANGED moves

\* One ImageInspect gives the id and the user.
Inspect(c) ==
    LET k == call[c] IN
    /\ k.pc = "inspect"
    /\ Set(c, IF tag = NoImage THEN [k EXCEPT !.pc = "err"]
              ELSE [k EXCEPT !.pc = "create", !.pinned = tag, !.user = tag])
    /\ UNCHANGED <<tag, moves>>

\* Mutant: the container is created from the reference.
CreateByTag(c) ==
    LET k == call[c] IN
    /\ k.pc = "create" /\ tag # NoImage
    /\ Set(c, [k EXCEPT !.pc = "ok", !.runs = tag])
    /\ UNCHANGED <<tag, moves>>

\* The container is created from imageInfo.ID.
Create(c) ==
    LET k == call[c] IN
    /\ k.pc = "create"
    /\ Set(c, [k EXCEPT !.pc = "ok", !.runs = k.pinned])
    /\ UNCHANGED <<tag, moves>>

\* A request fails (an image that was removed in between included).
Fail(c) ==
    /\ call[c].pc \in {"pull", "pullAs", "tagAs", "inspect", "create"}
    /\ Set(c, [call[c] EXCEPT !.pc = "err"])
    /\ UNCHANGED <<tag, moves>>

\* Others retag or remove.
Move ==
    /\ moves < MaxMoves
    /\ tag' \in Digests \cup {NoImage}
    /\ moves' = moves + 1
    /\ UNCHANGED call

Next ==
    \/ Move
    \/ \E c \in Callers :
          Ensure(c) \/ Pull(c) \/ PullAs(c) \/ TagAs(c) \/ Inspect(c) \/ Create(c) \/ Fail(c)

Spec == Init /\ [][Next]_vars

-----------------------------------------------------------------------------
(* Properties.                                                              *)

\* "Driver identity metadata is trusted only when derived from the exact
\* inspected image": whatever happens to the tag, a container runs the image
\* whose user it was told.
IdentityOfTheImage ==
    \A c \in Callers : call[c].pc = "ok" => call[c].runs # NoImage /\ call[c].runs = call[c].user
=============================================================================
