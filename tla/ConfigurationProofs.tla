------------------------- MODULE ConfigurationProofs -------------------------
(***************************************************************************)
(* What Create checks and asks for, for every configuration, Spec, host and *)
(* set of credential files of the types InputsAssumption states.            *)
(***************************************************************************)
EXTENDS Configuration, SequenceTheorems, FiniteSetTheorems, WellFoundedInduction, TLAPS

-----------------------------------------------------------------------------
(* The inputs stay as they are.                                             *)

InputsKept == in \in Inputs

LEMMA InputsKeptStep == [ConfNext]_confVars => in' = in
  BY DEF ConfNext, Opening, Creating, confVars, Given, OpenEngineWithConfig, ConfigFromMap,
         NewWithConfig, ValidateGPU, ParseDevices, ParseDone, NameChecked, WorkspaceChecked,
         ImagePresent, ParseNextMount, Pull, RequestContainer, PolicyHostPath, Replug, UploadTo,
         LoginElsewhere

\* No step of the driver changes what it was given.
THEOREM InputsInvariant == ConfSpec => []InputsKept
  <1>1. ConfInit => InputsKept
    BY DEF ConfInit, InputsKept
  <1>2. InputsKept /\ [ConfNext]_confVars => InputsKept'
    BY InputsKeptStep DEF InputsKept
  <1> QED BY <1>1, <1>2, PTL DEF ConfSpec

-----------------------------------------------------------------------------
(* Credentials.                                                             *)

AuthSlots == Range(Slots)

AuthTypeOK ==
    /\ logins \in Nat /\ files \in [AuthSlots -> AuthFiles] /\ dockerFile \in AuthFiles
    /\ past \subseteq [AuthSlots -> AuthFiles]
    /\ auth \in [pc : {"idle", "find", "xdg", "home", "validate", "read", "match", "docker", "done", "err"},
                 by : {"", "podman", "docker"},
                 registry : {"", in.registry}, path : AuthSlots \cup {""},
                 auths : [AuthKeys -> {"no", "bad", "good"}],
                 from : {"", "podman", "docker"}, key : AuthKeys \cup {""}]

\* Each of these files was away at some moment of the call.
PassedOver(slots) == \A s \in slots : \E fs \in past : MayPass(s, fs)

\* The file that was taken had these entries at some moment of the call.
HadEntries == \E fs \in past : fs[auth.path] = AFile(auth.auths)

\* What the call knows at each of its steps.
AuthKnown ==
    /\ auth.pc \notin {"idle", "err"} => auth.registry = in.registry
    /\ auth.pc # "idle" => files \in past
    /\ auth.pc \in {"idle", "find", "xdg", "home"} => auth.path = "" /\ auth.auths = NoAuths
    /\ auth.pc \in {"validate", "read", "match"} => auth.path # ""
    /\ auth.pc = "xdg" => PassedOver({"config", "env"})
    /\ auth.pc = "home" => PassedOver({"config", "env", "xdg"})
    /\ auth.pc \in {"validate", "read", "match", "docker"} /\ auth.by = "podman" =>
          PassedOver(Earlier(auth.path))
    /\ auth.pc \in {"match", "docker"} /\ auth.path # "" => HadEntries
    /\ auth.pc = "docker" => Matching = {}

AuthSound == AuthTypeOK /\ AuthKnown /\ NoSilentFallback

LEMMA SlotFacts ==
    /\ DOMAIN Slots = 1 .. 4
    /\ Slots[1] = "config" /\ Slots[2] = "env" /\ Slots[3] = "xdg" /\ Slots[4] = "home"
    /\ AuthSlots = {"config", "env", "xdg", "home"}
  BY DEF Slots, AuthSlots, Range

LEMMA FourSlots == \A i \in 1 .. 4 : i = 1 \/ i = 2 \/ i = 3 \/ i = 4
  OBVIOUS

LEMMA EarlierSlot ==
    ASSUME NEW path
    PROVE  /\ Earlier(path) \subseteq AuthSlots
           /\ "config" \in Earlier(path) => path # "config"
           /\ "env" \in Earlier(path) => path \notin {"config", "env"}
           /\ "xdg" \in Earlier(path) => path \notin {"config", "env", "xdg"}
           /\ "home" \in Earlier(path) => path \notin AuthSlots
  <1> DEFINE Ahead(k) == \A j \in 1 .. k : Slots[j] # path
  <1>1. Earlier(path) = {Slots[i] : i \in {k \in 1 .. 4 : Ahead(k)}}
    BY SlotFacts DEF Earlier
  <1>2. /\ Ahead(1) => path # "config"
        /\ Ahead(2) => path \notin {"config", "env"}
        /\ Ahead(3) => path \notin {"config", "env", "xdg"}
        /\ Ahead(4) => path \notin {"config", "env", "xdg", "home"}
    BY SlotFacts
  <1> HIDE DEF Ahead
  <1>3. ASSUME NEW s \in Earlier(path)
        PROVE  \/ s = "config" /\ Ahead(1)
               \/ s = "env" /\ Ahead(2)
               \/ s = "xdg" /\ Ahead(3)
               \/ s = "home" /\ Ahead(4)
    BY <1>1, FourSlots, SlotFacts
  <1> QED BY <1>2, <1>3, SlotFacts

\* The files before each one.
LEMMA EarlierFacts ==
    /\ Earlier("config") = {} /\ Earlier("env") \subseteq {"config"}
    /\ Earlier("xdg") \subseteq {"config", "env"} /\ Earlier("home") \subseteq {"config", "env", "xdg"}
    /\ Earlier("") \subseteq {"config", "env", "xdg", "home"}
  <1>1. Earlier("config") = {}
    BY EarlierSlot, SlotFacts
  <1>2. Earlier("env") \subseteq {"config"}
    BY EarlierSlot, SlotFacts
  <1>3. Earlier("xdg") \subseteq {"config", "env"}
    BY EarlierSlot, SlotFacts
  <1>4. Earlier("home") \subseteq {"config", "env", "xdg"}
    BY EarlierSlot, SlotFacts
  <1> QED BY <1>1, <1>2, <1>3, <1>4, EarlierSlot, SlotFacts

\* What was seen at some moment stays seen, and the present is such a moment.
LEMMA PassedMore ==
    ASSUME NEW S, NEW T, NEW s, PassedOver(S), files \in past, MayPass(s, files), T \subseteq S \cup {s}
    PROVE  PassedOver(T)
  BY DEF PassedOver

LEMMA PassedOnce ==
    ASSUME NEW s, files \in past, MayPass(s, files)
    PROVE  PassedOver({s})
  BY DEF PassedOver

LEMMA PassedFewer ==
    ASSUME NEW S, NEW T, PassedOver(S), T \subseteq S
    PROVE  PassedOver(T)
  BY DEF PassedOver

LEMMA PassedKept ==
    ASSUME past \subseteq past', auth'.path = auth.path
    PROVE  PassedOver(Earlier(auth.path)) => PassedOver(Earlier(auth.path))'
  BY DEF PassedOver

LEMMA PassedKeptConst ==
    ASSUME past \subseteq past', NEW CONSTANT S
    PROVE  PassedOver(S) => PassedOver(S)'
  BY DEF PassedOver

LEMMA EntriesOfFile == \A a : AFile(a).state = "file" /\ AFile(a).auths = a
  BY DEF AFile

LEMMA EntriesKept ==
    ASSUME past \subseteq past', auth'.path = auth.path, auth'.auths = auth.auths
    PROVE  HadEntries => HadEntries'
  BY DEF HadEntries, AFile

LEMMA MatchingKept ==
    ASSUME auth'.registry = auth.registry, auth'.auths = auth.auths
    PROVE  Matching' = Matching
  BY DEF Matching, EntriesFor

\* The steps of the call.
LEMMA AuthCallSound ==
    ASSUME AuthSound, in \in Inputs, in' = in, AuthCall(in.registry, Podman)
    PROVE  AuthSound'
  <1> USE DEF AuthSound, AuthTypeOK
  <1>1. /\ auth.pc = "idle" /\ auth'.registry = in.registry
        /\ auth'.pc = "find" \/ (auth'.pc = "docker" /\ auth'.by = "docker")
        /\ auth'.path = auth.path /\ auth'.auths = auth.auths
        /\ past' = {files} /\ UNCHANGED <<files, dockerFile, logins>>
    BY DEF AuthCall
  <1>2. AuthTypeOK'
    BY <1>1 DEF AuthCall
  <1>3. auth.path = "" /\ auth.auths = NoAuths
    BY <1>1 DEF AuthKnown
  <1>4. Matching' = {}
    BY <1>1, <1>3 DEF Matching, EntriesFor, NoAuths
  <1> QED BY <1>1, <1>2, <1>3, <1>4 DEF AuthKnown, NoSilentFallback

\* A step that fails.
LEMMA ErrSound ==
    ASSUME AuthSound, in \in Inputs, in' = in, AuthErr, auth.pc # "idle",
           UNCHANGED <<files, dockerFile, logins, past>>
    PROVE  AuthSound'
  <1> USE DEF AuthSound, AuthTypeOK
  <1>1. auth'.pc = "err"
    BY DEF AuthErr
  <1>2. AuthTypeOK'
    BY DEF AuthErr
  <1>3. AuthKnown'
    BY <1>1 DEF AuthKnown
  <1> QED BY <1>1, <1>2, <1>3 DEF NoSilentFallback

\* A step that takes a file when those before it have been passed over.
LEMMA TakenSound ==
    ASSUME AuthSound, in \in Inputs, in' = in, UNCHANGED <<files, dockerFile, logins, past>>,
           auth.pc \in {"find", "xdg", "home"},
           NEW slot \in AuthSlots, FileTaken(slot), PassedOver(Earlier(slot))
    PROVE  AuthSound'
  <1> USE DEF AuthSound, AuthTypeOK
  <1>1. /\ auth'.pc = "validate" /\ auth'.path = slot /\ auth'.registry = auth.registry
        /\ auth'.auths = auth.auths
    BY DEF FileTaken
  <1>2. AuthTypeOK'
    BY DEF FileTaken
  <1>3. slot # ""
    BY SlotFacts
  <1>4. PassedOver(Earlier(auth.path))'
    <2> HIDE DEF AuthSound, AuthTypeOK
    <2> QED BY <1>1 DEF PassedOver
  <1>5. AuthKnown'
    BY <1>1, <1>3, <1>4 DEF AuthKnown
  <1> QED BY <1>1, <1>2, <1>5 DEF NoSilentFallback

LEMMA FindSound ==
    ASSUME AuthSound, in \in Inputs, in' = in, findPodmanAuthFile
    PROVE  AuthSound'
  <1> USE DEF AuthSound, AuthTypeOK
  <1>1. /\ auth.pc = "find" /\ auth.path = "" /\ auth.auths = NoAuths /\ auth.registry = in.registry
        /\ files \in past /\ UNCHANGED <<files, dockerFile, logins, past>>
    BY DEF findPodmanAuthFile, AuthKnown
  <1>2. CASE FileTaken("config")
    <2>1. PassedOver(Earlier("config"))
      BY EarlierFacts DEF PassedOver
    <2> QED BY <1>1, <1>2, <2>1, SlotFacts, TakenSound
  <1>3. CASE files["config"].state = "unset" /\ FileTaken("env")
    <2>1. MayPass("config", files)
      BY <1>3 DEF MayPass
    <2>2. PassedOver(Earlier("env"))
      BY <1>1, <2>1, EarlierFacts, PassedOnce, PassedFewer
    <2> QED BY <1>1, <1>3, <2>2, SlotFacts, TakenSound
  <1>4. CASE /\ files["config"].state = "unset" /\ files["env"].state = "unset"
             /\ auth' = [auth EXCEPT !.pc = "xdg"]
    <2>1. auth'.pc = "xdg" /\ auth'.path = "" /\ auth'.auths = NoAuths /\ auth'.registry = in.registry
      BY <1>1, <1>4
    <2>2. MayPass("config", files) /\ MayPass("env", files)
      BY <1>4 DEF MayPass
    <2>3. PassedOver({"config", "env"})'
      <3>1. PassedOver({"config"})
        BY <1>1, <2>2, PassedOnce
      <3>2. PassedOver({"config", "env"})
        BY <1>1, <2>2, <3>1, PassedMore
      <3> QED BY <1>1, <3>2, PassedKeptConst
    <2>4. AuthTypeOK'
      BY <1>1, <1>4
    <2>5. AuthKnown'
      BY <1>1, <2>1, <2>3 DEF AuthKnown
    <2> QED BY <2>1, <2>4, <2>5 DEF NoSilentFallback
  <1> QED BY <1>2, <1>3, <1>4 DEF findPodmanAuthFile

\* The first candidate.
LEMMA StatXdgSound ==
    ASSUME AuthSound, in \in Inputs, in' = in, StatCandidate("xdg", "home")
    PROVE  AuthSound'
  <1> USE DEF AuthSound, AuthTypeOK
  <1>1. /\ auth.pc = "xdg" /\ auth.path = "" /\ auth.auths = NoAuths /\ auth.registry = in.registry
        /\ files \in past /\ UNCHANGED <<files, dockerFile, logins, past>>
        /\ PassedOver({"config", "env"})
    BY DEF StatCandidate, AuthKnown
  <1>2. CASE AuthErr
    BY <1>1, <1>2, ErrSound
  <1>3. CASE FileTaken("xdg")
    <2>1. PassedOver(Earlier("xdg"))
      BY <1>1, EarlierFacts, PassedFewer
    <2> QED BY <1>1, <1>3, <2>1, SlotFacts, TakenSound
  <1>4. CASE files["xdg"].state \in {"unset", "absent"} /\ auth' = [auth EXCEPT !.pc = "home"]
    <2>1. auth'.pc = "home" /\ auth'.path = "" /\ auth'.auths = NoAuths /\ auth'.registry = in.registry
      BY <1>1, <1>4
    <2>2. MayPass("xdg", files)
      BY <1>4 DEF MayPass, NamedSlots
    <2>3. PassedOver({"config", "env", "xdg"})'
      <3>1. PassedOver({"config", "env", "xdg"})
        BY <1>1, <2>2, PassedMore
      <3> QED BY <1>1, <3>1, PassedKeptConst
    <2>4. AuthTypeOK'
      BY <1>1, <1>4
    <2>5. AuthKnown'
      BY <1>1, <2>1, <2>3 DEF AuthKnown
    <2> QED BY <2>1, <2>4, <2>5 DEF NoSilentFallback
  <1> QED BY <1>2, <1>3, <1>4 DEF StatCandidate

\* The last one: without it the answer is Docker's.
LEMMA StatHomeSound ==
    ASSUME AuthSound, in \in Inputs, in' = in, StatCandidate("home", "docker")
    PROVE  AuthSound'
  <1> USE DEF AuthSound, AuthTypeOK
  <1>1. /\ auth.pc = "home" /\ auth.path = "" /\ auth.auths = NoAuths /\ auth.registry = in.registry
        /\ files \in past /\ UNCHANGED <<files, dockerFile, logins, past>>
        /\ PassedOver({"config", "env", "xdg"})
    BY DEF StatCandidate, AuthKnown
  <1>2. CASE AuthErr
    BY <1>1, <1>2, ErrSound
  <1>3. CASE FileTaken("home")
    <2>1. PassedOver(Earlier("home"))
      BY <1>1, EarlierFacts, PassedFewer
    <2> QED BY <1>1, <1>3, <2>1, SlotFacts, TakenSound
  <1>4. CASE files["home"].state \in {"unset", "absent"} /\ auth' = [auth EXCEPT !.pc = "docker"]
    <2>1. auth'.pc = "docker" /\ auth'.path = "" /\ auth'.auths = NoAuths /\ auth'.registry = in.registry
      BY <1>1, <1>4
    <2>2. MayPass("home", files)
      BY <1>4 DEF MayPass, NamedSlots
    <2>3. PassedOver(Earlier(auth.path))'
      <3>1. PassedOver(Earlier(auth.path))
        BY <1>1, <2>2, EarlierFacts, PassedMore
      <3> QED BY <1>1, <2>1, <3>1, PassedKept
    <2>4. Matching' = {}
      BY <2>1 DEF Matching, EntriesFor, NoAuths
    <2>5. AuthTypeOK'
      BY <1>1, <1>4
    <2>6. AuthKnown'
      BY <1>1, <2>1, <2>3, <2>4 DEF AuthKnown
    <2> QED BY <2>1, <2>5, <2>6 DEF NoSilentFallback
  <1> QED BY <1>2, <1>3, <1>4 DEF StatCandidate

LEMMA ValidateSound ==
    ASSUME AuthSound, in \in Inputs, in' = in, ValidateAuthFile
    PROVE  AuthSound'
  <1> USE DEF AuthSound, AuthTypeOK
  <1>1. auth.pc = "validate" /\ UNCHANGED <<files, dockerFile, logins, past>>
    BY DEF ValidateAuthFile
  <1>2. CASE AuthErr
    BY <1>1, <1>2, ErrSound
  <1>3. CASE auth' = [auth EXCEPT !.pc = "read"]
    <2>1. /\ auth'.pc = "read" /\ auth'.path = auth.path /\ auth'.by = auth.by
          /\ auth'.registry = auth.registry /\ auth'.auths = auth.auths
      BY <1>3
    <2>2. AuthTypeOK'
      BY <1>1, <1>3
    <2>3. PassedOver(Earlier(auth.path)) => PassedOver(Earlier(auth.path))'
      BY <1>1, <2>1, PassedKept
    <2>4. AuthKnown'
      BY <1>1, <2>1, <2>3 DEF AuthKnown
    <2> QED BY <2>1, <2>2, <2>4 DEF NoSilentFallback
  <1> QED BY <1>2, <1>3 DEF ValidateAuthFile

LEMMA ReadSound ==
    ASSUME AuthSound, in \in Inputs, in' = in, ReadAuthFile
    PROVE  AuthSound'
  <1> USE DEF AuthSound, AuthTypeOK
  <1>1. auth.pc = "read" /\ auth.path # "" /\ auth.registry = in.registry /\ files \in past
        /\ UNCHANGED <<files, dockerFile, logins, past>>
    BY DEF ReadAuthFile, AuthKnown
  <1>2. CASE AuthErr
    BY <1>1, <1>2, ErrSound
  <1>3. CASE /\ files[auth.path].state = "file"
             /\ auth' = [auth EXCEPT !.pc = "match", !.auths = files[auth.path].auths]
    <2>1. files[auth.path] \in AuthFiles
      BY <1>1
    <2>2. files[auth.path] = AFile(files[auth.path].auths)
      BY <1>3, <2>1 DEF AFile, AuthFiles
    <2>3. AuthTypeOK'
      BY <1>1, <1>3, <2>1 DEF AuthFiles
    <2>4. /\ auth'.pc = "match" /\ auth'.path = auth.path /\ auth'.registry = auth.registry
          /\ auth'.auths = files[auth.path].auths /\ auth'.by = auth.by
      BY <1>3
    <2>5. HadEntries'
      <3> HIDE DEF AuthSound, AuthTypeOK
      <3>1. files[auth'.path] = AFile(auth'.auths)
        BY <2>2, <2>4
      <3>2. HadEntries' = \E fs \in past' : fs[auth'.path] = AFile(auth'.auths)
        BY DEF HadEntries, AFile
      <3> QED BY <1>1, <3>1, <3>2
    <2>6. PassedOver(Earlier(auth.path)) => PassedOver(Earlier(auth.path))'
      BY <1>1, <2>4, PassedKept
    <2>7. AuthKnown'
      BY <1>1, <2>4, <2>5, <2>6 DEF AuthKnown
    <2> QED BY <2>3, <2>4, <2>7 DEF NoSilentFallback
  <1> QED BY <1>2, <1>3 DEF ReadAuthFile

\* An answer that is right about the registry and about the entries that match.
LEMMA AnswerSound ==
    ASSUME AuthSound, in \in Inputs, in' = in, UNCHANGED <<files, dockerFile, logins, past>>,
           NEW from \in {"", "podman", "docker"}, NEW key \in AuthKeys \cup {""}, Answer(from, key),
           auth.pc \in {"match", "docker"},
           key # "" => normalizeAuthRegistry(key) = in.registry,
           from = "podman" => auth.path # "" /\ auth.auths[key] = "good",
           from # "podman" => Matching = {}
    PROVE  AuthSound'
  <1> USE DEF AuthSound, AuthTypeOK
  <1>1. /\ auth'.pc = "done" /\ auth'.path = auth.path /\ auth'.registry = auth.registry
        /\ auth'.auths = auth.auths /\ auth'.from = from /\ auth'.key = key /\ auth'.by = auth.by
    BY DEF Answer
  <1>2. AuthTypeOK'
    BY DEF Answer
  <1>3. AuthKnown'
    BY <1>1 DEF AuthKnown
  <1>4. auth.registry = in.registry /\ (auth.by = "podman" => PassedOver(Earlier(auth.path)))
    BY DEF AuthKnown
  <1>5. auth.path # "" => HadEntries
    BY DEF AuthKnown
  <1>6. NoSilentFallback'
    <2> HIDE DEF AuthSound, AuthTypeOK
    <2>1. /\ auth'.key # "" => normalizeAuthRegistry(auth'.key) = auth'.registry
          /\ auth'.path = "" => auth'.from # "podman"
      BY <1>1, <1>4
    <2>2. auth'.by = "podman" => \A s \in Earlier(auth'.path) : \E fs \in past' : MayPass(s, fs)
      BY <1>1, <1>4 DEF PassedOver
    <2>3. ASSUME auth.path # ""
          PROVE  (\E fs \in past :
                    /\ fs[auth.path].state = "file"
                    /\ IF auth.from = "podman" THEN fs[auth.path].auths[auth.key] = "good"
                       ELSE EntriesFor(fs[auth.path].auths) = {})'
      <3>1. PICK fs \in past : fs[auth.path] = AFile(auth.auths)
        BY <1>5, <2>3 DEF HadEntries
      <3>2. fs[auth.path].state = "file" /\ fs[auth.path].auths = auth.auths
        BY <3>1, EntriesOfFile
      <3>3. CASE from = "podman"
        BY <1>1, <3>2, <3>3
      <3>4. CASE from # "podman"
        <4>1. EntriesFor(fs[auth.path].auths)' = EntriesFor(auth.auths)
          BY <1>1, <3>2 DEF EntriesFor
        <4>2. EntriesFor(auth.auths) = {}
          BY <3>4 DEF Matching
        <4> QED BY <1>1, <3>2, <3>4, <4>1, <4>2
      <3> QED BY <3>3, <3>4
    <2> QED BY <1>1, <2>1, <2>2, <2>3 DEF NoSilentFallback
  <1> QED BY <1>2, <1>3, <1>6

LEMMA MatchSound ==
    ASSUME AuthSound, in \in Inputs, in' = in, MatchEntry
    PROVE  AuthSound'
  <1> USE DEF AuthSound, AuthTypeOK
  <1>1. /\ auth.pc = "match" /\ auth.path # "" /\ auth.registry = in.registry
        /\ UNCHANGED <<files, dockerFile, logins, past>>
    BY DEF MatchEntry, AuthKnown
  <1>2. CASE Matching = {}
    <2>1. auth' = [auth EXCEPT !.pc = "docker"]
      BY <1>2 DEF MatchEntry
    <2>2. /\ auth'.pc = "docker" /\ auth'.path = auth.path /\ auth'.registry = auth.registry
          /\ auth'.auths = auth.auths /\ auth'.by = auth.by
      BY <2>1
    <2>3. Matching' = {}
      <3>1. Matching' = Matching
        BY <2>2 DEF Matching, EntriesFor
      <3> QED BY <1>2, <3>1
    <2>4. AuthTypeOK'
      BY <1>1, <2>1
    <2>5. HadEntries => HadEntries'
      BY <1>1, <2>2, EntriesKept
    <2>6. PassedOver(Earlier(auth.path)) => PassedOver(Earlier(auth.path))'
      BY <1>1, <2>2, PassedKept
    <2>7. AuthKnown'
      BY <1>1, <2>2, <2>3, <2>5, <2>6 DEF AuthKnown
    <2> QED BY <2>2, <2>4, <2>7 DEF NoSilentFallback
  <1>3. CASE Matching # {}
    <2>1. PICK k \in Matching : IF auth.auths[k] = "bad" THEN AuthErr ELSE Answer("podman", k)
      BY <1>3 DEF MatchEntry
    <2>2. k \in AuthKeys /\ auth.auths[k] # "no" /\ normalizeAuthRegistry(k) = in.registry
      BY <1>1 DEF Matching, EntriesFor
    <2>3. CASE auth.auths[k] = "bad"
      BY <1>1, <2>1, <2>3, ErrSound
    <2>4. CASE auth.auths[k] # "bad"
      <3>1. auth.auths[k] = "good"
        BY <2>2, <2>4
      <3> QED BY <1>1, <2>1, <2>2, <2>4, <3>1, AnswerSound
    <2> QED BY <2>3, <2>4
  <1> QED BY <1>2, <1>3

LEMMA DockerSound ==
    ASSUME AuthSound, in \in Inputs, in' = in, dockerRegistryAuth
    PROVE  AuthSound'
  <1> USE DEF AuthSound, AuthTypeOK
  <1>1. /\ auth.pc = "docker" /\ auth.registry = in.registry /\ Matching = {}
        /\ UNCHANGED <<files, dockerFile, logins, past>>
    BY DEF dockerRegistryAuth, AuthKnown
  <1>2. PICK key : key = dockerAuthKey(auth.registry)
    OBVIOUS
  <1>3. normalizeAuthRegistry(key) = in.registry
    BY <1>1, <1>2, InputsAssumption DEF normalizeAuthRegistry, dockerAuthKey
  <1>4. AuthErr \/ Answer("", "") \/ (key \in AuthKeys /\ Answer("docker", key))
    BY <1>2 DEF dockerRegistryAuth
  <1>5. CASE AuthErr
    BY <1>1, <1>5, ErrSound
  <1>6. CASE Answer("", "")
    BY <1>1, <1>6, AnswerSound
  <1>7. CASE key \in AuthKeys /\ Answer("docker", key)
    BY <1>1, <1>3, <1>7, AnswerSound
  <1> QED BY <1>4, <1>5, <1>6, <1>7

LEMMA FilesTyped ==
    Files \cup {Other("absent"), Other("broken"), Other("garbled")} \subseteq AuthFiles
  <1>1. Files \subseteq AuthFiles
    BY RegistryAuthAssumption DEF Files, AFile, AuthFiles
  <1>2. NoAuths \in [AuthKeys -> {"no", "bad", "good"}]
    BY DEF NoAuths
  <1>3. Other("absent") \in AuthFiles /\ Other("broken") \in AuthFiles /\ Other("garbled") \in AuthFiles
    BY <1>2 DEF Other, AuthFiles, FileStates
  <1> QED BY <1>1, <1>3

\* Who writes a file takes nothing from what was seen at earlier moments.
LEMMA LoginSound ==
    ASSUME AuthSound, in \in Inputs, in' = in, NEW slot \in AuthSlots, Login(slot)
    PROVE  AuthSound'
  <1> USE DEF AuthSound, AuthTypeOK
  <1>1. auth' = auth /\ dockerFile' = dockerFile /\ logins' = logins + 1
    BY DEF Login
  <1>2. logins' \in Nat
    <2>1. logins \in Nat
      OBVIOUS
    <2> HIDE DEF AuthSound, AuthTypeOK
    <2> QED BY <1>1, <2>1
  <1>3. files' \in [AuthSlots -> AuthFiles]
    BY FilesTyped DEF Login
  <1>4. past \subseteq past' /\ past' \subseteq past \cup {files'} /\ (auth.pc # "idle" => files' \in past')
    BY DEF Login
  <1>5. AuthTypeOK'
    BY <1>1, <1>2, <1>3, <1>4
  <1>6. Matching' = Matching
    BY <1>1 DEF Matching, EntriesFor
  <1>7. /\ HadEntries => HadEntries'
        /\ PassedOver(Earlier(auth.path)) => PassedOver(Earlier(auth.path))'
        /\ PassedOver({"config", "env"}) => PassedOver({"config", "env"})'
        /\ PassedOver({"config", "env", "xdg"}) => PassedOver({"config", "env", "xdg"})'
    BY <1>1, <1>4, EntriesKept, PassedKept, PassedKeptConst
  <1>8. AuthKnown'
    BY <1>1, <1>4, <1>6, <1>7 DEF AuthKnown
  <1>9. NoSilentFallback'
    <2> HIDE DEF AuthTypeOK
    <2>1. NoSilentFallback
      OBVIOUS
    <2>2. \A a : EntriesFor(a)' = EntriesFor(a)
      BY <1>1 DEF EntriesFor
    <2> HIDE DEF AuthSound
    <2> QED BY <1>1, <1>4, <2>1, <2>2 DEF NoSilentFallback
  <1> QED BY <1>5, <1>8, <1>9

LEMMA AuthFrame ==
    ASSUME AuthSound, in' = in, UNCHANGED authVars
    PROVE  AuthSound'
  <1>1. auth' = auth /\ files' = files /\ dockerFile' = dockerFile /\ logins' = logins /\ past' = past
    BY DEF authVars
  <1>2. AuthTypeOK'
    BY <1>1 DEF AuthSound, AuthTypeOK
  <1>3. Matching' = Matching
    BY <1>1 DEF Matching, EntriesFor
  <1>4. /\ HadEntries => HadEntries'
        /\ PassedOver(Earlier(auth.path)) => PassedOver(Earlier(auth.path))'
        /\ PassedOver({"config", "env"}) => PassedOver({"config", "env"})'
        /\ PassedOver({"config", "env", "xdg"}) => PassedOver({"config", "env", "xdg"})'
    BY <1>1, EntriesKept, PassedKept, PassedKeptConst
  <1>5. AuthKnown'
    BY <1>1, <1>3, <1>4 DEF AuthSound, AuthKnown
  <1>6. NoSilentFallback'
    <2>1. \A a : EntriesFor(a)' = EntriesFor(a)
      BY <1>1 DEF EntriesFor
    <2> QED BY <1>1, <2>1 DEF AuthSound, NoSilentFallback
  <1> QED BY <1>2, <1>5, <1>6 DEF AuthSound

LEMMA AuthStep ==
    ASSUME AuthSound, in \in Inputs, [ConfNext]_confVars
    PROVE  AuthSound'
  <1>1. in' = in
    BY InputsKeptStep
  <1>2. CASE Pull(AuthCall(in.registry, Podman))
    BY <1>1, <1>2, AuthCallSound DEF Pull
  <1>3. CASE Pull(findPodmanAuthFile)
    BY <1>1, <1>3, FindSound DEF Pull
  <1>4. CASE Pull(StatCandidate("xdg", "home"))
    BY <1>1, <1>4, StatXdgSound DEF Pull
  <1>5. CASE Pull(StatCandidate("home", "docker"))
    BY <1>1, <1>5, StatHomeSound DEF Pull
  <1>6. CASE Pull(ValidateAuthFile)
    BY <1>1, <1>6, ValidateSound DEF Pull
  <1>7. CASE Pull(ReadAuthFile)
    BY <1>1, <1>7, ReadSound DEF Pull
  <1>8. CASE Pull(MatchEntry)
    BY <1>1, <1>8, MatchSound DEF Pull
  <1>9. CASE Pull(dockerRegistryAuth)
    BY <1>1, <1>9, DockerSound DEF Pull
  <1>10. CASE \E i \in DOMAIN Slots : LoginElsewhere(Slots[i])
    <2>1. PICK i \in DOMAIN Slots : LoginElsewhere(Slots[i])
      BY <1>10
    <2>2. Slots[i] \in AuthSlots
      BY SlotFacts, FourSlots
    <2> QED BY <1>1, <2>1, <2>2, LoginSound DEF LoginElsewhere
  <1>11. CASE UNCHANGED authVars
    BY <1>1, <1>11, AuthFrame
  <1>12. \/ Pull(AuthCall(in.registry, Podman)) \/ Pull(findPodmanAuthFile)
         \/ Pull(StatCandidate("xdg", "home")) \/ Pull(StatCandidate("home", "docker"))
         \/ Pull(ValidateAuthFile) \/ Pull(ReadAuthFile)
         \/ Pull(MatchEntry) \/ Pull(dockerRegistryAuth)
         \/ \E i \in DOMAIN Slots : LoginElsewhere(Slots[i])
         \/ UNCHANGED authVars
    BY DEF ConfNext, Opening, Creating, confVars, Given, OpenEngineWithConfig, ConfigFromMap,
           NewWithConfig, ValidateGPU, ParseDevices, ParseDone, NameChecked, WorkspaceChecked,
           ImagePresent, ParseNextMount, RequestContainer, PolicyHostPath, Replug, UploadTo
  <1> QED BY <1>2, <1>3, <1>4, <1>5, <1>6, <1>7, <1>8, <1>9, <1>10, <1>11, <1>12

LEMMA AuthInit == ConfInit => AuthSound
  <1> SUFFICES ASSUME ConfInit PROVE AuthSound
    OBVIOUS
  <1>1. in \in Inputs /\ files = in.files /\ dockerFile = in.dockerFile /\ auth = Idle /\ logins = 0
        /\ past = {}
    BY DEF ConfInit
  <1>2. files \in [AuthSlots -> AuthFiles] /\ dockerFile \in AuthFiles
    BY <1>1, InputsAssumption DEF AuthSlots
  <1>3. NoAuths \in [AuthKeys -> {"no", "bad", "good"}]
    BY DEF NoAuths
  <1>4. auth.pc = "idle" /\ auth.path = "" /\ auth.auths = NoAuths
    BY <1>1 DEF Idle
  <1>5. AuthTypeOK
    BY <1>1, <1>2, <1>3 DEF AuthTypeOK, Idle
  <1> QED BY <1>4, <1>5 DEF AuthSound, AuthKnown, NoSilentFallback

\* Podman's answer (podmanRegistryAuth) is that of the file that comes first:
\* one that cannot be used, or has a bad entry, is never passed over for
\* Docker's credentials or for none, whoever writes the files between its steps.
THEOREM NoSilentFallbackThm == ConfSpec => []NoSilentFallback
  <1>1. InputsKept /\ AuthSound /\ [ConfNext]_confVars => AuthSound'
    BY AuthStep DEF InputsKept
  <1>2. AuthSound => NoSilentFallback
    BY DEF AuthSound
  <1> QED BY <1>1, <1>2, AuthInit, InputsInvariant, PTL DEF ConfSpec

-----------------------------------------------------------------------------
(* Mounts and uploads.                                                      *)

\* Two paths of which both lead to a third are one above the other.
LEMMA PrefixesCompare ==
    ASSUME NEW S, NEW a \in Seq(S), NEW b \in Seq(S), NEW c \in Seq(S),
           IsPrefix(a, c), IsPrefix(b, c)
    PROVE  IsPrefix(a, b) \/ IsPrefix(b, a)
  <1>1. Len(a) <= Len(c) /\ a = SubSeq(c, 1, Len(a)) /\ Len(b) <= Len(c) /\ b = SubSeq(c, 1, Len(b))
    BY DEF IsPrefix
  <1>2. CASE Len(a) <= Len(b)
    <2>1. a = SubSeq(b, 1, Len(a))
      BY <1>1, <1>2
    <2> QED BY <1>2, <2>1 DEF IsPrefix
  <1>3. CASE Len(b) <= Len(a)
    <2>1. b = SubSeq(a, 1, Len(b))
      BY <1>1, <1>3
    <2> QED BY <1>3, <2>1 DEF IsPrefix
  <1> QED BY <1>2, <1>3

LEMMA PartsAreNumbers ==
    ASSUME NEW n \in 1 .. MaxParts
    PROVE  n \in Nat /\ n > 0
  <1>1. MaxParts \in Nat
    BY MountsAssumption
  <1> QED BY <1>1

LEMMA PathsAreSequences == Paths \subseteq Seq(Components)
  <1> SUFFICES ASSUME NEW p \in Paths PROVE p \in Seq(Components)
    OBVIOUS
  <1>1. PICK n \in 1 .. MaxParts : p \in [1 .. n -> Components]
    BY DEF Paths
  <1>2. n \in Nat
    BY PartsAreNumbers
  <1> QED BY <1>1, <1>2

LEMMA ReservedPaths ==
    /\ Reserved \subseteq Seq(Components) /\ Protected \subseteq Seq(Components)
    /\ Workspace \in Seq(Components)
  BY MountsAssumption, PathsAreSequences

\* What Normal accepts is a path.
LEMMA NormalIsPath ==
    ASSUME NEW raw \in RawPaths, Normal(raw)
    PROVE  Trim(raw) \in Seq(Components)
  <1> DEFINE Spelled == Components \cup {"", ".", ".."}
  <1>1. PICK n \in 1 .. MaxParts : raw.parts \in [1 .. n -> Spelled]
    BY DEF RawPaths, RawParts
  <1>2. n \in Nat /\ n > 0
    BY PartsAreNumbers
  <1> HIDE DEF Spelled
  <1>3. raw.parts \in Seq(Spelled) /\ Len(raw.parts) = n
    BY <1>1, <1>2
  <1>4. SubSeq(raw.parts, 1, Len(raw.parts) - 1) \in Seq(Spelled)
    BY <1>2, <1>3
  <1>5. Trim(raw) \in Seq(Spelled)
    BY <1>3, <1>4 DEF Trim, Front
  <1>6. Range(Trim(raw)) \subseteq Components
    BY DEF Normal
  <1>7. \A i \in 1 .. Len(Trim(raw)) : Trim(raw)[i] \in Components
    BY <1>5, <1>6 DEF Range
  <1> QED BY <1>5, <1>7

LEMMA PrefixTransitive ==
    ASSUME NEW S, NEW a \in Seq(S), NEW b \in Seq(S), NEW c \in Seq(S),
           IsPrefix(a, b), IsPrefix(b, c)
    PROVE  IsPrefix(a, c)
  <1>1. Len(a) <= Len(b) /\ a = SubSeq(b, 1, Len(a)) /\ Len(b) <= Len(c) /\ b = SubSeq(c, 1, Len(b))
    BY DEF IsPrefix
  <1>2. a = SubSeq(c, 1, Len(a))
    BY <1>1
  <1> QED BY <1>1, <1>2 DEF IsPrefix

\* A path that lies neither above nor below a reserved one.
Apart(p) == p \in Seq(Components) /\ \A r \in Reserved : ~IsPrefix(p, r) /\ ~IsPrefix(r, p)

\* pathsOverlap decides whether the trees meet.
LEMMA ApartTrees ==
    ASSUME NEW p, Apart(p), NEW r \in Reserved
    PROVE  Tree(p) \cap Tree(r) = {}
  <1> SUFFICES ASSUME NEW q \in Paths, IsPrefix(p, q), IsPrefix(r, q) PROVE FALSE
    BY DEF Tree
  <1>1. p \in Seq(Components) /\ q \in Seq(Components) /\ r \in Seq(Components)
    BY PathsAreSequences, ReservedPaths DEF Apart
  <1> QED BY <1>1, PrefixesCompare DEF Apart

LEMMA AcceptedTarget ==
    ASSUME NEW raw \in RawPaths, ValidateContainerMountTarget(raw)
    PROVE  Apart(Trim(raw))
  BY NormalIsPath DEF ValidateContainerMountTarget, Apart, pathsOverlap

\* The shortcut of ValidateUploadDest is sound because the workspace is apart.
LEMMA AcceptedUpload ==
    ASSUME NEW raw \in RawPaths, ValidateUploadDest(raw)
    PROVE  Apart(Trim(raw))
  <1>1. Trim(raw) \in Seq(Components)
    BY NormalIsPath DEF ValidateUploadDest
  <1>2. CASE IsPrefix(Workspace, Trim(raw))
    <2> SUFFICES ASSUME NEW r \in Reserved, IsPrefix(Trim(raw), r) \/ IsPrefix(r, Trim(raw))
                 PROVE  FALSE
      BY <1>1 DEF Apart
    <2>1. r \in Seq(Components) /\ Workspace \in Seq(Components)
      BY ReservedPaths
    <2>2. ~IsPrefix(Workspace, r) /\ ~IsPrefix(r, Workspace)
      BY WorkspaceAssumption
    <2>3. CASE IsPrefix(Trim(raw), r)
      BY <1>1, <1>2, <2>1, <2>2, <2>3, PrefixTransitive
    <2>4. CASE IsPrefix(r, Trim(raw))
      BY <1>1, <1>2, <2>1, <2>2, <2>4, PrefixesCompare
    <2> QED BY <2>3, <2>4
  <1>3. CASE ValidateContainerMountTarget(raw)
    BY <1>3, AcceptedTarget
  <1> QED BY <1>2, <1>3 DEF ValidateUploadDest

Mountings ==
    {m \in [target : Seq(Components), kind : {"bind", "volume", "tmpfs"}, ro : BOOLEAN,
            extra : {"none", "colon", "subpath", "rw"}] :
        Apart(m.target) /\ ~IsProtected(m.target)}

\* Every mount that was accepted so far is a good one, and so is every upload.
MountsSound == mounts \in Seq(Mountings) /\ \A p \in uploads : Apart(p)

LEMMA FormFacts ==
    ASSUME NEW m \in MountForms
    PROVE  m.extra \in {"none", "colon", "subpath", "rw"}
  <1>1. PICK k \in DOMAIN Extras :
            m \in [kind : {k}, ro : {"unset", "true", "false"}, extra : Extras[k], sound : BOOLEAN]
    BY DEF MountForms
  <1>2. k \in {"bind", "volume", "tmpfs", "image"}
    BY DEF Extras
  <1>3. Extras[k] \subseteq {"none", "colon", "subpath", "rw"}
    BY <1>2 DEF Extras
  <1> QED BY <1>1, <1>3

LEMMA ParseMountSound ==
    ASSUME MountsSound, NEW raw \in RawPaths, NEW m,
           m.extra \in {"none", "colon", "subpath", "rw"}, ParseMount(raw, m)
    PROVE  MountsSound'
  <1>1. uploads' = uploads
    BY DEF ParseMount
  <1>2. CASE mounts' = mounts
    BY <1>1, <1>2 DEF MountsSound
  <1>3. CASE mounts' # mounts
    <2>1. /\ ValidateContainerMountTarget(raw) /\ ~IsProtected(Trim(raw))
          /\ m.kind \in {"bind", "volume", "tmpfs"}
          /\ mounts' = Append(mounts, [target |-> Trim(raw), kind |-> m.kind,
                                       ro |-> m.ro # "false", extra |-> m.extra])
      BY <1>3 DEF ParseMount
    <2>2. Apart(Trim(raw))
      BY <2>1, AcceptedTarget
    <2>3. [target |-> Trim(raw), kind |-> m.kind, ro |-> m.ro # "false", extra |-> m.extra] \in Mountings
      BY <2>1, <2>2 DEF Mountings, Apart
    <2>4. mounts' \in Seq(Mountings)
      BY <2>1, <2>3, AppendProperties DEF MountsSound
    <2> QED BY <1>1, <2>4 DEF MountsSound
  <1> QED BY <1>2, <1>3

LEMMA MountsStep ==
    ASSUME MountsSound, [ConfNext]_confVars
    PROVE  MountsSound'
  <1>1. CASE \E raw \in RawPaths :
                \E m \in (IF raw \in FormPaths THEN MountForms ELSE {PlainMount}) : ParseNextMount(raw, m)
    <2>1. PICK raw \in RawPaths, m \in MountForms \cup {PlainMount} : ParseNextMount(raw, m)
      BY <1>1
    <2>2. m.extra \in {"none", "colon", "subpath", "rw"}
      BY FormFacts DEF PlainMount
    <2> QED BY <2>1, <2>2, ParseMountSound DEF ParseNextMount
  <1>2. CASE \E raw \in RawPaths : UploadTo(raw)
    <2>1. PICK raw \in RawPaths : UploadTo(raw)
      BY <1>2
    <2>2. Apart(Trim(raw))
      BY <2>1, AcceptedUpload DEF UploadTo, Upload
    <2>3. mounts' = mounts /\ uploads' = {Trim(raw)}
      BY <2>1 DEF UploadTo, Upload
    <2> QED BY <2>2, <2>3 DEF MountsSound
  <1>3. CASE UNCHANGED <<mounts, uploads>>
    BY <1>3 DEF MountsSound
  <1>4. \/ \E raw \in RawPaths :
              \E m \in (IF raw \in FormPaths THEN MountForms ELSE {PlainMount}) : ParseNextMount(raw, m)
        \/ \E raw \in RawPaths : UploadTo(raw)
        \/ UNCHANGED <<mounts, uploads>>
    BY DEF ConfNext, Opening, Creating, confVars, Given, mountVars, OpenEngineWithConfig, ConfigFromMap,
           NewWithConfig, ValidateGPU, ParseDevices, ParseDone, ParseEnds, NameChecked,
           WorkspaceChecked, ImagePresent, Pull, RequestContainer, PolicyHostPath, Replug, LoginElsewhere
  <1> QED BY <1>1, <1>2, <1>3, <1>4

\* Whatever is asked for, only good mounts and uploads are accepted.
THEOREM MountsInvariant == ConfSpec => []MountsSound
  <1>1. ConfInit => MountsSound
    <2>1. <<>> \in Seq(Mountings)
      OBVIOUS
    <2>2. ConfInit => mounts = <<>> /\ uploads = {}
      BY DEF ConfInit, MountsInit
    <2> QED BY <2>1, <2>2 DEF MountsSound
  <1> QED BY <1>1, MountsStep, PTL DEF ConfSpec

\* Whatever mounts and uploads are asked for, in any spelling, none that is
\* accepted (ValidateContainerMountTarget, ValidateUploadDest, parseDockerMount)
\* hides, enters or writes a path the guest's control plane relies on.
THEOREM ControlPathsIntactThm == ConfSpec => []ControlPathsIntact
  <1>1. MountsSound => ControlPathsIntact
    <2> SUFFICES ASSUME MountsSound PROVE ControlPathsIntact
      OBVIOUS
    <2>1. ASSUME NEW p \in Targets PROVE Apart(p) /\ ~IsProtected(p)
      <3>1. PICK i \in DOMAIN mounts : p = mounts[i].target
        BY <2>1 DEF Targets
      <3>2. mounts[i] \in Mountings
        BY <3>1 DEF MountsSound
      <3> QED BY <3>1, <3>2 DEF Mountings
    <2>2. \A p \in Targets \cup uploads : Apart(p)
      BY <2>1 DEF MountsSound
    <2>3. \A p \in Targets : \A r \in Protected : p \notin Tree(r)
      BY <2>1 DEF IsProtected, Tree
    <2> QED BY <2>2, <2>3, ApartTrees DEF ControlPathsIntact
  <1> QED BY <1>1, MountsInvariant, PTL

-----------------------------------------------------------------------------
(* The container that is asked for.                                         *)

\* What RequestContainer makes, in either of its forms, or why it does not.
Userns == canonicalUsernsMode(in.config.userns)
Native == Podman /\ Userns.mode # ""

LEMMA RequestFacts ==
    ASSUME RequestContainer
    PROVE  /\ stage = "build" /\ UNCHANGED Given /\ found' = found
           /\ \/ /\ Native /\ stage' = "err" /\ made' = made
                 /\ why' = Refusal(Options, Userns, in.config.uid, in.config.gid) /\ why' # "none"
              \/ /\ Native /\ stage' = "created" /\ why' = why
                 /\ Refusal(Options, Userns, in.config.uid, in.config.gid) = "none"
                 /\ made' = buildNativeSpec(Options, Userns, in.config.uid, in.config.gid)
              \/ /\ ~Native /\ stage' = "created" /\ why' = why
                 /\ made' = [Options EXCEPT !.mounts = [i \in DOMAIN mounts |-> EngineMount(mounts[i])]]
  BY DEF RequestContainer, Native, Userns, Fails

\* Every other step: the container is untouched, a failure has another reason.
LEMMA OtherSteps ==
    ASSUME [ConfNext]_confVars, ~RequestContainer
    PROVE  /\ made' = made /\ (stage' = "created" <=> stage = "created")
           /\ why' = why \/ why' \in {"kind", "config", "connect", "gpu", "devices", "mounts",
                                      "name", "workspace", "auth"}
           /\ stage = "created" => UNCHANGED <<mounts, host>>
  BY DEF ConfNext, Opening, Creating, confVars, Given, mountVars, OpenEngineWithConfig, ConfigFromMap,
         NewWithConfig, ValidateGPU, ParseDevices, ParseDone, ParseEnds, NameChecked,
         WorkspaceChecked, ImagePresent, ParseNextMount, UploadTo, Upload, Pull,
         PolicyHostPath, Replug, LoginElsewhere, Check, Goes, Fails

LEMMA OptionsFacts ==
    /\ Options.name = sanitizeName(in.name)
    /\ Options.mounts = mounts /\ Options.uid = <<>> /\ Options.gid = <<>> /\ Options.table = FALSE
    /\ \E spec : /\ spec = (IF in.driverCDI = <<>> THEN in.spec ELSE [in.spec EXCEPT !.cdi = in.driverCDI])
                 /\ Options.devices = DeviceRequestsForGPU(spec, in.envCDI, host)
    /\ DOMAIN Options = DOMAIN NoContainer
  BY DEF Options, NoContainer

LEMMA EngineMade ==
    ASSUME NEW ms, NEW o, o = [Options EXCEPT !.mounts = ms]
    PROVE  /\ o.name = Options.name /\ o.mounts = ms /\ o.devices = Options.devices
           /\ o.uid = <<>> /\ o.gid = <<>>
  <1>1. DOMAIN NoContainer = {"name", "devices", "pids", "mounts", "native", "mode", "table", "uid", "gid"}
    BY DEF NoContainer
  <1> QED BY <1>1, OptionsFacts

LEMMA NativeMade ==
    LET o == buildNativeSpec(Options, Userns, in.config.uid, in.config.gid) IN
    /\ o.name = Options.name
    /\ o.mounts = [i \in DOMAIN mounts |-> NativeMount(mounts[i])]
    /\ o.devices = Options.devices /\ o.uid = in.config.uid /\ o.gid = in.config.gid
    /\ Userns.mode \in {"auto", "private"} => o.table = TRUE
  <1>1. DOMAIN NoContainer = {"name", "devices", "pids", "mounts", "native", "mode", "table", "uid", "gid"}
    BY DEF NoContainer
  <1> QED BY <1>1, OptionsFacts DEF buildNativeSpec

\* Options of one mount and of its two translations.
LEMMA EngineOptions ==
    ASSUME NEW m \in Mountings
    PROVE  Range(EngineMount(m).options) = {IF m.ro THEN "ro" ELSE "rw"}
  BY DEF EngineMount, Range

LEMMA NativeOptionsRange ==
    ASSUME NEW m \in Mountings
    PROVE  LET options == Range(NativeMount(m).options) IN
           /\ m.ro /\ m.extra # "rw" => "ro" \in options /\ "rw" \notin options
           /\ ~m.ro => "ro" \notin options
  <1>1. NativeMount(m).options = NativeOptions(m)
    BY DEF NativeMount
  <1>2. CASE m.kind = "bind"
    <2>1. Range(NativeOptions(m)) = {IF m.ro THEN "ro" ELSE "rw", "rbind"}
      BY <1>2 DEF NativeOptions, Range
    <2> QED BY <1>1, <2>1
  <1>3. CASE m.kind = "volume"
    <2>1. Range(NativeOptions(m)) = {IF m.ro THEN "ro" ELSE "rw"}
      BY <1>3 DEF NativeOptions, Range
    <2> QED BY <1>1, <2>1
  <1>4. CASE m.kind \notin {"bind", "volume"}
    <2>1. NativeOptions(m) =
              (IF m.ro THEN <<"ro">> ELSE <<>>) \o (IF m.extra = "rw" THEN <<"rw">> ELSE <<>>)
      BY <1>4 DEF NativeOptions
    <2>2. Range(NativeOptions(m)) =
              (IF m.ro THEN {"ro"} ELSE {}) \cup (IF m.extra = "rw" THEN {"rw"} ELSE {})
      <3>1. CASE m.ro /\ m.extra = "rw"
        BY <2>1, <3>1 DEF Range
      <3>2. CASE m.ro /\ m.extra # "rw"
        BY <2>1, <3>2 DEF Range
      <3>3. CASE ~m.ro /\ m.extra = "rw"
        BY <2>1, <3>3 DEF Range
      <3>4. CASE ~m.ro /\ m.extra # "rw"
        BY <2>1, <3>4 DEF Range
      <3> QED BY <3>1, <3>2, <3>3, <3>4
    <2> QED BY <1>1, <2>2
  <1> QED BY <1>2, <1>3, <1>4

\* Through the engine's API and through Podman's own a mount is as writable as
\* driver_config says (dockerMount, translateNativeMount), read-only when it says
\* nothing.
THEOREM ReadOnlyKeptThm == ConfSpec => []ReadOnlyKept
  <1>1. ConfInit => ReadOnlyKept
    BY DEF ConfInit, ReadOnlyKept, Created
  <1>2. MountsSound /\ ReadOnlyKept /\ [ConfNext]_confVars => ReadOnlyKept'
    <2> SUFFICES ASSUME MountsSound, ReadOnlyKept, [ConfNext]_confVars PROVE ReadOnlyKept'
      OBVIOUS
    <2>1. CASE ~RequestContainer
      BY <2>1, OtherSteps DEF ReadOnlyKept, Created
    <2>2. CASE RequestContainer
      <3>1. mounts' = mounts
        BY <2>2, RequestFacts DEF Given, mountVars
      <3>2. \A i \in DOMAIN mounts : mounts[i] \in Mountings
        BY DEF MountsSound
      <3>3. CASE made' = [Options EXCEPT !.mounts = [i \in DOMAIN mounts |-> EngineMount(mounts[i])]]
        <4>1. made'.mounts = [i \in DOMAIN mounts |-> EngineMount(mounts[i])]
          BY <3>3, EngineMade
        <4>2. \A i \in DOMAIN mounts :
                 Range(EngineMount(mounts[i]).options) = {IF mounts[i].ro THEN "ro" ELSE "rw"}
          BY <3>2, EngineOptions
        <4> QED BY <3>1, <4>1, <4>2 DEF ReadOnlyKept
      <3>4. CASE made' = buildNativeSpec(Options, Userns, in.config.uid, in.config.gid)
        <4>1. made'.mounts = [i \in DOMAIN mounts |-> NativeMount(mounts[i])]
          BY <3>4, NativeMade
        <4>2. \A i \in DOMAIN mounts :
                 LET options == Range(NativeMount(mounts[i]).options) IN
                 /\ mounts[i].ro /\ mounts[i].extra # "rw" => "ro" \in options /\ "rw" \notin options
                 /\ ~mounts[i].ro => "ro" \notin options
          BY <3>2, NativeOptionsRange
        <4> QED BY <3>1, <4>1, <4>2 DEF ReadOnlyKept
      <3>5. CASE stage' = "err"
        BY <3>5 DEF ReadOnlyKept, Created
      <3> QED BY <2>2, <3>3, <3>4, <3>5, RequestFacts
    <2> QED BY <2>1, <2>2
  <1> QED BY <1>1, <1>2, MountsInvariant, PTL DEF ConfSpec

\* The stages after a driver has opened, and after a GPU request was validated.
Validated == {"parse", "mounts", "name", "workspace", "image", "build", "created"}
Opened == Validated \cup {"opened"}

LEMMA StageSteps ==
    ASSUME [ConfNext]_confVars
    PROVE  /\ stage' \in Opened => stage \in Opened \/ (NewWithConfig /\ stage' = "opened")
           /\ stage' \in Validated => stage \in Validated \/ (ValidateGPU /\ stage' = "parse")
           /\ stage' \notin Validated /\ stage' # "err" => host' = host
           /\ host' = host \/ (host' \in Hosts /\ stage' \in Validated)
           /\ stage \in Validated => stage' \in Validated \cup {"err"}
           /\ stage = "err" => stage' = "err" /\ host' = host
  BY DEF ConfNext, Opening, Creating, confVars, Given, mountVars, OpenEngineWithConfig, ConfigFromMap,
         NewWithConfig, ValidateGPU, ParseDevices, ParseDone, ParseEnds, NameChecked,
         WorkspaceChecked, ImagePresent, ParseNextMount, UploadTo, Upload, Pull, RequestContainer,
         PolicyHostPath, Replug, LoginElsewhere, Check, Goes, Fails, Opened, Validated

\* What NewWithConfig has checked of the user namespace of a Podman driver.
UsernsChecked ==
    stage \in Opened /\ Podman =>
        /\ ValidMode(in.config.userns)
        /\ MapsFollowMode(in.config.userns, in.config.uid, in.config.gid)

LEMMA UsernsCheckedStep ==
    ASSUME UsernsChecked, [ConfNext]_confVars
    PROVE  UsernsChecked'
  <1>1. in' = in /\ (Podman' <=> Podman)
    BY InputsKeptStep DEF Podman
  <1> SUFFICES ASSUME stage' \in Opened, Podman
               PROVE  /\ ValidMode(in.config.userns)
                      /\ MapsFollowMode(in.config.userns, in.config.uid, in.config.gid)
    BY <1>1 DEF UsernsChecked
  <1>2. CASE stage \in Opened
    BY <1>2 DEF UsernsChecked
  <1>3. CASE NewWithConfig /\ stage' = "opened"
    BY <1>3 DEF NewWithConfig, Check, Fails
  <1> QED BY <1>2, <1>3, StageSteps

\* Both checks of a mode, of which one sees its canonical form, agree.
LEMMA ModesAgree ==
    ASSUME NEW m \in Modes, ValidMode(m), canonicalUsernsMode(m).mode # ""
    PROVE  NativeMode(canonicalUsernsMode(m))
  <1>1. CASE m.mode = "nomap"
    BY <1>1 DEF canonicalUsernsMode, ValidMode, NativeMode, Modes
  <1>2. CASE m.mode = "AUTO"
    BY <1>2 DEF canonicalUsernsMode, ValidMode, NativeMode, Modes
  <1>3. CASE m.mode \notin {"nomap", "AUTO"}
    <2>1. canonicalUsernsMode(m) = m
      BY <1>3 DEF canonicalUsernsMode
    <2> QED BY <1>3, <2>1 DEF ValidMode, NativeMode, Modes
  <1> QED BY <1>1, <1>2, <1>3

LEMMA ProxiesAgree ==
    ASSUME NEW c \in ProxyConfigs
    PROVE  /\ validateProxyConfig(c) => validateUpstreamProxyConfig(c)
           /\ validateUpstreamProxyConfig(c) /\ "false" \notin {c.insecure, c.byHost} =>
                 validateProxyConfig(c)
  BY DEF ProxyConfigs, validateProxyConfig, validateUpstreamProxyConfig

\* The reason of a refusal, after the mode was checked.
LEMMA RefusalReason ==
    ASSUME NEW options, NEW m, NEW uid, NEW gid, m.mode # "", NativeMode(m),
           NEW r, r = Refusal(options, m, uid, gid)
    PROVE  /\ r \in {"maps", "range", "mount", "none"}
           /\ r = "maps" => ~NativeMaps(m, uid, gid)
           /\ r = "none" => NativeMaps(m, uid, gid) /\ validateIDMap(uid) /\ validateIDMap(gid)
  BY DEF Refusal

\* The part of ChecksAgree that is about the steps taken.
NoNewRefusal ==
    /\ why \notin {"no mode", "mode"}
    /\ why = "maps" => Len(in.config.uid) # Len(in.config.gid)
    /\ made.uid # <<>> \/ made.gid # <<>> => made.table

LEMMA RequestAgrees ==
    ASSUME InputsKept, UsernsChecked, NoNewRefusal, RequestContainer
    PROVE  NoNewRefusal'
  <1>1. stage = "build" /\ in' = in
    BY RequestFacts DEF Given
  <1>2. in.config.userns \in Modes
    BY InputsAssumption DEF InputsKept
  <1>3. ASSUME Native
        PROVE  NativeMode(Userns) /\ MapsFollowMode(in.config.userns, in.config.uid, in.config.gid)
    BY <1>1, <1>2, <1>3, ModesAgree DEF Native, Userns, UsernsChecked, Opened, Validated
  <1>4. CASE /\ Native /\ stage' = "err" /\ made' = made
             /\ why' = Refusal(Options, Userns, in.config.uid, in.config.gid) /\ why' # "none"
    <2>1. /\ why' \in {"maps", "range", "mount", "none"}
          /\ why' = "maps" => ~NativeMaps(Userns, in.config.uid, in.config.gid)
      BY <1>3, <1>4, RefusalReason DEF Native
    <2>2. why' = "maps" => Len(in.config.uid) # Len(in.config.gid)
      BY <1>3, <1>4, <2>1 DEF NativeMaps, MapsFollowMode, Userns
    <2> QED BY <1>1, <1>4, <2>1, <2>2 DEF NoNewRefusal
  <1>5. CASE /\ Native /\ stage' = "created" /\ why' = why
             /\ made' = buildNativeSpec(Options, Userns, in.config.uid, in.config.gid)
    <2>1. /\ made'.uid = in.config.uid /\ made'.gid = in.config.gid
          /\ Userns.mode \in {"auto", "private"} => made'.table
      BY <1>5, NativeMade
    <2>2. in.config.uid # <<>> \/ in.config.gid # <<>> => Userns.mode = "private"
      BY <1>3, <1>5 DEF MapsFollowMode, Userns
    <2> QED BY <1>1, <1>5, <2>1, <2>2 DEF NoNewRefusal
  <1>6. CASE /\ ~Native /\ stage' = "created" /\ why' = why
             /\ made' = [Options EXCEPT !.mounts = [i \in DOMAIN mounts |-> EngineMount(mounts[i])]]
    <2>1. made'.uid = <<>> /\ made'.gid = <<>>
      BY <1>6, EngineMade
    <2> QED BY <1>1, <1>6, <2>1 DEF NoNewRefusal
  <1> QED BY <1>4, <1>5, <1>6, RequestFacts

\* Create (buildNativeSpec) refuses no mode and no maps that opening the driver
\* (NewWithConfig) let pass, their lengths and ranges excepted; and the two
\* checks of proxy settings differ by explicit falses only.
THEOREM ChecksAgreeThm == ConfSpec => []ChecksAgree
  <1>1. ConfInit => UsernsChecked /\ NoNewRefusal
    <2>1. ConfInit => stage \notin Opened /\ why = "" /\ made = NoContainer
      BY DEF ConfInit, Opened, Validated
    <2>2. NoContainer.uid = <<>> /\ NoContainer.gid = <<>>
      BY DEF NoContainer
    <2> QED BY <2>1, <2>2 DEF UsernsChecked, NoNewRefusal
  <1>2. InputsKept /\ UsernsChecked /\ NoNewRefusal /\ [ConfNext]_confVars =>
            UsernsChecked' /\ NoNewRefusal'
    <2> SUFFICES ASSUME InputsKept, UsernsChecked, NoNewRefusal, [ConfNext]_confVars
                 PROVE  UsernsChecked' /\ NoNewRefusal'
      OBVIOUS
    <2>1. CASE RequestContainer
      BY <2>1, RequestAgrees, UsernsCheckedStep
    <2>2. CASE ~RequestContainer
      <3>1. in' = in
        BY InputsKeptStep
      <3>2. made' = made /\ (why' = why \/ why' \notin {"no mode", "mode", "maps"})
        BY <2>2, OtherSteps
      <3>3. NoNewRefusal'
        BY <3>1, <3>2 DEF NoNewRefusal
      <3> QED BY <3>3, UsernsCheckedStep
    <2> QED BY <2>1, <2>2
  <1>3. InputsKept /\ NoNewRefusal => ChecksAgree
    BY ProxiesAgree, InputsAssumption DEF InputsKept, NoNewRefusal, ChecksAgree
  <1> QED BY <1>1, <1>2, <1>3, InputsInvariant, PTL DEF ConfSpec

\* A number below the modulus is its own remainder.
LEMMA SmallRemainder ==
    ASSUME NEW n \in Nat \ {0}, NEW x \in Nat, 0 < x, x < n
    PROVE  x % n # 0
  OBVIOUS

\* The ids of a range that validateIDMap accepts are below the limit.
LEMMA RangeFits ==
    ASSUME NEW e \in [cid : Nat, hid : Nat, size : Nat],
           e.cid + e.size <= 2 ^ IDBits, e.hid + e.size <= 2 ^ IDBits, NEW k \in 1 .. e.size - 1
    PROVE  (e.cid + k) % 2 ^ IDBits # 0 /\ (e.hid + k) % 2 ^ IDBits # 0
  <1>1. PICK n \in Nat \ {0} : n = 2 ^ IDBits
    BY DriverConfigAssumption
  <1>2. /\ e.cid + k \in Nat /\ 0 < e.cid + k /\ e.cid + k < n
        /\ e.hid + k \in Nat /\ 0 < e.hid + k /\ e.hid + k < n
    BY <1>1
  <1>3. (e.cid + k) % n # 0 /\ (e.hid + k) % n # 0
    BY <1>2, SmallRemainder
  <1> QED BY <1>1, <1>3

ListFits(list) ==
    \A i \in DOMAIN list : \A k \in 1 .. list[i].size - 1 :
        (list[i].cid + k) % 2 ^ IDBits # 0 /\ (list[i].hid + k) % 2 ^ IDBits # 0

LEMMA MapFits ==
    ASSUME NEW list \in Maps, validateIDMap(list)
    PROVE  ListFits(list)
  <1> SUFFICES ASSUME NEW i \in DOMAIN list, NEW k \in 1 .. list[i].size - 1
               PROVE  (list[i].cid + k) % 2 ^ IDBits # 0 /\ (list[i].hid + k) % 2 ^ IDBits # 0
    BY DEF ListFits
  <1>1. list[i] \in [cid : Nat, hid : Nat, size : Nat]
    <2>1. list \in Seq([cid : Nat, hid : Nat, size : Nat])
      BY DEF Maps
    <2>2. i \in 1 .. Len(list)
      BY <2>1
    <2> QED BY <2>1, <2>2, ElementOfSeq
  <1>2. list[i].cid + list[i].size <= 2 ^ IDBits /\ list[i].hid + list[i].size <= 2 ^ IDBits
    BY DEF validateIDMap
  <1> QED BY <1>1, <1>2, RangeFits

\* No range that buildNativeSpec hands to Podman wraps round to id 0, for ids of
\* any width.
THEOREM MapsFitThm == ConfSpec => []MapsFit
  <1> DEFINE Fit == ListFits(made.uid) /\ ListFits(made.gid)
  <1>0. ListFits(<<>>)
    BY DEF ListFits
  <1>1. ConfInit => Fit
    <2>1. NoContainer.uid = <<>> /\ NoContainer.gid = <<>>
      BY DEF NoContainer
    <2>2. ConfInit => made = NoContainer
      BY DEF ConfInit
    <2> QED BY <1>0, <2>1, <2>2
  <1>2. InputsKept /\ UsernsChecked /\ Fit /\ [ConfNext]_confVars => Fit'
    <2> SUFFICES ASSUME InputsKept, UsernsChecked, Fit, [ConfNext]_confVars PROVE Fit'
      OBVIOUS
    <2>1. CASE ~RequestContainer
      <3>1. made' = made
        BY <2>1, OtherSteps
      <3> QED BY <3>1 DEF ListFits
    <2>2. CASE RequestContainer
      <3>1. in.config.uid \in Maps /\ in.config.gid \in Maps /\ in.config.userns \in Modes
        BY InputsAssumption DEF InputsKept
      <3>2. CASE made' = made
        BY <3>2 DEF ListFits
      <3>3. CASE /\ Native /\ Refusal(Options, Userns, in.config.uid, in.config.gid) = "none"
                 /\ made' = buildNativeSpec(Options, Userns, in.config.uid, in.config.gid)
        <4>1. NativeMode(Userns)
          BY <2>2, <3>1, <3>3, RequestFacts, ModesAgree DEF Native, Userns, UsernsChecked, Opened, Validated
        <4>2. validateIDMap(in.config.uid) /\ validateIDMap(in.config.gid)
          BY <3>3, <4>1, RefusalReason DEF Native
        <4>3. ListFits(in.config.uid) /\ ListFits(in.config.gid)
          BY <3>1, <4>2, MapFits
        <4>4. made'.uid = in.config.uid /\ made'.gid = in.config.gid
          BY <3>3, NativeMade
        <4> QED BY <4>3, <4>4 DEF ListFits
      <3>4. CASE made' = [Options EXCEPT !.mounts = [i \in DOMAIN mounts |-> EngineMount(mounts[i])]]
        <4>1. made'.uid = <<>> /\ made'.gid = <<>>
          BY <3>4, EngineMade
        <4> QED BY <4>1 DEF ListFits
      <3> QED BY <2>2, <3>2, <3>3, <3>4, RequestFacts
    <2> QED BY <2>1, <2>2
  <1>3. Fit => MapsFit
    BY DEF MapsFit, ListFits
  <1>4. ConfInit => UsernsChecked
    BY DEF ConfInit, UsernsChecked, Opened, Validated
  <1> HIDE DEF Fit
  <1>5. ConfSpec => []UsernsChecked
    BY <1>4, UsernsCheckedStep, PTL DEF ConfSpec
  <1> QED BY <1>1, <1>2, <1>3, <1>5, InputsInvariant, PTL DEF ConfSpec

-----------------------------------------------------------------------------
(* GPUs.  The inductions are on the smallest counterexample.                *)

IsSeq(f) == \E T : f \in Seq(T)

LEMMA AscendingIsSeq ==
    ASSUME NEW S, IsFiniteSet(S)
    PROVE  IsSeq(Ascending(S)) /\ DOMAIN Ascending(S) = 1 .. Cardinality(S) /\ Cardinality(S) \in Nat
  <1>1. Cardinality(S) \in Nat
    BY FS_CardinalityType
  <1>2. PICK T : T = {Ascending(S)[k] : k \in 1 .. Cardinality(S)}
    OBVIOUS
  <1>3. Ascending(S) \in [1 .. Cardinality(S) -> T]
    BY <1>2 DEF Ascending
  <1>4. Ascending(S) \in Seq(T)
    BY <1>1, <1>3
  <1> QED BY <1>1, <1>3, <1>4 DEF IsSeq

LEMMA SelectionFacts ==
    ASSUME NEW s, NEW S, IsFiniteSet(S)
    PROVE  /\ IsSeq(Selection(s, S)) /\ Len(Selection(s, S)) = Cardinality(S) /\ Cardinality(S) \in Nat
           /\ \A k \in 1 .. Cardinality(S) : Selection(s, S)[k] = s[Ascending(S)[k]]
  <1>1. PICK n \in Nat : n = Cardinality(S) /\ DOMAIN Ascending(S) = 1 .. n
    BY AscendingIsSeq
  <1>2. PICK f : f = Selection(s, S)
    OBVIOUS
  <1>3. f = [k \in 1 .. n |-> s[Ascending(S)[k]]]
    BY <1>1, <1>2 DEF Selection
  <1>4. PICK T : T = {s[Ascending(S)[k]] : k \in 1 .. n}
    OBVIOUS
  <1>5. f \in [1 .. n -> T]
    BY <1>3, <1>4
  <1>6. f \in Seq(T) /\ Len(f) = n
    BY <1>5
  <1> QED BY <1>1, <1>2, <1>3, <1>6 DEF IsSeq

LEMMA PositionsFinite ==
    ASSUME NEW T, NEW s \in Seq(T), NEW S \in SUBSET DOMAIN s
    PROVE  IsFiniteSet(S) /\ S \in SUBSET Nat
  <1>1. DOMAIN s = 1 .. Len(s) /\ Len(s) \in Nat
    OBVIOUS
  <1>2. IsFiniteSet(1 .. Len(s))
    BY <1>1, FS_Interval
  <1> QED BY <1>1, <1>2, FS_Subset

\* A set of natural numbers has a smallest element.
LEMMA SmallestExists ==
    ASSUME NEW S \in SUBSET Nat, S # {}
    PROVE  \E m \in S : \A k \in S : m <= k
  <1> DEFINE Below == {p \in Nat \X Nat : p[1] < p[2]}
  <1>1. IsWellFoundedOn(Below, Nat)
    BY NatLessThanWellFounded DEF OpToRel
  <1>2. \A k, m \in Nat : k < m => <<k, m>> \in Below
    OBVIOUS
  <1> HIDE DEF Below
  <1>3. PICK m \in S : \A k \in S : <<k, m>> \notin Below
    BY <1>1, WFMin
  <1>4. \A k \in S : ~(k < m)
    BY <1>2, <1>3
  <1> QED BY <1>4

LEMMA MinMaxFacts ==
    ASSUME NEW n \in Nat, NEW S \in SUBSET (1 .. n), S # {}
    PROVE  /\ Min(S) \in S /\ \A k \in S : Min(S) <= k
           /\ Max(S) \in S /\ \A k \in S : k <= Max(S)
  <1>1. \E m \in S : \A k \in S : m <= k
    BY SmallestExists
  <1>2. \E m \in S : \A k \in S : m >= k
    <2> DEFINE D == {d \in 0 .. n : n - d \in S}
    <2>1. D \in SUBSET Nat
      OBVIOUS
    <2>2. D # {}
      <3>1. PICK k \in S : TRUE
        OBVIOUS
      <3>2. n - k \in 0 .. n /\ n - (n - k) = k
        BY <3>1
      <3> QED BY <3>1, <3>2
    <2>3. PICK d \in D : \A e \in D : d <= e
      BY <2>1, <2>2, SmallestExists
    <2>4. ASSUME NEW k \in S PROVE n - d >= k
      <3>1. n - k \in 0 .. n /\ n - (n - k) = k
        OBVIOUS
      <3>2. d <= n - k
        BY <2>3, <3>1
      <3> QED BY <3>2
    <2> QED BY <2>3, <2>4
  <1> QED BY <1>1, <1>2 DEF Min, Max

Rank(S, i) == Cardinality({j \in S : j < i})

LEMMA OneMore ==
    ASSUME NEW A, NEW x, IsFiniteSet(A), x \notin A
    PROVE  Cardinality(A \cup {x}) = Cardinality(A) + 1 /\ IsFiniteSet(A \cup {x})
  <1>1. Cardinality(A \cup {x}) = IF x \in A THEN Cardinality(A) ELSE Cardinality(A) + 1
    BY FS_AddElement
  <1>2. IsFiniteSet(A \cup {x})
    BY FS_AddElement
  <1> QED BY <1>1, <1>2

\* Every rank is that of an element.
LEMMA RanksTaken ==
    ASSUME NEW S \in SUBSET Nat, IsFiniteSet(S), NEW k \in 1 .. Cardinality(S)
    PROVE  \E i \in S : Rank(S, i) = k - 1
  <1>0. PICK size \in Nat : size = Cardinality(S)
    BY FS_CardinalityType
  <1> DEFINE Bad == {n \in 1 .. size : ~ \E i \in S : Rank(S, i) = n - 1}
  <1> SUFFICES ASSUME Bad # {} PROVE FALSE
    BY <1>0
  <1>1. PICK n \in Bad : \A m \in Bad : n <= m
    <2>1. Bad \in SUBSET Nat
      OBVIOUS
    <2> QED BY <2>1, SmallestExists
  <1>2. n \in Nat /\ 1 <= n /\ n <= size /\ ~ \E i \in S : Rank(S, i) = n - 1
    BY <1>1
  <1>3. CASE n = 1
    <2>1. S # {}
      BY <1>2, FS_EmptySet
    <2>2. PICK m \in S : \A j \in S : m <= j
      BY <2>1, SmallestExists
    <2>3. {j \in S : j < m} = {}
      <3>1. \A j \in S : j \in Nat /\ m \in Nat /\ ~(j < m)
        BY <2>2
      <3> QED BY <3>1
    <2>4. Rank(S, m) = 0
      BY <2>3, FS_EmptySet DEF Rank
    <2> QED BY <1>2, <1>3, <2>4
  <1>4. CASE n > 1
    <2>1. n - 1 \in 1 .. size /\ ~(n <= n - 1)
      BY <1>2, <1>4
    <2>2. n - 1 \notin Bad
      BY <1>1, <2>1
    <2>3. PICK i \in S : Rank(S, i) = (n - 1) - 1
      BY <2>1, <2>2
    <2> PICK less : less = {j \in S : j < i}
      OBVIOUS
    <2> PICK upto : upto = {j \in S : j <= i}
      OBVIOUS
    <2>4. IsFiniteSet(less) /\ i \notin less /\ upto = less \cup {i}
      <3>1. \A j \in S : j \in Nat /\ i \in Nat /\ (j <= i <=> j < i \/ j = i) /\ ~(i < i)
        OBVIOUS
      <3>2. less \in SUBSET S
        OBVIOUS
      <3>3. i \notin less /\ upto = less \cup {i}
        BY <3>1
      <3> QED BY <3>2, <3>3, FS_Subset
    <2>5. Cardinality(upto) = n - 1 /\ IsFiniteSet(upto)
      <3>1. Cardinality(upto) = Cardinality(less) + 1 /\ IsFiniteSet(upto)
        BY <2>4, OneMore
      <3>2. Cardinality(less) = (n - 1) - 1
        BY <2>3 DEF Rank
      <3> QED BY <1>2, <3>1, <3>2
    <2>6. S \ upto # {}
      <3>1. upto # S
        BY <1>0, <1>2, <2>5
      <3> QED BY <3>1
    <2>7. PICK m \in S \ upto : \A j \in S \ upto : m <= j
      BY <2>6, SmallestExists
    <2>8. {j \in S : j < m} = upto
      <3>1. m > i /\ m \in Nat /\ i \in Nat
        BY <2>7
      <3>2. ASSUME NEW j \in S PROVE j < m <=> j <= i
        <4>1. CASE j <= i
          BY <3>1, <4>1
        <4>2. CASE ~(j <= i)
          <5>1. m <= j
            BY <2>7, <4>2
          <5> QED BY <3>1, <4>2, <5>1
        <4> QED BY <4>1, <4>2
      <3> QED BY <3>2
    <2>9. Rank(S, m) = n - 1
      BY <2>5, <2>8 DEF Rank
    <2> QED BY <1>2, <2>7, <2>9
  <1> QED BY <1>2, <1>3, <1>4

LEMMA AscendingInside ==
    ASSUME NEW S \in SUBSET Nat, IsFiniteSet(S), NEW k \in 1 .. Cardinality(S)
    PROVE  Ascending(S)[k] \in S
  <1>1. Ascending(S)[k] = CHOOSE i \in S : Rank(S, i) = k - 1
    BY DEF Ascending, Rank
  <1> QED BY <1>1, RanksTaken

\* What all of a sequence is selected from is the sequence.
LEMMA AscendingInterval ==
    ASSUME NEW n \in Nat, NEW k \in 1 .. n
    PROVE  Cardinality(1 .. n) = n /\ Ascending(1 .. n)[k] = k
  <1>1. Cardinality(1 .. n) = n
    BY FS_Interval
  <1>2. ASSUME NEW i \in 1 .. n PROVE Rank(1 .. n, i) = i - 1
    <2>1. {j \in 1 .. n : j < i} = 1 .. i - 1
      OBVIOUS
    <2>2. Cardinality(1 .. i - 1) = i - 1
      BY FS_Interval
    <2> QED BY <2>1, <2>2 DEF Rank
  <1>3. Ascending(1 .. n)[k] = CHOOSE i \in 1 .. n : Rank(1 .. n, i) = k - 1
    BY <1>1 DEF Ascending, Rank
  <1>4. \A i \in 1 .. n : Rank(1 .. n, i) = k - 1 <=> i = k
    BY <1>2
  <1> QED BY <1>1, <1>3, <1>4

LEMMA SelectAll ==
    ASSUME NEW T, NEW s \in Seq(T)
    PROVE  Selection(s, 1 .. Len(s)) = s
  <1>1. PICK n \in Nat : n = Len(s)
    OBVIOUS
  <1>2. IsFiniteSet(1 .. n) /\ Cardinality(1 .. n) = n
    BY FS_Interval
  <1>3. PICK f : f = Selection(s, 1 .. n)
    OBVIOUS
  <1>4. IsSeq(f) /\ Len(f) = n /\ \A k \in 1 .. n : f[k] = s[Ascending(1 .. n)[k]]
    BY <1>2, <1>3, SelectionFacts
  <1>5. \A k \in 1 .. n : f[k] = s[k]
    BY <1>4, AscendingInterval
  <1>6. PICK U : f \in Seq(U)
    BY <1>4 DEF IsSeq
  <1>7. f = s
    BY <1>1, <1>4, <1>5, <1>6, SeqEqual
  <1> QED BY <1>1, <1>3, <1>7

LEMMA NormalizedIsSeq ==
    ASSUME NEW values \in Seq(Int)
    PROVE  IsSeq(normalizedCDIDevices(values))
  BY PositionsFinite, SelectionFacts DEF normalizedCDIDevices

LEMMA ExplicitIsSeq ==
    ASSUME NEW spec, NEW env \in Seq(Int), spec.cdi \in Seq(Int)
    PROVE  IsSeq(Explicit(spec, env))
  BY NormalizedIsSeq DEF Explicit

LEMMA LocalIsSeq ==
    ASSUME NEW h \in GPUHosts
    PROVE  IsSeq(localCDIDevices(h))
  <1>1. IsFiniteSet(h.nodes)
    BY DEF GPUHosts
  <1>2. IsSeq(Ascending(h.nodes))
    BY <1>1, AscendingIsSeq
  <1>3. <<AllDevices>> \in Seq({AllDevices}) /\ <<>> \in Seq({AllDevices})
    OBVIOUS
  <1>4. IsSeq(<<AllDevices>>) /\ IsSeq(<<>>)
    BY <1>3 DEF IsSeq
  <1> QED BY <1>2, <1>4 DEF localCDIDevices

\* The devices of a host with numbered nodes are numbers; one without any list
\* has no such nodes.
LEMMA LocalNumbers ==
    ASSUME NEW h \in GPUHosts, NEW local, local = localCDIDevices(h)
    PROVE  /\ h.nodes # {} => AllDevices \notin Range(local)
           /\ local = <<>> => h.nodes = {}
  <1>1. IsFiniteSet(h.nodes) /\ h.nodes \in SUBSET Nat
    BY DEF GPUHosts
  <1>2. PICK n \in Nat : n = Cardinality(h.nodes) /\ DOMAIN Ascending(h.nodes) = 1 .. n
    BY <1>1, AscendingIsSeq
  <1>3. \A k \in 1 .. n : Ascending(h.nodes)[k] \in Nat
    BY <1>1, <1>2, AscendingInside
  <1>4. ASSUME h.nodes # {} PROVE AllDevices \notin Range(local)
    <2>1. local = Ascending(h.nodes)
      BY <1>4 DEF localCDIDevices
    <2>2. AllDevices \notin Nat
      BY DEF AllDevices
    <2> QED BY <1>2, <1>3, <2>1, <2>2 DEF Range
  <1>5. ASSUME local = <<>>, h.nodes # {} PROVE FALSE
    <2>1. Ascending(h.nodes) = <<>>
      BY <1>5 DEF localCDIDevices
    <2>2. 1 .. n = {}
      BY <1>2, <2>1
    <2>3. n = 0
      BY <2>2
    <2> QED BY <1>1, <1>2, <1>5, <2>3, FS_EmptySet
  <1> QED BY <1>4, <1>5

\* A list cut to a length, and what is in it.
LEMMA CutFacts ==
    ASSUME NEW ids, IsSeq(ids), NEW n \in Nat \ {0},
           NEW c, c = IF Len(ids) > n THEN SubSeq(ids, 1, n) ELSE ids
    PROVE  Len(c) <= n /\ (Len(ids) >= n => Len(c) = n /\ c # <<>>)
  <1>1. PICK T : ids \in Seq(T)
    BY DEF IsSeq
  <1>2. CASE Len(ids) > n
    BY <1>1, <1>2
  <1>3. CASE ~(Len(ids) > n)
    BY <1>1, <1>3
  <1> QED BY <1>2, <1>3

LEMMA CutRange ==
    ASSUME NEW ids, IsSeq(ids), NEW n \in Nat \ {0},
           NEW c, c = IF Len(ids) > n THEN SubSeq(ids, 1, n) ELSE ids
    PROVE  Range(c) \subseteq Range(ids) /\ (c = <<>> => ids = <<>>)
  <1>1. PICK T : ids \in Seq(T)
    BY DEF IsSeq
  <1>2. CASE Len(ids) > n
    <2>1. /\ Len(c) = n /\ DOMAIN c = 1 .. n /\ DOMAIN ids = 1 .. Len(ids)
          /\ \A k \in 1 .. n : c[k] = ids[k] /\ k \in 1 .. Len(ids)
      BY <1>1, <1>2
    <2>2. Range(c) \subseteq Range(ids)
      BY <2>1 DEF Range
    <2> QED BY <1>1, <1>2, <2>1, <2>2
  <1>3. CASE ~(Len(ids) > n)
    BY <1>1, <1>3
  <1> QED BY <1>2, <1>3

\* The devices that are asked for, and those that a request must find.
LEMMA RequestedDevices ==
    ASSUME NEW spec, NEW env \in Seq(Int), NEW h \in GPUHosts, spec.cdi \in Seq(Int),
           spec.count \in Nat \ {0}, NEW d, d = DeviceRequestsForGPU(spec, env, h)
    PROVE  /\ Len(d) <= spec.count
           /\ AllDevices \in Range(d) =>
                 \/ AllDevices \in Range(Explicit(spec, env))
                 \/ Explicit(spec, env) = <<>> /\ h.nodes = {}
           /\ spec.gpu /\ ValidateGPURequest(spec, env, h) => Len(d) = spec.count
  <1> PICK n \in Nat \ {0} : n = spec.count
    OBVIOUS
  <1> PICK explicit : explicit = Explicit(spec, env)
    OBVIOUS
  <1> PICK local : local = localCDIDevices(h)
    OBVIOUS
  <1>1. n = spec.count /\ explicit = Explicit(spec, env) /\ local = localCDIDevices(h)
    OBVIOUS
  <1>2. IsSeq(explicit) /\ IsSeq(local)
    BY <1>1, ExplicitIsSeq, LocalIsSeq
  <1>3. PICK ids : ids = IF explicit = <<>> THEN local ELSE explicit
    OBVIOUS
  <1>4. PICK cut : cut = IF Len(ids) > n THEN SubSeq(ids, 1, n) ELSE ids
    OBVIOUS
  <1>5. IsSeq(ids)
    BY <1>2, <1>3
  <1>6. Len(cut) <= n /\ (Len(ids) >= n => Len(cut) = n /\ cut # <<>>)
    BY <1>4, <1>5, CutFacts
  <1>7. Range(cut) \subseteq Range(ids) /\ (cut = <<>> => ids = <<>>)
    BY <1>4, <1>5, CutRange
  <1>8. d = IF ~spec.gpu /\ spec.cdi = <<>> THEN <<>> ELSE IF cut = <<>> THEN <<AllDevices>> ELSE cut
    BY <1>1, <1>3, <1>4 DEF DeviceRequestsForGPU
  <1>9. Len(d) <= n
    <2>1. Len(<<>>) = 0 /\ Len(<<AllDevices>>) = 1
      OBVIOUS
    <2>2. 0 <= n /\ 1 <= n
      OBVIOUS
    <2> QED BY <1>6, <1>8, <2>1, <2>2
  <1>10. ValidateGPURequest(spec, env, h) => Len(ids) >= n
    <2>1. CASE explicit = <<>>
      BY <1>1, <1>3, <2>1 DEF ValidateGPURequest
    <2>2. CASE explicit # <<>>
      BY <1>1, <1>3, <2>2 DEF ValidateGPURequest
    <2> QED BY <2>1, <2>2
  <1>11. spec.gpu /\ Len(ids) >= n => Len(d) = n
    BY <1>6, <1>8
  <1>12. ASSUME AllDevices \in Range(d)
         PROVE  AllDevices \in Range(explicit) \/ (explicit = <<>> /\ h.nodes = {})
    <2>1. d # <<>>
      BY <1>12 DEF Range
    <2>2. CASE cut = <<>>
      <3>1. explicit = <<>> /\ local = <<>>
        BY <1>3, <1>7, <2>2
      <3> QED BY <1>1, <3>1, LocalNumbers
    <2>3. CASE cut # <<>>
      <3>1. AllDevices \in Range(ids)
        BY <1>8, <1>12, <1>7, <2>1, <2>3
      <3> QED BY <1>1, <1>3, <3>1, LocalNumbers
    <2> QED BY <2>2, <2>3
  <1> QED BY <1>1, <1>9, <1>10, <1>11, <1>12

\* What is known of the host's devices and of the request that was validated.
GPUKnown ==
    /\ host \in GPUHosts /\ (stage \notin Validated \cup {"err"} => host = in.host)
    /\ stage \in Validated => ValidateGPURequest(in.spec, in.envCDI, in.host)
    /\ stage \in Validated \ {"parse"} /\ in.driverCDI # <<>> => Blank \notin Range(in.driverCDI)

\* ParseDevices is passed on the way.
LEMMA DevicesParsed ==
    ASSUME [ConfNext]_confVars, stage' \in Validated \ {"parse"}, stage \notin Validated \ {"parse"}
    PROVE  in.driverCDI # <<>> => Blank \notin Range(in.driverCDI)
  <1>1. ParseDevices
    BY DEF ConfNext, Opening, Creating, confVars, Given, mountVars, OpenEngineWithConfig, ConfigFromMap,
           NewWithConfig, ValidateGPU, ParseDone, ParseEnds, NameChecked,
           WorkspaceChecked, ImagePresent, ParseNextMount, UploadTo, Upload, Pull, RequestContainer,
           PolicyHostPath, Replug, LoginElsewhere, Check, Goes, Fails, Validated
  <1> QED BY <1>1 DEF ParseDevices, Check, Fails, Validated

LEMMA GPUKnownStep ==
    ASSUME InputsKept, GPUKnown, [ConfNext]_confVars
    PROVE  GPUKnown'
  <1>1. in' = in
    BY InputsKeptStep
  <1>2. host' \in GPUHosts
    BY StageSteps, InputsAssumption DEF GPUKnown
  <1>3. stage' \notin Validated \cup {"err"} => host' = in.host
    BY StageSteps DEF GPUKnown
  <1>4. ASSUME stage' \in Validated PROVE ValidateGPURequest(in.spec, in.envCDI, in.host)
    <2>1. CASE stage \in Validated
      BY <2>1 DEF GPUKnown
    <2>2. CASE ValidateGPU /\ stage' = "parse"
      <3>1. stage = "opened" /\ ValidateGPURequest(in.spec, in.envCDI, host)
        BY <2>2 DEF ValidateGPU, Check, Fails
      <3>2. host = in.host
        BY <3>1 DEF GPUKnown, Validated
      <3> QED BY <3>1, <3>2
    <2> QED BY <1>4, <2>1, <2>2, StageSteps
  <1>5. ASSUME stage' \in Validated \ {"parse"}, in.driverCDI # <<>> PROVE Blank \notin Range(in.driverCDI)
    <2>1. CASE stage \in Validated \ {"parse"}
      BY <1>5, <2>1 DEF GPUKnown
    <2>2. CASE stage \notin Validated \ {"parse"}
      BY <1>5, <2>2, DevicesParsed
    <2> QED BY <2>1, <2>2
  <1> QED BY <1>1, <1>2, <1>3, <1>4, <1>5 DEF GPUKnown

\* Without blanks a list stays as it is.
LEMMA NoBlanks ==
    ASSUME NEW values \in Seq(Int), Blank \notin Range(values)
    PROVE  normalizedCDIDevices(values) = values
  <1>1. DOMAIN values = 1 .. Len(values)
    OBVIOUS
  <1>2. \A i \in DOMAIN values : NonBlank(values[i])
    BY DEF NonBlank, Range
  <1>3. {i \in DOMAIN values : NonBlank(values[i])} = 1 .. Len(values)
    BY <1>1, <1>2
  <1> QED BY <1>3, SelectAll DEF normalizedCDIDevices

LEMMA RequestDevices ==
    ASSUME InputsKept, GPUKnown, RequestContainer, in.spec.count > 0
    PROVE  /\ Len(Options.devices) <= in.spec.count
           /\ AllDevices \in Range(Options.devices) =>
                 AllDevices \in Range(Named) \/ (Named = <<>> /\ host.nodes = {})
           /\ in.spec.gpu /\ in.driverCDI = <<>> /\ host = in.host =>
                 Len(Options.devices) = in.spec.count
  <1>1. /\ in.spec \in [gpu : BOOLEAN, count : Int, cdi : Seq(Int), pids : Int]
        /\ in.envCDI \in Seq(Int) /\ in.driverCDI \in Seq(Int) /\ host \in GPUHosts
    BY InputsAssumption DEF InputsKept, GPUKnown
  <1>2. PICK spec : /\ spec = (IF in.driverCDI = <<>> THEN in.spec ELSE [in.spec EXCEPT !.cdi = in.driverCDI])
                    /\ Options.devices = DeviceRequestsForGPU(spec, in.envCDI, host)
    BY OptionsFacts
  <1>3. spec.count = in.spec.count /\ spec.gpu = in.spec.gpu /\ spec.cdi \in Seq(Int)
    BY <1>1, <1>2
  <1>4. in.spec.count \in Nat \ {0}
    BY <1>1
  <1>5. /\ Len(Options.devices) <= spec.count
        /\ AllDevices \in Range(Options.devices) =>
              \/ AllDevices \in Range(Explicit(spec, in.envCDI))
              \/ Explicit(spec, in.envCDI) = <<>> /\ host.nodes = {}
        /\ spec.gpu /\ ValidateGPURequest(spec, in.envCDI, host) => Len(Options.devices) = spec.count
    <2>1. in.envCDI \in Seq(Int) /\ host \in GPUHosts
      BY <1>1
    <2>2. spec.count \in Nat \ {0} /\ spec.cdi \in Seq(Int)
      BY <1>3, <1>4
    <2>3. Options.devices = DeviceRequestsForGPU(spec, in.envCDI, host)
      BY <1>2
    <2> QED BY <2>1, <2>2, <2>3, RequestedDevices, Zenon
  <1>6. in.driverCDI = <<>> /\ host = in.host => ValidateGPURequest(spec, in.envCDI, host)
    BY <1>2, RequestFacts DEF GPUKnown, Validated
  <1>7. Explicit(spec, in.envCDI) = Named
    <2>1. CASE in.driverCDI = <<>>
      BY <1>2, <2>1 DEF Named
    <2>2. CASE in.driverCDI # <<>>
      <3>1. Blank \notin Range(in.driverCDI)
        BY <2>2, RequestFacts DEF GPUKnown, Validated
      <3>2. normalizedCDIDevices(in.driverCDI) = in.driverCDI
        BY <1>1, <3>1, NoBlanks
      <3>3. spec.cdi = in.driverCDI
        BY <1>1, <1>2, <2>2
      <3> QED BY <2>2, <3>2, <3>3 DEF Named, Explicit
    <2> QED BY <2>1, <2>2
  <1> QED BY <1>3, <1>5, <1>6, <1>7

\* Create never asks for more devices than Spec.GPUCount, and for exactly that
\* many on the host the request was validated against (ValidateGPURequest,
\* DeviceRequestsForGPU), whatever ids are blank.  It asks for all of the host's
\* devices instead only if they were named so or the host has no numbered one.
THEOREM DevicesAsAskedThm == ConfSpec => []DevicesAsAsked
  <1>1. ConfInit => GPUKnown /\ DevicesAsAsked
    <2> SUFFICES ASSUME ConfInit PROVE GPUKnown /\ DevicesAsAsked
      OBVIOUS
    <2>1. in \in Inputs /\ host = in.host /\ stage = "open"
      BY DEF ConfInit
    <2> QED BY <2>1, InputsAssumption DEF GPUKnown, Validated, DevicesAsAsked, Created
  <1>2. InputsKept /\ GPUKnown /\ DevicesAsAsked /\ [ConfNext]_confVars => GPUKnown' /\ DevicesAsAsked'
    <2> SUFFICES ASSUME InputsKept, GPUKnown, DevicesAsAsked, [ConfNext]_confVars PROVE DevicesAsAsked'
      BY GPUKnownStep
    <2>0. in' = in
      BY InputsKeptStep
    <2>1. CASE ~RequestContainer
      <3>1. Named' = Named
        BY <2>0 DEF Named, Explicit
      <3> QED BY <2>0, <2>1, <3>1, OtherSteps DEF DevicesAsAsked, Created
    <2>2. CASE RequestContainer
      <3>1. host' = host
        BY <2>2, RequestFacts DEF Given
      <3>2. stage' = "created" => made'.devices = Options.devices
        <4>1. CASE made' = [Options EXCEPT !.mounts = [i \in DOMAIN mounts |-> EngineMount(mounts[i])]]
          BY <4>1, EngineMade
        <4>2. CASE made' = buildNativeSpec(Options, Userns, in.config.uid, in.config.gid)
          BY <4>2, NativeMade
        <4>3. CASE stage' = "err"
          BY <4>3
        <4> QED BY <2>2, <4>1, <4>2, <4>3, RequestFacts
      <3>3. Named' = Named
        BY <2>0 DEF Named, Explicit
      <3> QED BY <2>0, <2>2, <3>1, <3>2, <3>3, RequestDevices DEF DevicesAsAsked, Created
    <2> QED BY <2>1, <2>2
  <1> QED BY <1>1, <1>2, InputsInvariant, PTL DEF ConfSpec

-----------------------------------------------------------------------------
(* Names.                                                                   *)

\* The characters of a sanitized name.
Letters == {"a", "-"}

LEMMA KeptFacts ==
    ASSUME NEW T, NEW s \in Seq(T),
           NEW kept, kept = Selection(s, {i \in DOMAIN s : Kept(s[i])})
    PROVE  kept \in Seq(Letters) /\ (s \in Seq(Letters) => kept = s)
  <1>1. PICK S : S = {i \in DOMAIN s : Kept(s[i])}
    OBVIOUS
  <1>2. IsFiniteSet(S) /\ S \in SUBSET Nat
    BY <1>1, PositionsFinite
  <1>3. PICK n \in Nat : n = Cardinality(S)
    BY <1>2, FS_CardinalityType
  <1>4. IsSeq(kept) /\ Len(kept) = n /\ \A k \in 1 .. n : kept[k] = s[Ascending(S)[k]]
    <2>1. kept = Selection(s, S)
      BY <1>1
    <2>2. IsFiniteSet(S)
      BY <1>2
    <2>3. IsSeq(Selection(s, S))
      BY <2>2, SelectionFacts
    <2>4. Len(Selection(s, S)) = Cardinality(S)
      BY <2>2, SelectionFacts
    <2>5. ASSUME NEW k \in 1 .. n PROVE Selection(s, S)[k] = s[Ascending(S)[k]]
      BY <1>3, <2>2, SelectionFacts
    <2> QED BY <1>3, <2>1, <2>3, <2>4, <2>5
  <1>5. \A k \in 1 .. n : Ascending(S)[k] \in S
    BY <1>2, <1>3, AscendingInside
  <1>6. \A k \in 1 .. n : kept[k] \in Letters
    BY <1>1, <1>4, <1>5 DEF Kept, Letters
  <1>7. kept \in Seq(Letters)
    <2>1. PICK U : kept \in Seq(U)
      BY <1>4 DEF IsSeq
    <2> QED BY <1>4, <1>6, <2>1
  <1>8. ASSUME s \in Seq(Letters) PROVE kept = s
    <2>1. \A i \in DOMAIN s : Kept(s[i])
      BY <1>8 DEF Kept, Letters
    <2>2. S = 1 .. Len(s)
      BY <1>1, <2>1
    <2> QED BY <1>1, <2>2, SelectAll
  <1> QED BY <1>7, <1>8

\* TrimDashes cuts at both ends, and nothing where there is no dash.
LEMMA TrimFacts ==
    ASSUME NEW s \in Seq(Letters), NEW t, t = TrimDashes(s)
    PROVE  /\ t \in Seq(Letters)
           /\ t # <<>> => t[1] # "-" /\ t[Len(t)] # "-"
           /\ s # <<>> /\ s[1] # "-" /\ s[Len(s)] # "-" => t = s
  <1>1. PICK n \in Nat : n = Len(s) /\ DOMAIN s = 1 .. n
    OBVIOUS
  <1>2. PICK rest : rest = {i \in DOMAIN s : s[i] # "-"}
    OBVIOUS
  <1>3. t = IF rest = {} THEN <<>> ELSE SubSeq(s, Min(rest), Max(rest))
    BY <1>2 DEF TrimDashes
  <1>4. CASE rest = {}
    <2>1. t = <<>>
      BY <1>3, <1>4
    <2>2. s = <<>> \/ s[1] = "-"
      BY <1>1, <1>2, <1>4
    <2> QED BY <2>1, <2>2
  <1>5. CASE rest # {}
    <2>1. PICK a \in rest : a = Min(rest) /\ \A k \in rest : a <= k
      BY <1>1, <1>2, <1>5, MinMaxFacts
    <2>2. PICK b \in rest : b = Max(rest) /\ \A k \in rest : k <= b
      BY <1>1, <1>2, <1>5, MinMaxFacts
    <2>3. a \in 1 .. n /\ b \in 1 .. n /\ a <= b /\ s[a] # "-" /\ s[b] # "-"
      BY <1>1, <1>2, <2>1, <2>2
    <2>4. t = SubSeq(s, a, b)
      BY <1>3, <1>5, <2>1, <2>2
    <2>5. t \in Seq(Letters) /\ Len(t) = b - a + 1 /\ \A k \in 1 .. b - a + 1 : t[k] = s[a + k - 1]
      BY <1>1, <2>3, <2>4, SubSeqProperties
    <2>6. t[1] # "-" /\ t[Len(t)] # "-"
      <3>1. 1 \in 1 .. b - a + 1 /\ b - a + 1 \in 1 .. b - a + 1 /\ a + 1 - 1 = a /\ a + (b - a + 1) - 1 = b
        BY <2>3
      <3> QED BY <2>3, <2>5, <3>1
    <2>7. ASSUME s # <<>>, s[1] # "-", s[Len(s)] # "-" PROVE t = s
      <3>1. 1 \in 1 .. n /\ n \in 1 .. n
        BY <1>1, <2>7
      <3>2. 1 \in rest /\ n \in rest
        BY <1>1, <1>2, <2>7, <3>1
      <3>3. a = 1 /\ b = n
        BY <2>1, <2>2, <2>3, <3>2
      <3> QED BY <1>1, <2>4, <3>3
    <2> QED BY <2>5, <2>6, <2>7
  <1> QED BY <1>4, <1>5

LEMMA CutNameFacts ==
    ASSUME NEW s \in Seq(Letters), NEW c, c = Cut(s)
    PROVE  /\ c \in Seq(Letters) /\ Len(c) <= MaxName /\ (Len(s) <= MaxName => c = s)
           /\ Len(s) > MaxName => Len(c) = MaxName /\ c # <<>> /\ s # <<>> /\ c[1] = s[1]
  <1>1. PICK m \in Nat \ {0} : m = MaxName
    BY ConfigurationAssumption
  <1>2. c = IF Len(s) > m THEN SubSeq(s, 1, m) ELSE s
    BY <1>1 DEF Cut
  <1>3. CASE Len(s) > m
    BY <1>1, <1>2, <1>3
  <1>4. CASE ~(Len(s) > m)
    BY <1>1, <1>2, <1>4
  <1> QED BY <1>3, <1>4

\* A name that is sanitized again stays as it is, unless its last dash was
\* uncovered by the cut.
LEMMA SanitizedTwice ==
    ASSUME NEW T, NEW s \in Seq(T), NEW n, n = sanitizeName(s), n # <<>>,
           ~(Len(n) = MaxName /\ Last(n) = "-")
    PROVE  sanitizeName(n) = n
  <1>1. PICK lower : lower = [i \in DOMAIN s |-> Lower(s[i])]
    OBVIOUS
  <1>2. PICK U : lower \in Seq(U)
    <2>1. PICK L \in Nat : DOMAIN s = 1 .. L
      OBVIOUS
    <2>2. PICK V : V = {Lower(s[i]) : i \in 1 .. L}
      OBVIOUS
    <2>3. lower \in [1 .. L -> V]
      BY <1>1, <2>1, <2>2
    <2>4. lower \in Seq(V)
      BY <2>3
    <2> QED BY <2>4
  <1>3. PICK kept : kept = Selection(lower, {i \in DOMAIN lower : Kept(lower[i])})
    OBVIOUS
  <1>4. kept \in Seq(Letters)
    BY <1>2, <1>3, KeptFacts
  <1>5. PICK trimmed : trimmed = TrimDashes(kept)
    OBVIOUS
  <1>6. trimmed \in Seq(Letters) /\ (trimmed # <<>> => trimmed[1] # "-" /\ trimmed[Len(trimmed)] # "-")
    BY <1>4, <1>5, TrimFacts
  <1>7. n = Cut(trimmed)
    BY <1>1, <1>3, <1>5 DEF sanitizeName
  <1>8. n \in Seq(Letters) /\ Len(n) <= MaxName
    BY <1>6, <1>7, CutNameFacts
  <1>9. n[1] # "-" /\ n[Len(n)] # "-"
    <2>0. MaxName \in Nat /\ Len(trimmed) \in Nat
      BY <1>6, ConfigurationAssumption
    <2>1. CASE Len(trimmed) <= MaxName
      <3>1. n = trimmed
        BY <1>6, <1>7, <2>1, CutNameFacts
      <3> QED BY <1>6, <3>1
    <2>2. CASE Len(trimmed) > MaxName
      <3>1. Len(n) = MaxName /\ trimmed # <<>> /\ n[1] = trimmed[1]
        BY <1>6, <1>7, <2>2, CutNameFacts
      <3> QED BY <1>6, <3>1 DEF Last
    <2> QED BY <2>0, <2>1, <2>2
  <1>10. [i \in DOMAIN n |-> Lower(n[i])] = n
    <2>1. \A i \in DOMAIN n : n[i] \in Letters
      BY <1>8
    <2>2. \A i \in DOMAIN n : Lower(n[i]) = n[i]
      BY <2>1 DEF Lower, Letters
    <2> QED BY <1>8, <2>2
  <1>11. Selection(n, {i \in DOMAIN n : Kept(n[i])}) = n
    BY <1>8, KeptFacts
  <1>12. TrimDashes(n) = n
    BY <1>8, <1>9, TrimFacts
  <1>13. Cut(n) = n
    BY <1>8, CutNameFacts
  <1>14. PICK again : again = [i \in DOMAIN n |-> Lower(n[i])]
    OBVIOUS
  <1>15. sanitizeName(n) = Cut(TrimDashes(Selection(again, {i \in DOMAIN again : Kept(again[i])})))
    BY <1>14 DEF sanitizeName
  <1>16. again = n
    BY <1>10, <1>14
  <1>17. sanitizeName(n) = Cut(TrimDashes(Selection(n, {i \in DOMAIN n : Kept(n[i])})))
    BY <1>15, <1>16
  <1> QED BY <1>11, <1>12, <1>13, <1>17

\* There is nothing to keep of an empty name.
LEMMA SanitizedEmpty == sanitizeName(<<>>) = <<>>
  <1>1. PICK lower : lower = [i \in DOMAIN <<>> |-> Lower(<<>>[i])]
    OBVIOUS
  <1>2. lower = <<>>
    BY <1>1
  <1>3. sanitizeName(<<>>) = Cut(TrimDashes(Selection(lower, {i \in DOMAIN lower : Kept(lower[i])})))
    BY <1>1 DEF sanitizeName
  <1>4. Selection(lower, {i \in DOMAIN lower : Kept(lower[i])}) = <<>>
    <2>1. <<>> \in Seq(Letters)
      OBVIOUS
    <2> QED BY <1>2, <2>1, KeptFacts
  <1>5. TrimDashes(<<>>) = <<>>
    BY DEF TrimDashes
  <1>6. Cut(<<>>) = <<>>
    <2>1. <<>> \in Seq(Letters) /\ Len(<<>>) <= MaxName
      BY ConfigurationAssumption
    <2> QED BY <2>1, CutNameFacts
  <1> QED BY <1>3, <1>4, <1>5, <1>6

\* The name of the container and the one that is looked up.
NamesKnown ==
    /\ Created => made.name = sanitizeName(in.name)
    /\ found # <<>> => Created /\ found = sanitizeName(made.name)

LEMMA NamesKnownStep ==
    ASSUME NamesKnown, [ConfNext]_confVars
    PROVE  NamesKnown'
  <1>1. in' = in
    BY InputsKeptStep
  <1>2. CASE RequestContainer
    <2>1. stage = "build" /\ found' = found
      BY <1>2, RequestFacts
    <2>2. found' = <<>>
      BY <2>1 DEF NamesKnown, Created
    <2>3. stage' = "created" => made'.name = sanitizeName(in.name)
      <3>1. CASE made' = [Options EXCEPT !.mounts = [i \in DOMAIN mounts |-> EngineMount(mounts[i])]]
        BY <3>1, EngineMade, OptionsFacts
      <3>2. CASE made' = buildNativeSpec(Options, Userns, in.config.uid, in.config.gid)
        BY <3>2, NativeMade, OptionsFacts
      <3>3. CASE stage' = "err"
        BY <3>3
      <3> QED BY <1>2, <3>1, <3>2, <3>3, RequestFacts
    <2> QED BY <1>1, <2>2, <2>3 DEF NamesKnown, Created
  <1>3. CASE PolicyHostPath
    BY <1>1, <1>3 DEF PolicyHostPath, NamesKnown, Created
  <1>4. CASE ~RequestContainer /\ ~PolicyHostPath
    <2>1. made' = made /\ (stage' = "created" <=> stage = "created")
      BY <1>4, OtherSteps
    <2>2. found' = found
      BY <1>4 DEF ConfNext, Opening, Creating, confVars, OpenEngineWithConfig, ConfigFromMap,
         NewWithConfig, ValidateGPU, ParseDevices, ParseDone, NameChecked,
         WorkspaceChecked, ImagePresent, ParseNextMount, UploadTo, Pull,
         Replug, LoginElsewhere, Check, Goes, Fails
    <2> QED BY <1>1, <2>1, <2>2 DEF NamesKnown, Created
  <1> QED BY <1>2, <1>3, <1>4

\* PolicyHostPath looks a sandbox up under the very name Create gave it, for names
\* of any characters and length, unless the cut to MaxName left a dash at the end.
THEOREM NameFoundAgainThm == ConfSpec => []NameFoundAgain
  <1>1. ConfInit => NamesKnown
    BY DEF ConfInit, NamesKnown, Created
  <1>2. InputsKept /\ NamesKnown => NameFoundAgain
    <2> SUFFICES ASSUME InputsKept, NamesKnown, found # <<>>,
                        ~(Len(made.name) = MaxName /\ Last(made.name) = "-")
                 PROVE  found = made.name
      BY DEF NameFoundAgain
    <2>1. made.name = sanitizeName(in.name) /\ found = sanitizeName(made.name)
      BY DEF NamesKnown
    <2>2. in.name \in Seq(STRING)
      BY InputsAssumption DEF InputsKept
    <2>3. CASE made.name # <<>>
      BY <2>1, <2>2, <2>3, SanitizedTwice
    <2>4. CASE made.name = <<>>
      BY <2>1, <2>4, SanitizedEmpty
    <2> QED BY <2>3, <2>4
  <1> QED BY <1>1, <1>2, NamesKnownStep, InputsInvariant, PTL DEF ConfSpec
=============================================================================
