---------------------------- MODULE DriverConfig ----------------------------
(***************************************************************************)
(* The drivers' configuration: the maps that internal/docker/config.go and  *)
(* internal/podman/config.go decode and check, each with its own code, and  *)
(* the settings Create derives from them (resources.go, runtime_config.go,  *)
(* podman.go).  A file is what the checks find out about it.                *)
(***************************************************************************)
EXTENDS Integers, Sequences, FiniteSets

CONSTANT IDBits      \* width of a user or group id (32)

\* The second part follows from the first; the provers know nothing of powers.
ASSUME DriverConfigAssumption == IDBits \in Nat /\ 2 ^ IDBits \in Nat \ {0}

\* The fields that restrict each other.  A path that is not absolute and clean
\* is "unclean", a URL without host and port or with credentials is "bad".
ProxyConfigs ==
    [url : {"", "http", "https", "bad"}, noProxy : BOOLEAN,
     auth : {"", "unclean", "bad", "good"}, insecure : {"unset", "true", "false"},
     byHost : {"unset", "true", "false"}, ca : {"", "unclean", "bad", "good"}]

NoProxyConfig ==
    [url |-> "", noProxy |-> FALSE, auth |-> "", insecure |-> "unset", byHost |-> "unset", ca |-> ""]

\* internal/docker/config.go: an explicit false is the same as none.
validateUpstreamProxyConfig(c) ==
    /\ c.url # "bad"
    /\ c.noProxy => c.url # ""
    /\ IF c.auth # ""
       THEN c.auth = "good" /\ c.url # "" /\ (c.url = "https" \/ c.insecure = "true")
       ELSE c.insecure # "true"
    /\ c.byHost = "true" => c.url # ""
    /\ c.ca # "" => c.ca = "good" /\ c.url # ""

\* Mutant: an http proxy is sent credentials by default.
ProxyInsecureByDefault(c) ==
    /\ c.url # "bad"
    /\ c.noProxy => c.url # ""
    /\ IF c.auth # ""
       THEN c.auth = "good" /\ c.url # "" /\ (c.url = "https" \/ c.insecure # "false")
       ELSE c.insecure = "unset"
    /\ c.byHost # "unset" => c.url # ""
    /\ c.ca # "" => c.ca = "good" /\ c.url # ""

\* internal/podman/config.go: a field that is set needs the field it is about.
validateProxyConfig(c) ==
    /\ c.url # "bad"
    /\ c.noProxy => c.url # ""
    /\ IF c.auth # ""
       THEN c.auth = "good" /\ c.url # "" /\ (c.url = "https" \/ c.insecure = "true")
       ELSE c.insecure = "unset"
    /\ c.byHost # "unset" => c.url # ""
    /\ c.ca # "" => c.ca = "good" /\ c.url # ""

\* Of guest_tls_ca, guest_tls_cert and guest_tls_key: all or none, and clean.
validateGuestTLSPaths(tls) == tls.clean /\ tls.set \in {{}, {"ca", "cert", "key"}}

\* The spellings of if-not-present; an empty policy stays empty.
NormalizeImagePullPolicy(p) ==
    IF p \in {"ifnotpresent", "if-not-present", "if_not_present"} THEN "missing" ELSE p
ValidPolicy(p) == NormalizeImagePullPolicy(p) \in {"", "missing", "always", "never", "newer"}

-----------------------------------------------------------------------------
(* Podman's user namespaces.                                                *)

\* A mode and what follows its colon: nothing, "" for blanks, or parameters.
Modes == [mode : {"", "AUTO", "auto", "keep-id", "host", "nomap", "no-map", "private", "other"},
          params : {"none", "", "some"}]

\* Mutant: the two spellings of no-map are told apart.
CanonicalKeepsNomap(m) == IF m.mode = "AUTO" THEN [m EXCEPT !.mode = "auto"] ELSE m

\* One spelling for each mode, in lower case.
canonicalUsernsMode(m) ==
    CASE m.mode = "nomap" -> [m EXCEPT !.mode = "no-map"]
      [] m.mode = "AUTO" -> [m EXCEPT !.mode = "auto"]
      [] OTHER -> m

ValidMode(m) ==
    \/ m.mode = ""
    \/ m.mode \in {"AUTO", "auto", "keep-id"} /\ m.params # ""
    \/ m.mode \in {"host", "nomap", "no-map", "private"} /\ m.params = "none"

\* container_id:host_id:size, each parsed as an unsigned number of the width.
idMapListValue(list) ==
    \A i \in DOMAIN list :
        /\ list[i].cid < 2 ^ IDBits /\ list[i].hid < 2 ^ IDBits /\ list[i].size < 2 ^ IDBits
        /\ list[i].size > 0

\* ConfigFromMap and, again, NewWithConfig.
MapsFollowMode(m, uid, gid) ==
    IF canonicalUsernsMode(m).mode = "private" THEN uid # <<>> /\ gid # <<>>
    ELSE uid = <<>> /\ gid = <<>>

-----------------------------------------------------------------------------
(* The process limit.                                                       *)

DefaultPids == 7     \* defaults.SandboxPidsLimit
Unlimited == 0       \* a nil limit

configuredPidsLimit(spec, config) == IF spec # 0 THEN spec ELSE config

\* env: CAUTEUM_SANDBOX_PIDS_LIMIT, unset, no number, or a number.
resolvePidsLimit(limit, env) ==
    CASE limit < 0 -> Unlimited
      [] limit > 0 -> limit
      [] OTHER -> IF env.kind # "number" \/ env.n < 0 THEN DefaultPids
                  ELSE IF env.n = 0 THEN Unlimited ELSE env.n
=============================================================================
