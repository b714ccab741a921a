-------------------------- MODULE MCConfiguration --------------------------
(***************************************************************************)
(* Instance of Configuration for TLC: a configuration and a Spec in which   *)
(* nothing is asked for, varied in one respect at a time.                   *)
(***************************************************************************)
EXTENDS Configuration

SomeReserved == {<<"cauteum">>, <<"run", "cauteum">>}
SomeProtected == {<<"opt", "cauteum">>}
TheWorkspace == <<"workspace">>
TheHome == <<"home", "u">>
\* Together they form a chain and, the first and the last, a circle.
SomeLinks ==
    {<<<<"home", "w">>, <<"home", "u", ".ssh">>>>, <<<<"w">>, <<"home">>>>,
     <<<<"home", "u", ".ssh">>, <<"home", "w">>>>}
HomeLinks == {<<<<"home">>, <<"w">>>>}
SomeFormPaths ==
    {[abs |-> TRUE, parts |-> <<"opt">>], [abs |-> TRUE, parts |-> <<"workspace", "opt">>]}
Sound == [k \in AuthKeys |-> IF k = "quay.io" THEN "good" ELSE "no"]
SomeContents ==
    {Sound,
     [k \in AuthKeys |-> IF k = "quay.io" THEN "no" ELSE "good"],
     [k \in AuthKeys |-> IF k = "docker.io" THEN "bad" ELSE "good"]}
SomeHosts == [nodes : {{}, {0}, {2, 10, 11}}, dxg : {FALSE}] \cup [nodes : {{}}, dxg : {TRUE}]

NoMode == [mode |-> "", params |-> "none"]
PlainConfig ==
    [unknown |-> FALSE, typed |-> TRUE, gatewayIP |-> TRUE, egress |-> "", pids |-> 0,
     tls |-> [set |-> {}, clean |-> TRUE], inRange |-> TRUE, policy |-> "", namespace |-> TRUE,
     userns |-> NoMode, uid |-> <<>>, gid |-> <<>>, proxy |-> NoProxyConfig,
     socket |-> "", ssh |-> "", binds |-> TRUE]
Plain ==
    [facet |-> "none", kind |-> "docker", config |-> PlainConfig,
     spec |-> [gpu |-> FALSE, count |-> 0, cdi |-> <<>>, pids |-> 0],
     envCDI |-> <<>>, envPids |-> [kind |-> "unset", n |-> 0], driverCDI |-> <<>>,
     host |-> [nodes |-> {}, dxg |-> FALSE], name |-> <<"a">>,
     workspace |-> <<"w">>, links |-> {}, iKnow |-> FALSE, registry |-> "quay.io",
     files |-> [s \in {"config", "env", "xdg", "home"} |-> Other("unset")],
     dockerFile |-> AFile(NoAuths), envHost |-> TRUE, discovered |-> FALSE]

Engines == {"docker", "podman"}
Varied(c) == {[Plain EXCEPT !.kind = k, !.config = c] : k \in Engines}

Kinds == {[Plain EXCEPT !.kind = k] :
             k \in {"", "podman", "vm", "microvm", "kubernetes", "k8s", "other"}}

Configs == UNION {Varied(c) :
    c \in {[PlainConfig EXCEPT !.proxy = p] : p \in ProxyConfigs}
       \cup {[PlainConfig EXCEPT !.policy = p] : p \in {"if_not_present", "always", "newer", "often"}}
       \cup {[PlainConfig EXCEPT !.tls = [set |-> s, clean |-> b]] :
                s \in SUBSET {"ca", "cert", "key"}, b \in BOOLEAN}
       \cup {[PlainConfig EXCEPT !.egress = e] : e \in {"unclean", "bad", "good"}}
       \cup {[PlainConfig EXCEPT !.unknown = TRUE], [PlainConfig EXCEPT !.typed = FALSE],
             [PlainConfig EXCEPT !.gatewayIP = FALSE], [PlainConfig EXCEPT !.inRange = FALSE],
             [PlainConfig EXCEPT !.namespace = FALSE], [PlainConfig EXCEPT !.ssh = "unclean"]}
       \cup {[PlainConfig EXCEPT !.socket = s] : s \in {"bad", "dead", "alive"}}}

Sockets == {[Plain EXCEPT !.kind = "podman", !.envHost = e, !.discovered = d] : e, d \in BOOLEAN}

\* SomeMaps of up to two entries at and around the end of the ids.
Entry == [cid |-> 0, hid |-> 1, size |-> 1]
SomeMaps == {<<>>, <<Entry>>} \cup {<<Entry, e>> : e \in [cid : {0, 3}, hid : {2, 4}, size : 0 .. 2]}
Userns ==
    {[Plain EXCEPT !.kind = "podman",
                   !.config = [PlainConfig EXCEPT !.userns = m, !.uid = u, !.gid = g]] :
        m \in Modes, u \in SomeMaps, g \in {<<>>, <<Entry>>, <<Entry, Entry>>}}
    \cup {[Plain EXCEPT !.config.userns = m] : m \in Modes}

Pids == {[Plain EXCEPT !.config.pids = c, !.spec.pids = s, !.envPids = e] :
            c \in {-1, 0, 3}, s \in {-1, 0, 2},
            e \in [kind : {"unset", "bad"}, n : {0}] \cup [kind : {"number"}, n : {-1, 0, 4}]}

Lists == {<<>>, <<0>>, <<AllDevices>>, <<Blank, 1>>, <<0, 1>>}
GPUs == {[Plain EXCEPT !.facet = "gpu", !.spec = [gpu |-> g, count |-> n, cdi |-> c, pids |-> 0],
                       !.envCDI = e, !.driverCDI = d, !.host = h] :
            g \in BOOLEAN, n \in -1 .. 3, c \in Lists, e \in {<<>>, <<Blank, 1>>}, d \in {<<>>, <<0>>, <<AllDevices, 0>>, <<Blank, 1>>},
            h \in SomeHosts}

\* All names with one character more than is kept.
NameChars == {"a", "A", "-", "_", " ", "."}
SomeNames == {[Plain EXCEPT !.name = n] : n \in [1 .. MaxName + 1 -> NameChars] \cup {<<>>}}

Workspaces == {[Plain EXCEPT !.workspace = p, !.links = l, !.iKnow = b] :
                  p \in HostPaths, l \in SUBSET SomeLinks, b \in BOOLEAN}

SomeAuthFiles == [config : {Other("unset"), Other("broken"), AFile(Sound)},
              env : {Other("unset"), Other("absent")},
              xdg : Files \cup {Other("absent"), Other("unavailable"), Other("broken"), Other("garbled")},
              home : {Other("absent")}]
Auths ==
    {[Plain EXCEPT !.facet = "auth", !.registry = r, !.dockerFile = d] :
        r \in {"docker.io", "quay.io"}, d \in Files \cup {Other("broken")}}
    \cup {[Plain EXCEPT !.facet = "auth", !.kind = "podman", !.registry = r, !.files = f, !.dockerFile = AFile(Sound)] :
             r \in {"docker.io", "quay.io"}, f \in SomeAuthFiles}

MountInputs == {[Plain EXCEPT !.facet = "mounts", !.kind = k, !.config.binds = b, !.config.userns.mode = m] :
                   k \in Engines, b \in BOOLEAN, m \in {"", "keep-id"}}

SomeInputs ==
    Kinds \cup Configs \cup Sockets \cup Userns \cup Pids \cup GPUs \cup SomeNames \cup Workspaces
    \cup Auths \cup MountInputs \cup {[Plain EXCEPT !.facet = "uploads"]}

\* A home directory behind a link.
HomeInputs == {[Plain EXCEPT !.workspace = p, !.links = l] : p \in HostPaths, l \in SUBSET HomeLinks}

\* A GPU nobody asked for.
BlankInputs == {[Plain EXCEPT !.spec.cdi = c] : c \in Lists \cup {<<Blank>>}}
=============================================================================
