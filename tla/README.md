# A TLA+ model of cauteum-driver

cauteum-driver implements `ComputeDriver`: it provisions sandboxes as containers
of a Docker or Podman engine, puts a policy proxy (the *sidecar*) between a
sandbox and the network, runs commands in it, copies files in and out, and
follows its logs. This directory models that code in TLA+, model-checks it with
TLC and proves its central properties with TLAPS.

    tlc -config MCSandboxSerial.cfg MCSandbox     # one of the runs of PROJECT.json
    tlapm SandboxProofs.tla                       # the proofs of a module

`PROJECT.json` lists components, runs, mutants, the source lines each definition
models, findings, hazards and theorems. File names below are relative to `src/`;
`docker.go` is `internal/docker/docker.go`.

## The system

| Component | State it keeps | Operations | What is hard |
|---|---|---|---|
| Lifecycle (`docker.go`) | none of its own: containers, a network and up to three volumes *in the engine*, found again by name and label | Create, Start, Stop, Delete | up to a dozen engine calls per operation; failures between them; a rollback and removals whose results are ignored; callers that are not synchronised |
| Podman networks (`internal/podman/libpod_network.go`) | none; the engine's networks | choose a subnet, create, verify, remove | the list is stale when it is used; retries; pool edges |
| Exec (`docker.go`, `resize_unix.go`) | the host terminal's mode, three goroutines | Exec | goroutines that outlive the call, raw mode on every error path |
| Logs (`docker.go`) | two pipes, five goroutines, two channels, a lock | Logs | selects that race, reports nobody receives, blocked writers |
| CopyTo (`docker.go`) | a pipe and a writer goroutine | CopyTo | archives that look complete, mutual waiting |
| CopyFrom (`docker.go`) | the destination directory | CopyFrom | archive names that are not clean, links in the destination or put there meanwhile |
| Images, RunProbe (`docker.go`) | the engine's tags; a helper container | ensureImage, pullImage, pullAs, RunProbe | tags that move between inspection and use; clean-up with a cancelled context |
| Cached binaries (`internal/sidecar/sidecar.go`) | a file in the user's cache | EnsureLinuxCLI, -Init, -SSHD, -Agent | no lock, written in place, file times compared with sources that people edit |
| EnsureSSHDaemon (`docker.go`) | a daemon and its socket in the sandbox | start, poll | a socket outlives its daemon, sandboxes are stopped meanwhile, a deadline |
| Paths (`internal/mounts`, `driver_config.go`) | none | mount, upload and workspace validation | overlap in both directions, spellings, symbolic links |
| Driver configuration (`internal/docker/config.go`, `internal/podman/config.go`, `podman.go`, `driver/open.go`) | none | OpenEngineWithConfig, ConfigFromMap, NewWithConfig | the same settings are checked by separate code, more than once |
| Container specification (`gpu.go`, `resources.go`, `libpod_create.go`, `policy_path.go`) | none | GPU devices, limits, names, translation for libpod | what is checked and what is used are computed apart; id ranges at the end of 32 bits |
| Registry credentials (`internal/*/registry_auth.go`) | files of other programs | podmanRegistryAuth, dockerRegistryAuth | a search over several files that change meanwhile |
| Environment, certificate bundles, log options | none | formatting | |
| VM and Kubernetes drivers | none | stubs that return errors | |

Opening a driver decodes and checks its configuration. The lifecycle checks the
Spec, and calls the image code, which asks for credentials, before it makes
anything; the network code
through hooks when the driver is Podman's, and the readiness waits of the sidecar
before it creates the sandbox. All components share only the engine; there is no
lock and no process-wide state in the driver. What makes them correct: a sandbox
exists with all its parts or not at all; a proxied sandbox never runs on a network
that bypasses its proxy; no operation touches another sandbox; `nil` means that
the thing was done; the terminal is given back; whatever is begun ends; what was
checked is what is used.

## Modules

| Module | Models | Extends |
|---|---|---|
| `Engine` | the engine API as the driver uses it (external) | |
| `Sandbox` | Create with rollback, Start, Stop, Delete, one step per engine call | `Engine` |
| `SandboxService` | abstract specification: sandboxes appear, start, stop and go in one step | |
| `MCSandbox` | names and Specs for TLC | `Sandbox` |
| `SandboxProofs`, `WholenessProofs` | theorems about `Sandbox`: identity, refinement, confinement; what operations leave behind | `Sandbox` |
| `LibpodNetwork`, `MCLibpodNetwork`, `LibpodProofs` | subnet allocation, creation, verification | |
| `Exec`, `ExecProofs` | Exec and its goroutines | |
| `Logs`, `LogsProofs` | Logs and its goroutines | |
| `CopyTo` | upload of a tree | |
| `CopyFrom` | extraction of an archive | |
| `CopyProofs` | theorems about both | `CopyTo`, `CopyFrom` |
| `MCStreams` | a copy in, then a copy out or the logs, for TLC | `CopyTo`, `CopyFrom`, `Logs` |
| `Image` | pull policies, pulls, tags, pinning | |
| `Probe` | RunProbe and its helper container | `Image` |
| `LinuxBinary` | the cached binaries | |
| `SSHDaemon` | EnsureSSHDaemon, rawExec | |
| `Helpers`, `HelperProofs` | composition of the calls around a sandbox | `Probe`, `LinuxBinary`, `SSHDaemon` |
| `Mounts` | mounts, uploads, workspace | |
| `GPU` | GPU requests and devices | |
| `DriverConfig` | the checks of both drivers' configurations, limits | |
| `NativeSpec` | a container in libpod's terms | `DriverConfig` |
| `RegistryAuth` | the credentials of a pull | |
| `Configuration`, `ConfigurationProofs` | composition: from a configuration and a Spec to the container that is asked for | `Mounts`, `GPU`, `NativeSpec`, `RegistryAuth` |
| `MCConfiguration` | inputs for TLC | `Configuration` |

### Engine and Sandbox

`ctrs`, `nets`, `vols` are the managed containers with their labels, the mode of
the network `cauteum-<name>`, and the named volumes. `op[c]` holds the locals of
the operation caller `c` runs: `networkCreated`, `createdVolumes`, `proxyCreated`
are `net`, `made`, `proxy`; `live` is the caller's context. Every engine call is a
step, so that other callers, a failure (`CallFails`), an answer that is lost after
the effect (the second half of `Reply`), a cancelled context (`CallCancelled`) or
the death of the process (`Crash`) can come between any two. The rollback runs
with a context that survives cancellation (`Alive`), createProxySidecar's own undo
and Delete do not, as in the code. `spoiled` is a history variable: the names for
which a removal itself failed, an answer was lost or a process died, i.e. where
the driver has no means left to clean up.

Abstractions. The data and SSH host keys, environment, limits and the text of
errors are left out. Rollback visits `createdVolumes` in Go's map order; the
removals commute, and the model uses one order. A network is pinned by running
containers (Podman also by stopped ones; the removals of the driver come after
those of the containers either way). Start and Stop are one step, because each
changes the engine with one call. The checks of Create before its first resource
(host paths, policy, image) are one failure step, `CallFails` at `check`; the
image itself is modelled in `Image`. The labels are the driver's own. A network is
plain, internal (routed nowhere, but with its gateway on the host) or isolated;
one that Podman made for a proxied sandbox may be either of the last two
(`NewModes`), and may stay, unverified, when the verification or its removal
fails. How Podman makes it is `LibpodNetwork`'s.

### The other modules

`LibpodNetwork` has addresses as numbers: a pool of `Blocks` blocks of `BlockSize`,
foreign networks larger and smaller than a block, a hash that selects where the
search starts (any), the list as it was when read (`listed`) and the networks as
they are when posted. `Exec` has one record per Exec, since its goroutines
outlive it; it assumes that one terminal Exec runs at a time, which is how the
repository's callers use it. `CopyTo` lets the engine accept an archive at its
trailer or at the end of the stream, which is what a tar reader does. A file that
shrinks after its header was written is an error at the next header only; after the
last one the trailer fails unnoticed, and it is the engine that meets an archive cut
short (`EntryShrinks`). `CopyFrom`
represents a name as its components, with `.`, `..` and empty ones; `Mounts` does
the same with paths as callers spell them. The look for links, MkdirAll and OpenFile
are steps of their own, and another program may replace anything by a link between
them (`OtherLink`). os.Root, which is external, refuses a link that leads out of the
destination and follows one that does not; `late` and `through` remember which
links appeared since the look and which were followed.

`Probe` continues `Image` where a prober has its image: the helper is created from
the reference, every request may fail with or without its effect, and `known`
says whether the removal is deferred yet. `LinuxBinary` has a clock for file times;
`raced` is a history field of the file: the sources changed while it was built, or
without a newer time. `SSHDaemon` has the socket file as none, stale or live, since
it lies in a volume and outlives its daemon; cauteum-sshd itself is external and
known from what EnsureSSHDaemon's comment says of it. A poll is the request, the copy
of its stream and the question for its status, apart. `Helpers` puts the three
side by side. They share no state, so a behaviour exercises one of them (`part`).

`Configuration` is the path from `OpenEngineWithConfig` to the request for the
sandbox's container, one action per check, in the code's order: `stage` is how far
it has come and `why` the check that failed. Between two checks the outside
changes: credential files (`LoginElsewhere`), device nodes (`Replug`). The search for
Podman's credential file, each os.Stat, the check, the reading and the match are
steps of `RegistryAuth`; `past` remembers what the files were during the call. The
links of the host are a set of pairs, followed one after the other up to
`MaxFollowed` times. A setting is
represented by what the checks find out about it (a path that is clean or not, a
file that can be used or not); numbers, devices, names, paths, modes and id maps
are themselves, with `IDBits` and `MaxName` in place of 32 and 63. `made` is the
container as far as the properties speak of it. The engine calls of Create between
these checks are `Sandbox`'s; the two modules meet at `Sandbox`'s step `check`
and at its `SandboxCreate`.

## Runs

| Run | Instance | Shows |
|---|---|---|
| `lifecycle` | 1 name, 2 callers taking turns, native hooks, all Specs, 2 faults of any kind | all-or-nothing, egress confinement, sidecar kept, only Delete removes, data outlives a failed Create, Delete completes |
| `lifecycle_race` | 1 name, 2 callers unsynchronised, a failure or cancellation | refinement of `SandboxService`; every operation returns |
| `podman_networks` | 3 creators, 3 blocks, 3 attempts, 1 foreign network | retries are caused by races only, "full" is true, the retries suffice |
| `exec` | 2 Execs in sequence, 2 keys | the terminal is restored, output comes before the status, at most one read is stolen; a hang-up ends the call, resize goroutines end |
| `streams` | 5 entries in; then 3 entries out, names of up to 2 components, 20 destinations, 1 link put there meanwhile; or 2 log streams of up to 2 lines | nil means copied, the call ends; below the root, one file in file mode, no link followed that was there to be seen; nil means all lines, cancellation ends the call and the scanners |
| `helpers` | a Create and a probe, 2 digests, 1 foreign move of the tag; 2 builds, 2 edits; 2 EnsureSSHDaemon calls, 1 stop | the user belongs to the image that runs; a probe's helper is removed, a cancelled probe returns; binaries are current and whole; nil means a daemon was there, the call returns |
| `configuration` | 9,055 combinations of configuration, Spec and environment, one respect varied at a time; paths of up to 3 components, 2 mounts, 2 changes of credential files | reserved paths untouched by mounts and uploads; credentials of the right registry and never a silent fallback; as many devices as counted; the separate checks agree; id maps do not wrap; read-only and names are kept |

Bounds. Two faults are enough for a failure together with a failure of its
clean-up, which is the longest chain the code handles; two callers are enough for
every race on a name, since each read of shared state is invalidated by one other
writer, or by a Delete and a Create of one other caller. Four container ids
(`MaxId`) are two proxied sandboxes, so that a name is used, deleted and reused.
`MaxPolls` stands for readinessTimeout over the poll interval. Three creators and
a foreign network can take a block from under a caller as often as it retries.
Non-interference between different names is the theorem
`OnlyDeleteRemovesThm`. One Exec following another shows what a goroutine left behind can do; the proofs
lift the bound. The paths have room for a reserved path with a parent and a child.
In `configuration` the inputs (`SomeInputs`) vary one respect of a plain
configuration at a time, because the checks of different respects do not read each
other's settings; within a respect all combinations are tried: the 1,152 proxy
settings with both drivers, all user namespace modes with id maps of up to two
entries at and around the last id of a 2-bit range, GPU flag, count, five device
lists and four hosts, all names of `MaxName` + 1 characters, all workspaces of
three components with every set of links (a chain and a circle among them, for which
four steps of `MaxFollowed` are enough), every mount and upload spelling. Two changes
of credential files let a file that was found vanish, or change, and come back. In
CopyFrom three entries let a directory or a file be met again by a later entry, and
one link put there between two steps is enough for each of the windows. A tree of five
entries lets `CopyTo` fail before, in and after its middle. Two edits and three
clock values let a source change before, during and after a build and in the same tick.

Deadlock checking is off in all runs: calls end, and the bounded sets of ids,
faults and calls run out.

Each property of a passing run has a mutant: an operator, defined before the
definition it stands in for, that changes it as a plausible bug would and under
which TLC finds the property violated.

### Fairness

`Sandbox`: weak fairness of each caller's next step, for every engine call
answers or fails (the client's requests carry a context and a connection that
breaks is an error). The waits poll until a deadline. Nobody has to begin an
operation, and no fault has to happen. `Logs`, `Exec`, `CopyTo`: weak fairness of each goroutine that can run,
which the Go scheduler provides; the writer the caller passed in need not accept a
line, nobody has to type, the command need not exit and the stream need not end,
so the liveness properties name the cancellation or the hang-up they start from.
`Probe`: each prober's requests are answered or fail; the helper need not end.
`SSHDaemon`: the same, and strong fairness of `Deadline`, because the loop is at its
head again and again while the clock goes on. The copy of a poll's stream
(docker.go:1399) has neither deadline nor context; that it ends (`StreamEnds`) is
assumed of the engine, which closes the stream of an exec with its process. The waits
for the sidecar rest on the same. `LibpodNetwork`, `LinuxBinary` and
`Configuration` have safety properties only.

### Findings

Five runs are expected to find a violation; `PROJECT.json` quotes the lines.

1. `cancelled_create`: a context that is cancelled while the sidecar is connected,
   started or polled leaves the sidecar, and the CA volume it mounts. In the trace
   the context is cancelled before the sidecar is connected: it does not run, and
   the rollback removes the network from under it. Once it runs, the removal of the
   network is refused as well.
2. `race_sidecar`: the rollback of a Create that lost a race removes the sidecar
   of the sandbox that won it.
3. `name_clash`: Delete of `x` removes the container of a sandbox `proxy-x`.
4. `blank_device`: a Spec with `CDIDevices` of one blank string and no GPU request
   passes ValidateGPURequest and is given `nvidia.com/gpu=all`.
5. `home_behind_link`: ResolveWorkspace resolves the workspace and compares it with
   `$HOME` as it is spelled. Where `/home` is a link, the home directory and its
   directories of secrets are accepted as a workspace.

The second needs callers that do not serialise operations on one name; nothing in
the driver does it for them. Three more things are visible in the model and left
out of its claims. `EgressConfined` holds for serialised callers only: with
`Serialised = FALSE` and two callers, a Create, a Delete and a Create of one name
interleave so that a proxied sandbox runs on a network that is not isolated,
because ensureNetwork's check is by name and made once. Delete returns nil with
the container still there when its context is cancelled after the inspection, or
a removal fails (hence `spoiled` in `DeleteCompletes`). Exec returns the status of
a command that still runs when its connection broke, since the Running field of
the inspection is not looked at.

What else the properties had to make an exception for, or the modules assume:

* `HelperRemoved`: a cancelled probe leaves its helper, because the deferred
  removal uses the caller's context.
* `CurrentUnlessRaced`: sources edited while they are compiled give a binary that is
  newer than the edit and is taken for current from then on; so does a source file
  that is removed or replaced by an older one.
* Also there: the compiler writes the cached file in place and nobody locks
  it, so a call may return a file that another one is writing, or left half-written.
* `NilMeansServed`: `test -S` succeeds on the socket of a daemon that is gone, and
  rawExec takes a poll whose stream broke off for a success.
* `DevicesAsAsked`: a count without a GPU request is validated and then attaches
  nothing; if the device nodes vanish between the check and the request, or
  driver_config names other devices, their number is not checked again, and with no
  inventory left a request for a number becomes one for all devices. One id may
  stand for all devices: a `gpu=all` that somebody named counts as one, and so does
  the `/dev/dxg` of a host without numbered nodes.
* `NameFoundAgain`: the cut to 63 characters comes after the dashes are trimmed; a
  name that then ends in a dash is not found again by PolicyHostPath. Container ids
  are cut as well and are never found by id.
* checkDeny compares the denied names below the home directory with their case. What
  it refuses is its two comparisons; the model has no property on it besides finding 5.
* `LinksRejected`: a link that is put into the destination between the look and
  MkdirAll or OpenFile is followed, if it leads to a place below the destination.
* `ControlPathsIntact`: parseDockerMount's own list of protected paths is checked in
  one direction; a mount on `/opt` hides `/opt/openshell`.
* `NoSilentFallback`: only the first of Podman's files that exists is consulted; when
  it spells a registry in two ways, the entry is picked in the order of a Go map.
* `ReadOnlyKept`: a tmpfs's own option `rw` follows its `ro`.
* `ChecksAgree`: an explicit `false` is refused by Podman's check where Docker's
  accepts it; uid and gid maps of different lengths pass both checks at the
  opening and are refused by every Create.

## Proofs

All theorems hold for every value of the constants that satisfies the named
assumptions of the modules, hence for any number of names, callers, faults, polls,
networks, entries, Execs, builders, probes, paths, mounts and credential files.
TLC evaluates every assumption on the instances it checks. Most of them are types.
The others: `NamesAssumption` (names and ids are distinct), `PrefixAssumption` (of
two sizes of subnets one divides the other; they are powers of two),
`WorkspaceAssumption` (`/workspace` and the reserved roots are apart, as in
`reserved.go`), the
second half of `DriverConfigAssumption` (a power of two is a positive number, which
the provers do not know), and in `InputsAssumption` that a registry is spelled as
the reference parser spells it. All safety properties that passing runs check are
theorems.

* `SandboxProofs`
  * `TypeCorrect`. Needs lemmas on where the control operators (`Rollback`,
    `AfterRemoval`, `OnError`, ...) lead.
  * `IdentityInvariant`: ids and names identify containers, names follow roles,
    and the id an operation holds is that of its own sidecar, or of the sandbox it
    deletes. `OnlyDeleteRemoves` is not inductive without it: the undo of a
    sidecar removes by id, Delete's first removal too.
  * `OnlyDeleteRemovesThm` and `Refinement` (`Spec => ImplementsService`), under
    `NoNameClash`, which finding 3 shows to be needed. The argument is one lemma
    on what any step may do to the containers (`CtrEffect`), then a step of
    `SandboxService` or a stutter for each case.
  * `EgressConfinedThm`, under `Serialised`, without which it fails (see above).
    `ConfinementInvariant`: an operation has its name for itself; a running
    container has a network; the network of a proxied sandbox is never plain, and
    isolated from the time ensureNetwork has returned; a provisioning Create has
    no sandbox of its name. It holds through every failure, cancellation and
    crash.
* `WholenessProofs`
  * `RecordsInvariant`, for all callers: an operation keeps to the steps of its
    call, and the flags of its rollback agree with the step it is at; the data
    volume is never among `made`. From it `DataOutlivesCreateThm`: the volume goes
    only in the step in which a Delete removes it.
  * `WholenessInvariant`, under `Serialised` and `NoNameClash` (findings 2 and 3
    show that both are needed): what there is of a name that is not `spoiled`
    fits the step of the operation on it. `Settled` is all or nothing, `Underway`
    what a Create has made so far and its rollback can still find, `Dismantled`
    what a Delete has left to remove. `AllOrNothing` alone is not inductive,
    since nothing connects the flags of a rollback with what is there. The lemmas
    say for each control operator that it leads from what fits to what fits;
    then there is one lemma for each engine call. From the invariant
    `AllOrNothingThm`, `SidecarKeptThm` and `DeleteCompletesThm`; for the last, the
    volumes that the labels named and that are still there are the one a Delete
    is at and those it has yet to come to.
* `LibpodProofs`: `TypeCorrect` (with the bound on attempts).
  `InformedInvariant`: a block that is posted met nothing in its caller's list.
  With lemmas on the search (it passes every block of the pool once around) and
  on prefixesOverlap (for aligned ranges it is intersection) it gives
  `OnlyRacesRetryThm` and `FullIsTrueThm`. `NeverExhaustedThm`: the invariant
  `Lost` bounds a caller's round by the foreign creations plus the number of other
  callers that are past theirs, strictly if its block was taken meanwhile.
* `LogsProofs`: `AccountedInvariant`: every line that was read is in the pipe, in
  the scanner's hands or written, streams are opened in order, and a stream that
  ended early is in errCh, or seen, before `done` is closed. From it
  `NilMeansAllThm`. `SendNeverBlocksThm` says of errCh's buffer what the goroutines'
  end depends on; it needs that every stream reports at most once.
* `ExecProofs`: `ExecInvariant`, i.e. Execs take turns, the one whose turn it is
  holds the mode to go back to (`Turns`), and facts on each Exec alone (`Sane`:
  a goroutine that reads after the return has a closed connection, a status is
  asked for after the output has ended). From it `TerminalRestoredThm`,
  `OutputFirstThm`, `OneReadStolenThm`.
* `CopyProofs`: `DeliveredInvariant`, from it `CopiedThm`.
  `BelowRootThm` and `LinksRejectedThm` of CopyFrom rest on what `Clean` makes of a
  name that safeArchiveName accepts (`CleanIsPath`), and on the invariant that every
  link on the way to an entry that is being written appeared after the look at it.
* `HelperProofs`: a behaviour of the composition is one
  of each part (a lemma), then a predicate for each call and the state it depends on:
  `CurrentUnlessRacedThm` (a whole file that is not of the present sources is
  older than they are, or raced), `NilMeansServedThm` (a socket that is live has
  been seen, or is yet to be seen, by every call under way), `IdentityOfTheImageThm`
  (a call pins the digest it inspected before it creates) and `HelperRemovedThm`.
* `ConfigurationProofs`
  * `NoSilentFallbackThm`, with writers between any two steps. `AuthKnown`: every
    file that the search has left behind could be passed over at some moment of the
    call (`PassedOver`), and from the reading on the file that was taken had, at
    some moment, the entries that are looked through (`HadEntries`).
  * `ControlPathsIntactThm`: two prefixes of one path compare (`PrefixesCompare`),
    hence paths that do not overlap have disjoint trees; the shortcut for uploads
    is sound because the workspace is apart from the reserved roots.
  * `ReadOnlyKeptThm`, `MapsFitThm`, `ChecksAgreeThm`: what RequestContainer makes in
    its two forms (`RequestFacts`), and `UsernsChecked`, i.e. what a driver that has
    opened has checked.
  * `DevicesAsAskedThm`: `GPUKnown`, i.e. the request was validated against the host
    as it was; lists without their blanks are sequences, and a local inventory has
    all devices in it only without numbered nodes.
  * `NameFoundAgainThm`: sanitizing a sanitized name changes nothing
    (`SanitizedTwice`), unless the cut left a dash at the end. A selection of all
    positions is the sequence itself, since the k-th smallest of 1..n is k. Where
    that needs an induction it is one on the smallest counterexample, because the
    provers cannot instantiate the library's induction theorems.

Only model-checked. Liveness (`OperationsReturn`, `CancelReturns`,
`ScannersEnd`, `HangupReturns`, `ResizersEnd`, `CallEnds`, `CancelledProbeReturns`,
`EnsureReturns`): TLAPS does not reason about fairness and ENABLED.

## Not modelled

VM and Kubernetes drivers (stubs). Formatting and parsing without state: the
environment of sandbox and sidecar, certificate bundles, log options, the summary of
a probe, JSON and its duplicate keys, the conversion of configuration values. The
queries Inspect, ContainerIP and Health, which only read. The choice of the default
image. Settings that are carried over without a check: CPU and memory (a share
below a ten-thousandth of a CPU becomes a quota of 0 in libpod's terms), ports,
health checks, extra hosts; libpod's specification has no log configuration and no
exposed ports. The Windows resize loop; environment merging of Exec. Two terminal
Execs at once. Labels of a Spec that overwrite the driver's.

## Plan

1. What liveness rests on, as safety theorems: steps that a stuck call would need
   to be without (as `SendNeverBlocksThm` for `ScannersEnd`), for `CopyTo`'s pipe,
   for Exec's goroutines and for the polls of EnsureSSHDaemon.
2. Labels of a Spec that overwrite the driver's: what Delete then reads back.
