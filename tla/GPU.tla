-------------------------------- MODULE GPU --------------------------------
(***************************************************************************)
(* GPU requests (internal/docker/gpu.go): what Create checks before it      *)
(* starts, and the CDI devices it asks the engine for at its end.  A device *)
(* is the number in its CDI id.                                             *)
(***************************************************************************)
EXTENDS Integers, Sequences, FiniteSets

AllDevices == -1     \* defaultCDIDevice, nvidia.com/gpu=all
Blank == -2          \* an empty or blank id

\* The numbers of a set in ascending order.
Ascending(S) ==
    [k \in 1 .. Cardinality(S) |-> CHOOSE i \in S : Cardinality({j \in S : j < i}) = k - 1]

\* What a sequence has at some of its positions, in its order.
Selection(s, S) == LET at == Ascending(S) IN [k \in DOMAIN at |-> s[at[k]]]

NonBlank(id) == id # Blank
normalizedCDIDevices(values) ==
    Selection(values, {i \in DOMAIN values : NonBlank(values[i])})

\* host: the numbers of the /dev/nvidiaN nodes, and whether there is a /dev/dxg.
localCDIDevices(host) ==
    IF host.nodes # {} THEN Ascending(host.nodes)
    ELSE IF host.dxg THEN <<AllDevices>> ELSE <<>>

\* The devices the Spec or else the environment names.
Explicit(spec, env) ==
    LET ids == normalizedCDIDevices(spec.cdi) IN
    IF ids # <<>> THEN ids ELSE normalizedCDIDevices(env)

\* Mutant: too few devices are noticed, too many are not.
ValidateCountAtMost(spec, env, host) ==
    LET explicit == Explicit(spec, env)
        local == localCDIDevices(host)
    IN  /\ spec.count >= 0
        /\ explicit # <<>> => spec.gpu \/ spec.count > 0
        /\ spec.count > 0 =>
              IF explicit # <<>> THEN Len(explicit) >= spec.count ELSE Len(local) > 0

ValidateGPURequest(spec, env, host) ==
    LET explicit == Explicit(spec, env)
        local == localCDIDevices(host)
    IN  /\ spec.count >= 0
        /\ explicit # <<>> => spec.gpu \/ spec.count > 0
        /\ spec.count > 0 =>
              IF explicit # <<>> THEN Len(explicit) = spec.count
              ELSE local # <<>> /\ Len(local) >= spec.count

\* Mutant: the whole local inventory.
DeviceRequestsUncut(spec, env, host) ==
    LET explicit == Explicit(spec, env)
        ids == IF spec.count > 0 /\ explicit = <<>> THEN localCDIDevices(host) ELSE explicit
    IN  IF ~spec.gpu /\ spec.cdi = <<>> THEN <<>>
        ELSE IF ids = <<>> THEN <<AllDevices>> ELSE ids

\* The ids of the request; none when there is no request.
DeviceRequestsForGPU(spec, env, host) ==
    LET explicit == Explicit(spec, env)
        ids == IF spec.count > 0 /\ explicit = <<>> THEN localCDIDevices(host) ELSE explicit
        cut == IF spec.count > 0 /\ Len(ids) > spec.count THEN SubSeq(ids, 1, spec.count) ELSE ids
    IN  IF ~spec.gpu /\ spec.cdi = <<>> THEN <<>>
        ELSE IF cut = <<>> THEN <<AllDevices>> ELSE cut
=============================================================================
