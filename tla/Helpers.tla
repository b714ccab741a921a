------------------------------ MODULE Helpers ------------------------------
(***************************************************************************)
(* The calls around a sandbox: how Create and RunProbe come by an image and *)
(* what RunProbe leaves behind (Image, Probe), how the binaries that are    *)
(* mounted are built (LinuxBinary), and how the relay's daemon is started   *)
(* (SSHDaemon).  The three share no state, so that a behaviour exercises    *)
(* one of them while the others stay as they are.                           *)
(***************************************************************************)
EXTENDS Probe, LinuxBinary, SSHDaemon

VARIABLE part        \* the part that is exercised

helperVars == <<probeVars, buildVars, sshVars, part>>

Images(A) == part = "images" /\ A /\ UNCHANGED <<buildVars, sshVars, part>>
Binaries(A) == part = "binaries" /\ A /\ UNCHANGED <<probeVars, sshVars, part>>
Daemons(A) == part = "daemons" /\ A /\ UNCHANGED <<probeVars, buildVars, part>>

Some(S) == CHOOSE x \in S : TRUE

\* The calls are those of one driver in one environment.  A part that is not
\* exercised has one initial state.
HelperInit ==
    /\ part \in {"images", "binaries", "daemons"}
    /\ ProbeInit /\ BuildInit /\ SSHInit
    /\ \A c, d \in Callers : call[c].policy = call[d].policy /\ call[c].never = call[d].never
    /\ part # "images" =>
          /\ tag = NoImage
          /\ \A c \in Callers :
                /\ call[c].policy = Some(Policies)
                /\ call[c].kind = Some(Kinds) /\ call[c].never = Some(EnvNever)
    /\ part # "daemons" => ~ssh /\ ~running

HelperNext == Images(ProbeNext) \/ Binaries(BuildNext) \/ Daemons(SSHNext)

\* The fairness of the parts.
HelperFairness ==
    /\ \A p \in Probers :
          /\ WF_helperVars(Images(Prober(p)))
          /\ WF_helperVars(Images(EnsureImage(p)))
    /\ \A c \in SSHCallers :
          /\ WF_helperVars(Daemons(EnsureStep(c)))
          /\ WF_helperVars(Daemons(StreamEnds(c)))
          /\ SF_helperVars(Daemons(Deadline(c)))

HelperSpec == HelperInit /\ [][HelperNext]_helperVars /\ HelperFairness
=============================================================================
