----------------------------- MODULE MCSandbox -----------------------------
(***************************************************************************)
(* Instances of Sandbox for TLC.                                            *)
(***************************************************************************)
EXTENDS Sandbox, TLC

\* One sandbox.
One == {"x"}
OneCtrNames == {"cauteum-x", "cauteum-proxy-x"}
OneSandbox == [n \in One |-> "cauteum-x"]
OneProxy == [n \in One |-> "cauteum-proxy-x"]

\* A sandbox called proxy-x and the sidecar of x want the same container name.
Clash == {"x", "proxy-x"}
ClashCtrNames == {"cauteum-x", "cauteum-proxy-x", "cauteum-proxy-proxy-x"}
ClashSandbox == [n \in Clash |-> IF n = "x" THEN "cauteum-x" ELSE "cauteum-proxy-x"]
ClashProxy ==
    [n \in Clash |-> IF n = "x" THEN "cauteum-proxy-x" ELSE "cauteum-proxy-proxy-x"]

\* Every Spec, or only whether there is a proxy.
AllWants == SUBSET VolKinds
ProxyOrNot == {{}, {"ca"}}

CallerSymmetry == Permutations(Callers)
=============================================================================
