----------------------------- MODULE MCStreams -----------------------------
(***************************************************************************)
(* Instance of CopyTo, CopyFrom and Logs for TLC, the calls that stream     *)
(* what belongs to a sandbox: a caller copies a tree into it and, when that *)
(* succeeded, copies out of it or reads its logs.  The archive it gets is   *)
(* whatever the guest made of the tree.  Links and files are to be met as   *)
(* the first and as the second component of a name, and as the destination. *)
(***************************************************************************)
EXTENDS CopyTo, CopyFrom, Logs

VARIABLE second      \* the second call

Tree(a, b, ba, dest) ==
    [p \in Paths |-> CASE p = <<"a">> -> a
                      [] p = <<"b">> -> b
                      [] p = <<"b", "a">> -> ba
                      [] p = Target -> dest
                      [] OTHER -> "none"]

SomeTrees ==
    {Tree(a, "dir", ba, dest) : a \in {"none", "in"}, ba \in {"none", "file", "in"},
                                dest \in {"none", "file", "in"}}
    \cup {Tree("file", "in", "none", "out"), Tree("out", "dir", "out", "none")}

streamVars == <<toVars, fromVars, vars, second>>

\* Reading the logs needs no destination: one stands for all.
StreamInit ==
    /\ ToInit /\ FromInit /\ Init
    /\ second \in {"out", "logs"}
    /\ second = "logs" => asDir /\ fs = Tree("none", "dir", "none", "none")

CopyIn(A) == A /\ UNCHANGED <<fromVars, vars, second>>

CopyOut(A) ==
    second = "out" /\ uploader = "nil" /\ A /\ UNCHANGED <<toVars, vars, second>>

ReadLogs(A) ==
    second = "logs" /\ uploader = "nil" /\ A /\ UNCHANGED <<toVars, fromVars, second>>

StreamNext == CopyIn(ToNext) \/ CopyOut(FromNext) \/ ReadLogs(Next)

\* The fairness of CopyTo and of Logs.
StreamSpec ==
    /\ StreamInit /\ [][StreamNext]_streamVars
    /\ WF_streamVars(CopyIn(Writer)) /\ WF_streamVars(CopyIn(EngineAccepts \/ EngineFails))
    /\ WF_streamVars(CopyIn(CallReturns \/ Drain))
    /\ WF_streamVars(ReadLogs(Caller)) /\ WF_streamVars(ReadLogs(Waiter))
    /\ \A s \in Streams :
          WF_streamVars(ReadLogs(Scanner(s))) /\ WF_streamVars(ReadLogs(ReadFails(s)))
=============================================================================
