--------------------------- MODULE SandboxService ---------------------------
(***************************************************************************)
(* What the lifecycle operations of the Driver interface promise a caller:  *)
(* a sandbox comes into being, starts, stops and goes away in one step, no  *)
(* two sandboxes share a name or an id, and no operation touches a sandbox  *)
(* other than its own.  Failed operations are stutters.                     *)
(***************************************************************************)
EXTENDS Naturals

CONSTANT Names

VARIABLE boxes    \* the sandboxes: id, name, running

Init == boxes = {}

\* Create succeeds: the new sandbox has an unused name and id and is stopped.
Provision ==
    \E b \in boxes' :
        /\ b.name \in Names /\ ~b.running
        /\ \A a \in boxes : a.name # b.name /\ a.id # b.id
        /\ boxes' = boxes \cup {b}

\* Start or Stop succeeds.
Switch(b, on) == boxes' = (boxes \ {b}) \cup {[b EXCEPT !.running = on]}

\* Delete removes the container.
Dispose(b) == boxes' = boxes \ {b}

Next ==
    \/ Provision
    \/ \E b \in boxes : Dispose(b) \/ \E on \in BOOLEAN : Switch(b, on)

Spec == Init /\ [][Next]_boxes
=============================================================================
