-------------------------- MODULE MCLibpodNetwork --------------------------
(***************************************************************************)
(* A pool of three blocks of four addresses for TLC.                        *)
(***************************************************************************)
EXTENDS LibpodNetwork, TLC

\* One around the first two blocks, with host bits set, and one inside the
\* second.
SomeForeign == {[addr |-> 1, size |-> 8], [addr |-> 6, size |-> 1]}
=============================================================================
