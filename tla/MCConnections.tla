--------------------------- MODULE MCConnections ---------------------------
(* Bounds for TLC: what a patch leaves of an approval.                       *)
EXTENDS Connections

\* The host's request, allowed, or pending again with its mark left behind.
MCPatches == {[host |-> TRUE, status |-> "resolved", approved |-> TRUE],
              [host |-> TRUE, status |-> "pending", approved |-> TRUE]}

=============================================================================
