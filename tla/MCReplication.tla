--------------------------- MODULE MCReplication ---------------------------
(* Bounds for TLC: an owner, and a client that only reads.                  *)
EXTENDS Replication

CONSTANTS owner, reader

TwoActors == {owner, reader}
TwoRoles == owner :> "Controller" @@ reader :> "Spectator"

=============================================================================
