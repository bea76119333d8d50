--------------------------- MODULE MCRuntimeSession ---------------------------
(* Small instances of RuntimeSession. *)
EXTENDS RuntimeSession, TLC

(* Every open request belongs to the same ACP connection. *)
OneConnection == [r \in Requests |-> "acp"]

(* Every open request comes from a connection of its own. *)
OwnConnections == [r \in Requests |-> r]

(* Requests are interchangeable, and so are their connections. *)
RequestSymmetry == Permutations(Requests)
=============================================================================
