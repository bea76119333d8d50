---------------------------- MODULE MCAcpConnection ----------------------------
(* Small instances of AcpConnection. *)
EXTENDS AcpConnection

(* Sessions are interchangeable. *)
SessionSymmetry == Permutations(Sessions)
=============================================================================
