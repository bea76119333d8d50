-------------------------- MODULE MCSessionApprovals --------------------------
(* Instances of SessionApprovals for TLC: a call of the first run, a call of a *)
(* subagent it has detached, and a call of the next Operation.  All built-in   *)
(* calls are about one rule.                                                   *)
EXTENDS SessionApprovals

CONSTANTS write, child, later

CallOperations == [c \in Calls |-> IF c = later THEN 2 ELSE 1]
CallScopes == [c \in Calls |-> IF c \in Extension THEN c ELSE write]
=============================================================================
