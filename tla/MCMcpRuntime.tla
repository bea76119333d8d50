---------------------------- MODULE MCMcpRuntime ----------------------------
(* A small instance of McpRuntime.  From one configuration to the other a      *)
(* server is restarted, and another one removed or started.                    *)
EXTENDS McpRuntime

CONSTANTS x, y, v1, v2

TwoConfigurations ==
  {[n \in Names |-> v1], [n \in Names |-> IF n = x THEN v2 ELSE Off]}
=============================================================================
