---------------------------- MODULE MCAgentTask ----------------------------
(* Instances of AgentTask for TLC.                                          *)
EXTENDS AgentTask, TLC

CONSTANTS azure, slack    \* two connectors

MCSupports == (azure :> {"list", "read", "search"})
           @@ (slack :> {"list", "read", "search", "create", "update", "delete", "send"})

(* The connectors' permissions: slack may be read or written.               *)
MCConfigurations == {(azure :> <<"read">>) @@ (slack :> <<l>>) : l \in {"read", "write"}}

(* Those of viaduct.example.yaml.                                           *)
ExampleConfigurations == {(azure :> <<"read">>) @@ (slack :> <<"read", "write">>)}

(* The levels a job may give its connectors, or leave out.                  *)
MCRequests == {(azure :> "unused") @@ (slack :> l) : l \in {"", "write"}}

=============================================================================
