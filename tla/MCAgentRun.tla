------------------------------ MODULE MCAgentRun ------------------------------
(* AgentRun with its constants given by the configurations. *)
EXTENDS AgentRun, TLC

=============================================================================
