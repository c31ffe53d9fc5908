---------------------------- MODULE MCCompanionChat ----------------------------
(* CompanionChat with its constants given by the configurations. *)
EXTENDS CompanionChat, TLC

=============================================================================
