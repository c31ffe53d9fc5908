--------------------------- MODULE MCDocumentIndex ---------------------------
(* DocumentIndex with its constants given by the configuration. *)
EXTENDS DocumentIndex, TLC

=============================================================================
