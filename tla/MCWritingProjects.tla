-------------------------- MODULE MCWritingProjects --------------------------
(***************************************************************************)
(* Instances of WritingProjects for TLC.                                   *)
(***************************************************************************)
EXTENDS WritingProjects, TLC

Symmetry == Permutations(Windows) \cup Permutations(Threads) \cup Permutations(Projects) \cup Permutations(Paragraphs)
=============================================================================
