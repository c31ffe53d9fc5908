-------------------------- MODULE MCArtifactMemory --------------------------
(* One artifact version with two claims, and two runs that may deliver it. *)
EXTENDS ArtifactMemory, TLC

CONSTANTS a1, r1, r2, m1

Producer == a1 :> r1
\* The user's own memory is a global one.
Everywhere == m1 :> Global
Claims == a1 :> {1, 2}
\* Item ids are drawn at random, and the two scopes are alike.
Symmetry == {f @@ g : f \in Permutations(Ids), g \in Permutations(Scopes)}
=============================================================================
