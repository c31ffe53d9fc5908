-------------------------- MODULE MCCuratorCommit --------------------------
(* One note, a revised item, a new item, and a proposal that joins note and new item. *)
EXTENDS CuratorCommit, TLC

CONSTANTS c1, c2, c3

Joins == 4 :> {1, 3}
NoJoins == [r \in {} |-> {}]
\* Every call carries the same payload: a double click, a retry, a resume.
SelectAll == [c \in Calls |-> Drafts]
\* A proposal that joins the note and the revised item.
JoinsOld == 4 :> {1, 2}
\* c3 brings another payload under the operation_id: it leaves out the note.
SelectDiffering == [c \in Calls |-> IF c = c3 THEN Drafts \ {1} ELSE Drafts]

\* The calls with the same payload are interchangeable.
CallSymmetry == Permutations({c1, c2})
=============================================================================
