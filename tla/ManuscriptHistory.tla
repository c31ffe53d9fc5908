-------------------------- MODULE ManuscriptHistory --------------------------
(***************************************************************************)
(* What the writing projects promise an author: the manuscript of a        *)
(* project is a history that only grows, a version at a time.  A version   *)
(* is attached whole, or comes from the one before it by one reviewed      *)
(* paragraph; the operation that asked for it is recorded with it, and     *)
(* brings about one version at most, however often it is sent again.       *)
(***************************************************************************)
EXTENDS Naturals, Sequences

CONSTANTS Projects, Operations, Paragraphs, Texts

VARIABLES
  history,  \* the manuscripts of each project, oldest first
  outline,  \* the version of each project's outline
  done      \* what each operation brought about: {<<project, version>>}, or nothing

vars == <<history, outline, done>>

Manuscripts == [Paragraphs -> Texts]

Init ==
  /\ history = [p \in Projects |-> <<>>]
  /\ outline = [p \in Projects |-> 0]
  /\ done = [o \in Operations |-> {}]

Newest(p) == history[p][Len(history[p])]

\* The newest manuscript is whatever was attached.
Attach(p) ==
  /\ history[p]' # <<>> /\ Newest(p)' \in Manuscripts
  /\ history' = [history EXCEPT ![p] = Append(history[p], Newest(p)')]
  /\ UNCHANGED <<outline, done>>

Revise(p, o) ==
  /\ history[p] # <<>>
  /\ done[o] = {}
  /\ done' = [done EXCEPT ![o] = {<<p, Len(history[p]) + 1>>}]
  /\ \E x \in Paragraphs, text \in Texts :
       history' = [history EXCEPT ![p] = Append(history[p], [Newest(p) EXCEPT ![x] = text])]
  /\ UNCHANGED outline

Publish(p) ==
  /\ outline' = [outline EXCEPT ![p] = outline[p] + 1]
  /\ UNCHANGED <<history, done>>

Next ==
  \E p \in Projects : Publish(p) \/ Attach(p) \/ \E o \in Operations : Revise(p, o)

Spec == Init /\ [][Next]_vars
=============================================================================
