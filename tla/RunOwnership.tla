---------------------------- MODULE RunOwnership ----------------------------
(***************************************************************************)
(* What the scheduler promises about one multi-agent run, with no lease,   *)
(* no clock, no pool and no checkpoint rows: the run has at most one       *)
(* holder, a task's work is settled by the holder after all it depends on, *)
(* and settled work is reopened only while nobody holds the run, together  *)
(* with everything that was built on it.                                   *)
(***************************************************************************)
EXTENDS FiniteSets

CONSTANTS Tasks, DependsOn, Owners, NoOwner

VARIABLES holder, settled

TypeOK == holder \in Owners \cup {NoOwner} /\ settled \subseteq Tasks

Init == holder = NoOwner /\ settled = {}

Grant(o) == holder = NoOwner /\ holder' = o /\ UNCHANGED settled

Yield == holder # NoOwner /\ holder' = NoOwner /\ UNCHANGED settled

Settle(t) ==
  /\ holder # NoOwner
  /\ t \notin settled /\ DependsOn[t] \subseteq settled
  /\ settled' = settled \cup {t}
  /\ UNCHANGED holder

\* T takes with it every settled task that depends on one of its members.
Reopen(T) ==
  /\ holder = NoOwner
  /\ T # {} /\ T \subseteq settled
  /\ \A u \in settled : DependsOn[u] \cap T # {} => u \in T
  /\ settled' = settled \ T
  /\ UNCHANGED holder

Next == \/ Yield
        \/ \E o \in Owners : Grant(o)
        \/ \E t \in Tasks : Settle(t)
        \/ \E T \in SUBSET settled : Reopen(T)

Spec == Init /\ [][Next]_<<holder, settled>>

\* Settled work always rests on settled work.
Grounded == \A t \in settled : DependsOn[t] \subseteq settled
=============================================================================
