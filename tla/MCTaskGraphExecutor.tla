----------------------- MODULE MCTaskGraphExecutor -----------------------
(* The plans the scheduler is model-checked on, and the symmetry of its owners. *)
EXTENDS TaskGraphExecutor, TLC

\* Two documents analysed in parallel, then a synthesis (tests/multi_agent/scheduler_support.py).
FanIn == (1 :> {}) @@ (2 :> {}) @@ (3 :> {1, 2})
\* One task: the smallest plan, for scenarios of several owners.
Single == 1 :> {}

OwnerSymmetry == Permutations(Owners)
=============================================================================
