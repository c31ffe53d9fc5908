------------------------ MODULE TaskCheckpointStore ------------------------
(***************************************************************************)
(* SQLiteTaskCheckpointStore: the durable half of the multi-agent          *)
(* scheduler.  For ONE run (one run_id bound to one plan hash) it keeps    *)
(*   lease   the multi_agent_task_runs row: owner and expiry,              *)
(*   row     the multi_agent_task_checkpoints rows, one per task,          *)
(*   now     the clock the store reads (Python's time()).                  *)
(* Every method runs in one SQLite transaction, so each is one formula     *)
(* here; the module that calls the store conjoins them into its steps.     *)
(***************************************************************************)
EXTENDS Naturals, FiniteSets

CONSTANTS
  Tasks,         \* task ids of the validated plan; numbers, sorted as the code sorts ids
  DependsOn,     \* the depends_on edges: a function from Tasks to sets of Tasks
  Owners,        \* the owner ids scheduler-<uuid>, one per call of execute
  NoOwner,       \* the empty lease_owner of a released lease
  LeaseSeconds,  \* policy.lease_seconds
  MaxRetries     \* policy.max_retries, 0 or 1

ASSUME TasksAssumption == Tasks \subseteq Nat /\ IsFiniteSet(Tasks)
ASSUME DependsAssumption == DependsOn \in [Tasks -> SUBSET Tasks]
\* ValidatedTaskPlan refuses a cycle: of any tasks, some depend on none of the others.
Acyclic == \A S \in SUBSET Tasks : S # {} => \E t \in S : DependsOn[t] \cap S = {}
ASSUME PlanAssumption == Acyclic
ASSUME OwnersAssumption == NoOwner \notin Owners
ASSUME PolicyAssumption == LeaseSeconds \in Nat \ {0} /\ MaxRetries \in {0, 1}

VARIABLES lease, row, now

storeVars == <<lease, row, now>>

OkStatus == {"succeeded", "partial"}
\* What a specialist attempt can be persisted as.
StoredStatus == {"succeeded", "partial", "failed", "blocked"}
Attempts == 1 .. 2

\* status of the row, its attempt_ordinal, and the attempt its result_json is of.
NoRow == [status |-> "absent", ordinal |-> 0, result |-> 0]
RowType == {NoRow} \cup [status : {"running"} \cup StoredStatus,
                         ordinal : Attempts,
                         result : {0} \cup Attempts]

StoreTypeOK ==
  /\ lease \in [owner : Owners \cup {NoOwner}, expires : Nat]
  /\ row \in [Tasks -> RowType]
  /\ now \in Nat

StoreInit ==
  /\ lease = [owner |-> NoOwner, expires |-> 0]
  /\ row = [t \in Tasks |-> NoRow]
  /\ now = 0

\* Mutant: the expiry is compared one unit too early.
LeaseLiveEarly == lease.owner # NoOwner /\ lease.expires > now + 1
LeaseLive == lease.owner # NoOwner /\ lease.expires > now

\* acquire_lease returns True unless another owner holds an unexpired lease.
LeaseAvailable(o) == ~LeaseLive \/ lease.owner = o
AcquireLease(o) ==
  /\ LeaseAvailable(o)
  /\ lease' = [owner |-> o, expires |-> now + LeaseSeconds]

\* heartbeat is guarded by the owner column alone: an expired lease nobody has
\* taken over is renewed.
Heartbeat(o) ==
  /\ lease.owner = o
  /\ lease' = [lease EXCEPT !.expires = now + LeaseSeconds]

ReleaseLease(o) ==
  lease' = IF lease.owner = o THEN [owner |-> NoOwner, expires |-> 0] ELSE lease

\* begin_task upserts the row; nothing in it refers to the lease.
BeginTask(t, attempt) ==
  row' = [row EXCEPT ![t] = [status |-> "running", ordinal |-> attempt, result |-> 0]]

\* complete_task updates by run, task and plan: neither the owner of the lease nor
\* the row's attempt_ordinal is compared.
CompleteTask(t, attempt, status) ==
  row' = IF row[t].status = "absent" THEN row
         ELSE [row EXCEPT ![t] = [@ EXCEPT !.status = status, !.result = attempt]]

\* load: rows still 'running' are interrupted attempts, rows with a result are complete.
Interrupted == {t \in Tasks : row[t].status = "running"}
\* Mutant: an interrupted run is started over.
CompletedUnlessInterrupted == {t \in Tasks : row[t].result # 0 /\ Interrupted = {}}
Completed == {t \in Tasks : row[t].result # 0 /\ row[t].status # "running"}

\* A set of tasks that contains every task depending on one of its members.
DownClosed(S) == \A u \in Tasks : DependsOn[u] \cap S # {} => u \in S
\* Mutant: only the failed task is reopened.
DescendantsSelf(t) == {t}
\* ParallelTaskGraphExecutor.prepare_retry collects t and all its descendants.
Descendants(t) ==
  {u \in Tasks : \A S \in SUBSET Tasks : (t \in S /\ DownClosed(S)) => u \in S}

Retryable == {"failed", "partial", "blocked"}

\* Mutant: a retry does not look at the lease.
MayRetryAnytime(t) == row[t].status \in Retryable /\ row[t].ordinal < MaxRetries + 1
MayRetry(t) == ~LeaseLive /\ row[t].status \in Retryable /\ row[t].ordinal < MaxRetries + 1

\* prepare_retry: in one transaction, refuse while a lease is live, refuse a target
\* with no persisted failed attempt or with no attempt left, and mark the target and
\* its descendants as interrupted.
PrepareRetry(t) ==
  /\ MayRetry(t)
  /\ row' = [u \in Tasks |->
               IF u \in Descendants(t) /\ row[u].status # "absent"
                 THEN [row[u] EXCEPT !.status = "running", !.result = 0]
                 ELSE row[u]]
  /\ UNCHANGED <<lease, now>>
=============================================================================
