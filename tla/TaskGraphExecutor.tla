------------------------- MODULE TaskGraphExecutor -------------------------
(***************************************************************************)
(* ParallelTaskGraphExecutor.execute: the bounded fan-out/fan-in scheduler *)
(* of one multi-agent run.  Each owner is one call of execute (one         *)
(* request thread and its thread pool); the owners of a run share the      *)
(* checkpoint store, the process-wide expert and GPU slots and the         *)
(* artifact store, and may overlap: a second window, a resume after a      *)
(* crash, a resume while a cancelled run still has late workers.           *)
(*                                                                         *)
(* MayStall says whether a scheduler thread may sleep past its own lease   *)
(* (a suspended laptop, a paused process).  When it is FALSE the clock     *)
(* waits for the heartbeat every loop iteration sends.                     *)
(***************************************************************************)
EXTENDS TaskCheckpointStore

CONSTANTS
  Required,       \* tasks whose spec says required
  GpuTasks,       \* tasks with a GPU-marked tool
  MaxParallel,    \* policy.max_parallel_experts
  MaxModelCalls,  \* policy.max_model_calls
  ExpertSlots,    \* _GLOBAL_EXPERT_SLOTS
  MayStall,       \* may a scheduler outsleep its lease?
  MaxClock,       \* bound on the clock
  MaxCrashes      \* bound on process crashes

ASSUME ExecutorAssumption ==
  /\ Required \subseteq Tasks /\ GpuTasks \subseteq Tasks
  /\ MaxParallel \in 1 .. 2 /\ ExpertSlots \in Nat \ {0}
  /\ MaxModelCalls \in Nat /\ MaxClock \in Nat /\ MaxCrashes \in Nat
  /\ MayStall \in BOOLEAN

VARIABLES
  phase,        \* where each call of execute is
  byId,         \* by_id: the status of each merged result
  interrupted,  \* tasks found running by load
  ready,        \* what is left of this iteration's ready list
  arrived,      \* done futures of this iteration still to be merged
  passed,       \* the one whose result is past its checkpoints, still to be stored
  future,       \* state of each task's future in the pool
  ref,          \* finished futures whose result carries an artifact reference
  reserved,     \* SharedRunBudget: model calls reserved
  stop,         \* cancel_event set, or total time spent
  storedLate,   \* history: tasks whose result a call stored after its cancel
  artifact,     \* version 1 of each task's artifact in the artifact store
  crashes

mergeVars == <<passed, storedLate>>
schedVars == <<phase, byId, interrupted, ready, arrived, reserved, mergeVars>>
poolVars == <<future, ref, artifact>>
vars == <<lease, row, now, phase, byId, interrupted, ready, arrived, future,
          ref, reserved, stop, artifact, crashes, passed, storedLate>>

ActivePhase == {"loading", "loop", "dispatch", "collect"}
Phases == ActivePhase \cup {"idle", "rejected", "draining", "done", "cancelled",
                            "failed", "stuck", "crashed"}
MergedStatus == StoredStatus \cup {"skipped"}
\* aborted: the worker's own control.checkpoint raised; mismatch: ValueError.
Settled == StoredStatus \cup {"aborted", "mismatch"}
FutureStates == {"none", "queued", "waiting", "slotted", "running"} \cup Settled

TypeOK ==
  /\ StoreTypeOK
  /\ phase \in [Owners -> Phases]
  /\ byId \in [Owners -> [Tasks -> MergedStatus \cup {"none"}]]
  /\ interrupted \in [Owners -> SUBSET Tasks]
  /\ ready \in [Owners -> SUBSET Tasks]
  /\ arrived \in [Owners -> SUBSET Tasks]
  /\ passed \in [Owners -> SUBSET Tasks]
  /\ storedLate \in [Owners -> SUBSET Tasks]
  /\ future \in [Owners -> [Tasks -> FutureStates]]
  /\ ref \in [Owners -> SUBSET Tasks]
  /\ reserved \in [Owners -> Nat]
  /\ stop \in [Owners -> BOOLEAN]
  /\ artifact \in [Tasks -> {"absent", "live", "revoked"}]
  /\ crashes \in Nat

Init ==
  /\ StoreInit
  /\ phase = [o \in Owners |-> "idle"]
  /\ byId = [o \in Owners |-> [t \in Tasks |-> "none"]]
  /\ interrupted = [o \in Owners |-> {}]
  /\ ready = [o \in Owners |-> {}]
  /\ arrived = [o \in Owners |-> {}]
  /\ passed = [o \in Owners |-> {}]
  /\ storedLate = [o \in Owners |-> {}]
  /\ future = [o \in Owners |-> [t \in Tasks |-> "none"]]
  /\ ref = [o \in Owners |-> {}]
  /\ reserved = [o \in Owners |-> 0]
  /\ stop = [o \in Owners |-> FALSE]
  /\ artifact = [t \in Tasks |-> "absent"]
  /\ crashes = 0

Active(o) == phase[o] \in ActivePhase
Futures(o) == {t \in Tasks : future[o][t] # "none"}
Finished(o) == {t \in Tasks : future[o][t] \in Settled}
Pending(o) == {t \in Tasks : byId[o][t] = "none" /\ future[o][t] = "none"}
\* Mutant: only a successful dependency makes a task ready.
ReadyAfterSuccess(o) == {t \in Pending(o) : \A d \in DependsOn[t] : byId[o][d] \in OkStatus}
ReadyTasks(o) == {t \in Pending(o) : \A d \in DependsOn[t] : byId[o][d] # "none"}
\* Mutant: a failed optional dependency is ignored.
RequiredDependencyFailed(o, t) ==
  \E d \in DependsOn[t] \cap Required : byId[o][d] \notin OkStatus
DependencyFailed(o, t) == \E d \in DependsOn[t] : byId[o][d] \notin OkStatus
\* Mutant: the attempt is derived from the row, which begin_task has changed by then.
AttemptFromRow(o, t) == IF row[t].status = "running" THEN 2 ELSE 1
Attempt(o, t) == IF t \in interrupted[o] THEN 2 ELSE 1
\* Mutant: the loop condition forgets the running futures.
NothingPending(o) == Pending(o) = {}
LoopDone(o) == Pending(o) = {} /\ Futures(o) = {}
GoTo(o, p) == phase' = [phase EXCEPT ![o] = p]
\* Futures that had not started are cancelled, by future.cancel() or by
\* pool.shutdown(cancel_futures=True).
WithoutQueued(o) == [t \in Tasks |-> IF future[o][t] = "queued" THEN "none"
                                                                ELSE future[o][t]]
-----------------------------------------------------------------------------
(* Start and resume. *)

Acquire(o) ==
  /\ phase[o] = "idle"
  /\ AcquireLease(o)
  /\ GoTo(o, "loading")
  /\ UNCHANGED <<row, now, byId, interrupted, ready, arrived, reserved, stop,
                 crashes, poolVars, mergeVars>>

Refuse(o) ==   \* TaskRunLeaseError: already has an active owner
  /\ phase[o] = "idle"
  /\ ~LeaseAvailable(o)
  /\ GoTo(o, "rejected")
  /\ UNCHANGED <<storeVars, byId, interrupted, ready, arrived, reserved, stop,
                 crashes, poolVars, mergeVars>>

Load(o) ==
  /\ phase[o] = "loading"
  /\ byId' = [byId EXCEPT ![o] =
                [t \in Tasks |-> IF t \in Completed THEN row[t].status ELSE "none"]]
  /\ interrupted' = [interrupted EXCEPT ![o] = Interrupted]
  /\ GoTo(o, "loop")
  /\ UNCHANGED <<storeVars, ready, arrived, reserved, stop, crashes, poolVars, mergeVars>>
-----------------------------------------------------------------------------
(* Leaving execute. *)

\* The except clause for cancellation and budget: with late futures the release of
\* the lease is deferred to their done callbacks.
Abort(o) ==
  /\ future' = [future EXCEPT ![o] = WithoutQueued(o)]
  /\ IF \E t \in Tasks : future[o][t] \notin {"none", "queued"}
       THEN GoTo(o, "draining") /\ UNCHANGED lease
       ELSE GoTo(o, "cancelled") /\ ReleaseLease(o)
  /\ ready' = [ready EXCEPT ![o] = {}]
  /\ arrived' = [arrived EXCEPT ![o] = {}]
  /\ UNCHANGED <<row, now, byId, interrupted, reserved, stop, crashes, ref, artifact,
                 mergeVars>>


\* Any other exception: the finally clause alone; started workers run on unobserved.
Fail(o, p) ==
  /\ future' = [future EXCEPT ![o] = WithoutQueued(o)]
  /\ GoTo(o, p)
  /\ ReleaseLease(o)
  /\ ready' = [ready EXCEPT ![o] = {}]
  /\ arrived' = [arrived EXCEPT ![o] = {}]
  /\ UNCHANGED <<row, now, byId, interrupted, reserved, stop, crashes, ref, artifact,
                 mergeVars>>

Complete(o) ==
  /\ phase[o] = "loop" /\ LoopDone(o)
  /\ GoTo(o, "done")
  /\ ReleaseLease(o)
  /\ UNCHANGED <<row, now, byId, interrupted, ready, arrived, reserved, stop,
                 crashes, poolVars, mergeVars>>
-----------------------------------------------------------------------------
(* One iteration of the scheduling loop. *)

InLoop(o) == phase[o] = "loop" /\ ~LoopDone(o)

IterateStopped(o) == InLoop(o) /\ stop[o] /\ Abort(o)

LeaseLost(o) == InLoop(o) /\ ~stop[o] /\ lease.owner # o /\ Fail(o, "failed")

BeginIteration(o) ==
  /\ Heartbeat(o)
  /\ ready' = [ready EXCEPT ![o] = ReadyTasks(o)]
  /\ GoTo(o, "dispatch")
  /\ UNCHANGED <<row, now, byId, interrupted, arrived, reserved, stop, crashes, poolVars,
                 mergeVars>>

\* "validated task plan has no executable frontier"
NoFrontier(o) == ReadyTasks(o) = {} /\ Futures(o) = {}

Iterate(o) ==
  /\ InLoop(o) /\ ~stop[o] /\ lease.owner = o
  /\ IF NoFrontier(o) THEN Fail(o, "stuck") ELSE BeginIteration(o)

CanDispatch(o, t) ==
  /\ phase[o] = "dispatch"
  /\ t \in ready[o] /\ \A u \in ready[o] : t <= u
  /\ Cardinality(Futures(o)) < MaxParallel

SettleWithoutRunning(o, t, status) ==
  /\ byId' = [byId EXCEPT ![o][t] = status]
  /\ ready' = [ready EXCEPT ![o] = @ \ {t}]
  /\ UNCHANGED <<storeVars, phase, interrupted, arrived, stop, crashes, poolVars, mergeVars>>

UnavailableStatus(t) == IF t \in Required THEN "blocked" ELSE "skipped"

DispatchUnavailable(o, t) ==
  /\ CanDispatch(o, t)
  /\ DependencyFailed(o, t) \/ reserved[o] >= MaxModelCalls
  /\ SettleWithoutRunning(o, t, UnavailableStatus(t))
  /\ UNCHANGED reserved

CanReserve(o, t) == ~DependencyFailed(o, t) /\ reserved[o] < MaxModelCalls
Reserve(o) == reserved' = [reserved EXCEPT ![o] = @ + 1]

DispatchRetryExhausted(o, t) ==
  /\ CanDispatch(o, t) /\ CanReserve(o, t)
  /\ Attempt(o, t) - 1 > MaxRetries
  /\ SettleWithoutRunning(o, t, "blocked")
  /\ Reserve(o)

DispatchStart(o, t) ==
  /\ CanDispatch(o, t) /\ CanReserve(o, t)
  /\ Attempt(o, t) - 1 <= MaxRetries
  /\ BeginTask(t, Attempt(o, t))
  /\ future' = [future EXCEPT ![o][t] = "queued"]
  /\ ready' = [ready EXCEPT ![o] = @ \ {t}]
  /\ Reserve(o)
  /\ UNCHANGED <<lease, now, phase, byId, interrupted, arrived, stop, crashes, ref, artifact,
                 mergeVars>>

\* wait(...) hands back whatever is done by then, possibly nothing.
Wait(o) ==
  /\ phase[o] = "dispatch"
  /\ ready[o] = {} \/ Cardinality(Futures(o)) >= MaxParallel
  /\ arrived' = [arrived EXCEPT ![o] = Finished(o)]
  /\ ready' = [ready EXCEPT ![o] = {}]
  /\ GoTo(o, "collect")
  /\ UNCHANGED <<storeVars, byId, interrupted, reserved, stop, crashes, poolVars, mergeVars>>

\* The next result of this iteration: a cancel is looked at before it and before its merge.
NextResult(o) == phase[o] = "collect" /\ arrived[o] # {} /\ passed[o] = {}

CollectStopped(o) == NextResult(o) /\ stop[o] /\ Abort(o)

CollectMismatch(o) ==
  /\ NextResult(o) /\ ~stop[o]
  /\ \E t \in arrived[o] : future[o][t] = "mismatch"
  /\ Fail(o, "failed")

\* Mutant: no checkpoint between a result and its merge.
MergeableAfterCancel(o, t) ==
  NextResult(o) /\ t \in arrived[o] /\ future[o][t] \in StoredStatus
Mergeable(o, t) ==
  NextResult(o) /\ ~stop[o] /\ t \in arrived[o] /\ future[o][t] \in StoredStatus

\* Both checkpoints passed and the result taken; a cancel from here on comes too late for it.
PassCheckpoint(o, t) ==
  /\ Mergeable(o, t)
  /\ passed' = [passed EXCEPT ![o] = {t}]
  /\ UNCHANGED <<storeVars, phase, byId, interrupted, ready, arrived, reserved, stop, crashes,
                 poolVars, storedLate>>

\* Mutant: a merged future stays in the dictionary of running futures.
Unpopped(o, t) == future
Popped(o, t) == [future EXCEPT ![o][t] = "none"]

\* complete_task and merge, whatever was cancelled meanwhile.
Merge(o, t) ==
  /\ phase[o] = "collect" /\ t \in passed[o]
  /\ CompleteTask(t, Attempt(o, t), future[o][t])
  /\ byId' = [byId EXCEPT ![o][t] = future[o][t]]
  /\ future' = Popped(o, t)
  /\ ref' = [ref EXCEPT ![o] = @ \ {t}]
  /\ arrived' = [arrived EXCEPT ![o] = @ \ {t}]
  /\ passed' = [passed EXCEPT ![o] = {}]
  /\ storedLate' = [storedLate EXCEPT ![o] = IF stop[o] THEN @ \cup {t} ELSE @]
  /\ UNCHANGED <<lease, now, phase, interrupted, ready, reserved, stop, crashes, artifact>>

EndCollect(o) ==
  /\ phase[o] = "collect" /\ arrived[o] = {}
  /\ GoTo(o, "loop")
  /\ UNCHANGED <<storeVars, byId, interrupted, ready, arrived, reserved, stop,
                 crashes, poolVars, mergeVars>>
-----------------------------------------------------------------------------
(* _execute_one in a pool thread. *)

SlotsHeld == {s \in Owners \X Tasks : future[s[1]][s[2]] \in {"slotted", "running"}}
\* Mutant: a task counts its own wait for the GPU slot as holding it.
GpuWanted == \E o \in Owners, t \in GpuTasks : future[o][t] \in {"slotted", "running"}
GpuHeld == \E o \in Owners, t \in GpuTasks : future[o][t] = "running"
Advance(o, t, s) ==
  /\ future' = [future EXCEPT ![o][t] = s]
  /\ UNCHANGED <<storeVars, schedVars, stop, crashes, ref, artifact>>

WorkerStart(o, t) == future[o][t] = "queued" /\ Advance(o, t, "waiting")

TakeExpertSlot(o, t) ==
  /\ future[o][t] = "waiting"
  /\ Cardinality(SlotsHeld) < ExpertSlots
  /\ Advance(o, t, "slotted")

\* A GPU task takes the GPU slot while it already holds an expert slot.
EnterSpecialist(o, t) ==
  /\ future[o][t] = "slotted"
  /\ t \in GpuTasks => ~GpuHeld
  /\ Advance(o, t, IF stop[o] THEN "aborted" ELSE "running")

\* The specialist puts its artifact last and returns a reference to what the store
\* answered: a version that is already there, even a revoked one, is returned as it is.
FinishWithArtifact(o, t) ==
  /\ future[o][t] = "running"
  /\ \E s \in {"succeeded", "partial", "failed"} : future' = [future EXCEPT ![o][t] = s]
  /\ artifact' = [artifact EXCEPT ![t] = IF @ = "absent" THEN "live" ELSE @]
  /\ ref' = [ref EXCEPT ![o] = @ \cup {t}]
  /\ UNCHANGED <<storeVars, schedVars, stop, crashes>>

\* An exception (failed), an exhausted resource (blocked), a foreign result (mismatch).
FinishWithout(o, t) ==
  /\ future[o][t] = "running"
  /\ \E s \in {"failed", "blocked", "mismatch"} : Advance(o, t, s)

\* Mutant: the callback counts down after it has compared.
NoneLate(o, t) == Futures(o) = {}
\* Mutant: the first callback takes itself for the last one.
FirstLate(o, t) == t \in Futures(o)
LastLate(o, t) == Futures(o) = {t}

\* discard_late, the done callback of a future that outlived a cancelled scheduler.
DiscardLate(o, t) ==
  /\ phase[o] = "draining" /\ t \in Finished(o)
  /\ artifact' = IF t \in ref[o] /\ artifact[t] = "live"
                   THEN [artifact EXCEPT ![t] = "revoked"] ELSE artifact
  /\ future' = Popped(o, t)
  /\ ref' = [ref EXCEPT ![o] = @ \ {t}]
  /\ IF LastLate(o, t) THEN GoTo(o, "cancelled") /\ ReleaseLease(o)
                       ELSE UNCHANGED <<phase, lease>>
  /\ UNCHANGED <<row, now, byId, interrupted, ready, arrived, reserved, stop, crashes,
                 mergeVars>>
-----------------------------------------------------------------------------
(* The environment. *)

Cancel(o) ==   \* cancel(), or the run's total time is over
  /\ Active(o) /\ ~stop[o]
  /\ stop' = [stop EXCEPT ![o] = TRUE]
  /\ UNCHANGED <<storeVars, schedVars, poolVars, crashes>>

Retry(t) ==    \* the retry endpoint, before the next execute
  PrepareRetry(t) /\ UNCHANGED <<schedVars, poolVars, stop, crashes>>

\* All owners live in the one backend process; the databases survive it.
Crash ==
  /\ crashes < MaxCrashes
  /\ \E o \in Owners : Active(o) \/ phase[o] = "draining"
  /\ crashes' = crashes + 1
  /\ phase' = [o \in Owners |-> IF Active(o) \/ phase[o] = "draining" THEN "crashed"
                                                                      ELSE phase[o]]
  /\ future' = [o \in Owners |-> [t \in Tasks |-> "none"]]
  /\ ref' = [o \in Owners |-> {}]
  /\ ready' = [o \in Owners |-> {}]
  /\ arrived' = [o \in Owners |-> {}]
  /\ passed' = [o \in Owners |-> {}]
  /\ UNCHANGED <<storeVars, byId, interrupted, reserved, stop, artifact, storedLate>>

Tick ==
  /\ now < MaxClock
  /\ MayStall \/ \A o \in Owners : Active(o) => now + 1 < lease.expires
  /\ now' = now + 1
  /\ UNCHANGED <<lease, row, schedVars, poolVars, stop, crashes>>
-----------------------------------------------------------------------------
Scheduler(o) ==
  \/ Load(o) \/ Complete(o) \/ IterateStopped(o) \/ LeaseLost(o)
  \/ Iterate(o) \/ Wait(o) \/ CollectStopped(o) \/ CollectMismatch(o) \/ EndCollect(o)
  \/ \E t \in Tasks : DispatchUnavailable(o, t) \/ DispatchRetryExhausted(o, t)
                      \/ DispatchStart(o, t) \/ PassCheckpoint(o, t) \/ Merge(o, t)

Worker(o, t) ==
  WorkerStart(o, t) \/ TakeExpertSlot(o, t) \/ EnterSpecialist(o, t)
  \/ FinishWithArtifact(o, t) \/ FinishWithout(o, t) \/ DiscardLate(o, t)

Environment ==
  Crash \/ Tick \/ (\E t \in Tasks : Retry(t))
  \/ (\E o \in Owners : Acquire(o) \/ Refuse(o) \/ Cancel(o))

Next == Environment \/ (\E o \in Owners : Scheduler(o) \/ \E t \in Tasks : Worker(o, t))

Spec == Init /\ [][Next]_vars

\* A thread that can run does run; requests, cancels, crashes and the clock need not.
Fairness == \A o \in Owners : /\ WF_vars(Scheduler(o))
                              /\ \A t \in Tasks : WF_vars(Worker(o, t))
FairSpec == Spec /\ Fairness
-----------------------------------------------------------------------------
(* Safety.  These hold while no scheduler outsleeps its lease (~MayStall). *)

\* Two windows never resume one run at the same time: at most one call of execute
\* is between acquire_lease and its exit, across crashes, expiries and cancels.
SingleScheduler ==
  \A o, p \in Owners : Active(o) /\ Active(p) => o = p

\* The database never records a success that rests on a dependency it records as
\* failed, missing or running: what load resumes from is closed under depends_on.
DurableCausality ==
  \A t \in Tasks : row[t].status \in OkStatus =>
    \A d \in DependsOn[t] : row[d].status \in OkStatus

\* The result_json of a row is the result of the attempt in its attempt_ordinal: no
\* scheduler overwrites the attempt of another.
ResultMatchesAttempt ==
  \A t \in Tasks : row[t].result # 0 => row[t].result = row[t].ordinal

\* A live scheduler's by_id and the checkpoint rows tell one story: a success it
\* builds on is the one the database holds.
ViewMatchesStore ==
  \A o \in Owners, t \in Tasks :
    Active(o) /\ byId[o][t] \in OkStatus => row[t].status = byId[o][t]

\* execute never meets the "no executable frontier" error on an acyclic plan,
\* whatever it resumed from.
FrontierNeverStuck == \A o \in Owners : phase[o] # "stuck"

\* A row that holds a success is re-run only after a retry made while no scheduler
\* was active; resume, crash and budget exhaustion leave it alone.
SuccessIsReused ==
  [][\A t \in Tasks :
       row[t].status = "succeeded" /\ row'[t] # row[t]
         => row'[t].status = "running" /\ \A o \in Owners : ~Active(o)]_vars

\* A cancel cuts the collecting short: whatever workers have finished and however many
\* results one wait handed over, at most one more is stored by the cancelled call, the
\* one that had passed its checkpoint when the cancel came.
CancelCutsShort ==
  \A o \in Owners : \A t, u \in storedLate[o] : t = u

\* The lease of a cancelled call covers its late workers: while it lives, nobody resumes
\* or retries the run before the last of them has been discarded, in whatever order
\* they finish (or the process died with all of them).
LateWorkKeepsLease ==
  [][\A o \in Owners :
       phase[o] = "draining" /\ LeaseLive /\ lease.owner = o /\ lease'.owner # o
         => \A t \in Tasks : future'[o][t] = "none"]_vars

\* Nor does it keep the lease without them: whoever the lease names is a call under way,
\* a cancelled one that has a late worker left, or one the process died with.  The
\* callback that was the last, whichever it was, has given it back.
LeaseIsInUse ==
  \A o \in Owners : lease.owner = o =>
    Active(o) \/ phase[o] = "crashed" \/ (phase[o] = "draining" /\ Futures(o) # {})

\* What execute returns accounts for every task: its status is durable, or it was
\* settled unrun because a dependency failed, the model calls ran out, or an
\* interrupted attempt had no retry left.
NothingDroppedSilently ==
  [][\A o \in Owners, t \in Tasks :
       phase[o] # "done" /\ phase'[o] = "done" =>
         \/ row[t].status = byId[o][t]
         \/ /\ byId[o][t] \in {"blocked", "skipped"}
            /\ \/ DependencyFailed(o, t)
               \/ reserved[o] = MaxModelCalls
               \/ t \in interrupted[o] /\ MaxRetries = 0]_vars

\* The abstract run: held by the scheduler that is active, settled where the
\* database holds a success.
Holder == IF \E o \in Owners : Active(o) THEN CHOOSE o \in Owners : Active(o) ELSE NoOwner
SettledRows == {t \in Tasks : row[t].status \in OkStatus}
Ownership == INSTANCE RunOwnership WITH holder <- Holder, settled <- SettledRows

\* Lease, clock, pool, rows, crashes, cancels and retries together implement
\* RunOwnership: one holder at a time, work settled by it in dependency order and
\* reopened with all that rests on it.
ImplementsOwnership == Ownership!Spec
-----------------------------------------------------------------------------
(* Why they hold: an inductive invariant (while ~MayStall), conjunct by conjunct. *)

\* The active scheduler is the owner of a lease that has not expired.
LeaseHeld == \A o \in Owners : Active(o) => lease.owner = o /\ now < lease.expires

\* Before load, a call of execute knows nothing and runs nothing.
NothingBeforeLoad ==
  \A o \in Owners : phase[o] \in {"idle", "loading"} =>
    ready[o] = {} /\ \A t \in Tasks : byId[o][t] = "none" /\ future[o][t] = "none"

\* A row with an outcome has the result load will look for.
OutcomeHasResult ==
  \A t \in Tasks : row[t].status \in StoredStatus => row[t].result # 0

Loaded(o) == phase[o] \in ActivePhase \ {"loading"}

\* What the active scheduler has not merged is no success on disk.
UnmergedNotSettled ==
  \A o \in Owners, t \in Tasks :
    Loaded(o) /\ byId[o][t] = "none" => row[t].status \notin OkStatus

\* A ready task is neither merged nor started.
ReadyIsPending == \A o \in Owners : Active(o) => ready[o] \subseteq Pending(o)

\* A future of the active scheduler works on the row begin_task wrote for it, on top
\* of dependencies that scheduler has merged as successes.
FutureIsGrounded ==
  \A o \in Owners, t \in Tasks : Active(o) /\ future[o][t] # "none" =>
    /\ byId[o][t] = "none"
    /\ row[t].status = "running" /\ row[t].ordinal = Attempt(o, t)
    /\ \A d \in DependsOn[t] : byId[o][d] \in OkStatus

\* Lease, by_id, futures and rows agree at every step of every call of execute.
SchedulerInvariant ==
  /\ LeaseHeld /\ NothingBeforeLoad /\ OutcomeHasResult /\ UnmergedNotSettled
  /\ ReadyIsPending /\ FutureIsGrounded
  /\ DurableCausality /\ ResultMatchesAttempt /\ ViewMatchesStore

\* A task is on the ready list once what it depends on is merged.
ReadyHasInputs ==
  \A o \in Owners, t \in Tasks : Active(o) /\ t \in ready[o] =>
    \A d \in DependsOn[t] : byId[o][d] # "none"

\* While execute runs, whatever it has merged is durable or was settled unrun for a
\* reason that stays true.
MergedIsAccountable ==
  \A o \in Owners, t \in Tasks : Loaded(o) /\ byId[o][t] # "none" =>
    \/ row[t].status = byId[o][t]
    \/ /\ byId[o][t] \in {"blocked", "skipped"}
       /\ \/ \E d \in DependsOn[t] : byId[o][d] \notin OkStatus \cup {"none"}
          \/ reserved[o] = MaxModelCalls
          \/ t \in interrupted[o] /\ MaxRetries = 0

\* What execute returns is accounted for from the first merge on.
AccountInvariant ==
  /\ \A o \in Owners : reserved[o] <= MaxModelCalls
  /\ ReadyHasInputs /\ MergedIsAccountable

\* A result past its checkpoints is one of this iteration's and that of a finished
\* worker, and is stored before the scheduler does anything else.
PassedIsFinished ==
  \A o \in Owners, t \in Tasks : t \in passed[o] =>
    phase[o] = "collect" /\ t \in arrived[o] /\ future[o][t] \in StoredStatus

\* What a cancelled call stored used up what had passed its checkpoint before.
LateInvariant ==
  /\ PassedIsFinished /\ CancelCutsShort
  /\ \A o \in Owners : storedLate[o] # {} => stop[o] /\ passed[o] = {}
-----------------------------------------------------------------------------
(* What the documents claim and the code does not keep; the README says which runs  *)
(* refute it.                                                                     *)

\* multi-agent-system-design.md:299: the budget counts what is already on disk, a
\* resumed run does not get the whole allowance again.  (Two executes of the run.)
BudgetSpansResume ==
  \A o, p \in Owners : o # p => reserved[o] + reserved[p] <= MaxModelCalls

\* multi-agent-system-taskbook.md:342: one lease, one executor: a task is never in the
\* hands of two calls of execute at once.
OneExecutorPerTask ==
  \A o, p \in Owners, t \in Tasks :
    future[o][t] = "running" /\ future[p][t] = "running" => o = p

\* multi-agent-system-taskbook.md:183: a late result changes no durable artifact: what
\* a success on disk refers to is not revoked.
SucceededArtifactLive ==
  \A t \in Tasks : row[t].status = "succeeded" => artifact[t] # "revoked"
-----------------------------------------------------------------------------
(* Liveness, under FairSpec. *)

\* A call of execute that got the lease ends: no schedule of workers, slots and
\* merges keeps it in its loop for ever.
ExecuteEnds == \A o \in Owners : Active(o) ~> ~Active(o)

\* A worker that waits for an expert slot, or for the GPU slot with an expert slot in
\* its hands, gets it, whichever calls of execute the others belong to.
NoSlotStarvation ==
  \A o \in Owners, t \in Tasks :
    future[o][t] \in {"waiting", "slotted"} ~> future[o][t] \notin {"waiting", "slotted"}
=============================================================================
