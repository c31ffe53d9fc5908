---------------------- MODULE TaskGraphExecutorProofs ----------------------
(***************************************************************************)
(* Proofs about the scheduler, for every plan, every number of overlapping *)
(* calls of execute and every policy.                                      *)
(***************************************************************************)
EXTENDS TaskGraphExecutor, TLAPS

LEMMA AttemptInRange == \A o \in Owners, t \in Tasks : Attempt(o, t) \in Attempts
  BY DEF Attempt, Attempts

\* A row that exists stays a row when an attempt restarts or ends.
LEMMA RowUpdate ==
  ASSUME NEW r \in RowType, r.status # "absent",
         NEW s \in {"running"} \cup StoredStatus, NEW n \in {0} \cup Attempts
  PROVE  /\ [r EXCEPT !.status = s, !.result = n] \in RowType
         /\ [r EXCEPT !.status = s, !.result = n].status = s
         /\ [r EXCEPT !.status = s, !.result = n].result = n
         /\ [r EXCEPT !.status = s, !.result = n].ordinal = r.ordinal
  <1>1. r \in [status : {"running"} \cup StoredStatus, ordinal : Attempts, result : {0} \cup Attempts]
    BY DEF RowType, NoRow
  <1>2. [r EXCEPT !.status = s, !.result = n]
          \in [status : {"running"} \cup StoredStatus, ordinal : Attempts, result : {0} \cup Attempts]
    BY <1>1
  <1> QED
    BY <1>1, <1>2 DEF RowType

LEMMA TypeInit == Init => TypeOK
  BY PolicyAssumption, ExecutorAssumption
     DEF Init, TypeOK, StoreInit, StoreTypeOK, RowType, NoRow, Phases, ActivePhase,
         FutureStates, MergedStatus

\* Leaving execute keeps the types, whichever way.
LEMMA TypeLeave ==
  ASSUME TypeOK, NEW o \in Owners, NEW p \in Phases, Abort(o) \/ Fail(o, p)
  PROVE  TypeOK'
  <1>1. future' \in [Owners -> [Tasks -> FutureStates]]
    <2>1. WithoutQueued(o) \in [Tasks -> FutureStates]
      BY DEF TypeOK, WithoutQueued, FutureStates
    <2> QED
      BY <2>1 DEF TypeOK, mergeVars, Abort, Fail
  <1>2. phase' \in [Owners -> Phases]
    <2>1. \E q \in Phases : GoTo(o, q)
      BY DEF Abort, Fail, Phases
    <2> QED
      BY <2>1 DEF TypeOK, GoTo
  <1>3. lease' \in [owner : Owners \cup {NoOwner}, expires : Nat]
    BY DEF TypeOK, StoreTypeOK, mergeVars, Abort, Fail, ReleaseLease
  <1> QED
    BY <1>1, <1>2, <1>3 DEF TypeOK, StoreTypeOK, mergeVars, Abort, Fail

LEMMA TypeScheduler ==
  ASSUME TypeOK, PassedIsFinished, NEW o \in Owners, Scheduler(o)
  PROVE  TypeOK'
  <1>1. CASE Load(o)
    <2>1. byId' \in [Owners -> [Tasks -> MergedStatus \cup {"none"}]]
      <3>1. \A t \in Completed : row[t].status \in MergedStatus
        BY DEF TypeOK, StoreTypeOK, mergeVars, RowType, NoRow, Completed, MergedStatus, StoredStatus
      <3>2. [t \in Tasks |-> IF t \in Completed THEN row[t].status ELSE "none"]
              \in [Tasks -> MergedStatus \cup {"none"}]
        BY <3>1
      <3> QED
        BY <1>1, <3>2 DEF Load, TypeOK
    <2> QED
      BY <1>1, <2>1 DEF Load, TypeOK, StoreTypeOK, mergeVars, storeVars, poolVars, GoTo, Interrupted,
                        Phases, ActivePhase
  <1>2. CASE Complete(o)
    BY <1>2 DEF Complete, TypeOK, StoreTypeOK, mergeVars, poolVars, GoTo, ReleaseLease, Phases
  <1>3. CASE IterateStopped(o) \/ CollectStopped(o)
    BY <1>3, TypeLeave DEF IterateStopped, CollectStopped, Phases
  <1>4. CASE LeaseLost(o) \/ CollectMismatch(o)
    BY <1>4, TypeLeave DEF LeaseLost, CollectMismatch, Phases
  <1>5. CASE Iterate(o)
    <2>1. CASE Fail(o, "stuck")
      BY <2>1, TypeLeave DEF Phases
    <2>2. CASE BeginIteration(o)
      <3>1. lease' \in [owner : Owners \cup {NoOwner}, expires : Nat]
        <4>1. lease \in [owner : Owners \cup {NoOwner}, expires : Nat] /\ now + LeaseSeconds \in Nat
          BY PolicyAssumption DEF TypeOK, StoreTypeOK, mergeVars
        <4>2. lease' = [lease EXCEPT !.expires = now + LeaseSeconds]
          BY <2>2 DEF BeginIteration, Heartbeat
        <4> QED
          BY <4>1, <4>2
      <3>2. ready' \in [Owners -> SUBSET Tasks]
        BY <2>2 DEF BeginIteration, TypeOK, ReadyTasks, Pending
      <3>3. phase' \in [Owners -> Phases]
        BY <2>2 DEF BeginIteration, TypeOK, GoTo, Phases, ActivePhase
      <3> QED
        BY <2>2, <3>1, <3>2, <3>3 DEF BeginIteration, TypeOK, StoreTypeOK, mergeVars, poolVars
    <2> QED
      BY <1>5, <2>1, <2>2 DEF Iterate
  <1>6. CASE Wait(o)
    BY <1>6 DEF Wait, TypeOK, StoreTypeOK, mergeVars, storeVars, poolVars, GoTo, Finished, Phases,
                ActivePhase
  <1>7. CASE EndCollect(o)
    BY <1>7 DEF EndCollect, TypeOK, StoreTypeOK, mergeVars, storeVars, poolVars, GoTo, Phases, ActivePhase
  <1>8. ASSUME NEW t \in Tasks, DispatchUnavailable(o, t) PROVE TypeOK'
    BY <1>8 DEF DispatchUnavailable, SettleWithoutRunning, UnavailableStatus, TypeOK,
                StoreTypeOK, storeVars, poolVars, mergeVars, MergedStatus, StoredStatus
  <1>9. ASSUME NEW t \in Tasks, DispatchRetryExhausted(o, t) PROVE TypeOK'
    BY <1>9 DEF DispatchRetryExhausted, SettleWithoutRunning, Reserve, TypeOK,
                StoreTypeOK, storeVars, poolVars, mergeVars, MergedStatus, StoredStatus
  <1>10. ASSUME NEW t \in Tasks, DispatchStart(o, t) PROVE TypeOK'
    BY <1>10, AttemptInRange
       DEF DispatchStart, BeginTask, Reserve, TypeOK, StoreTypeOK, mergeVars, RowType, FutureStates
  <1>11. ASSUME NEW t \in Tasks, Merge(o, t) PROVE TypeOK'
    <2>1. row' \in [Tasks -> RowType]
      <3>1. row[t] \in RowType /\ future[o][t] \in StoredStatus /\ Attempt(o, t) \in Attempts
        BY <1>11, AttemptInRange DEF Merge, PassedIsFinished, TypeOK, StoreTypeOK, mergeVars
      <3>2. row[t].status # "absent" =>
              [row[t] EXCEPT !.status = future[o][t], !.result = Attempt(o, t)] \in RowType
        BY <3>1, RowUpdate
      <3> QED
        BY <1>11, <3>2 DEF Merge, CompleteTask, TypeOK, StoreTypeOK, mergeVars
    <2>2. /\ byId' \in [Owners -> [Tasks -> MergedStatus \cup {"none"}]]
          /\ future' \in [Owners -> [Tasks -> FutureStates]]
      BY <1>11 DEF Merge, PassedIsFinished, Popped, TypeOK, MergedStatus, FutureStates
    <2> QED
      BY <1>11, <2>1, <2>2 DEF Merge, TypeOK, StoreTypeOK, mergeVars
  <1>12. ASSUME NEW t \in Tasks, PassCheckpoint(o, t) PROVE TypeOK'
    BY <1>12 DEF PassCheckpoint, TypeOK, StoreTypeOK, mergeVars, storeVars, poolVars
  <1> QED
    BY <1>1, <1>2, <1>3, <1>4, <1>5, <1>6, <1>7, <1>8, <1>9, <1>10, <1>11, <1>12
       DEF Scheduler

LEMMA TypeWorker ==
  ASSUME TypeOK, NEW o \in Owners, NEW t \in Tasks, Worker(o, t)
  PROVE  TypeOK'
  <1>1. ASSUME NEW s \in FutureStates, Advance(o, t, s) PROVE TypeOK'
    BY <1>1 DEF Advance, TypeOK, StoreTypeOK, mergeVars, storeVars, schedVars
  <1>2. CASE WorkerStart(o, t) \/ TakeExpertSlot(o, t) \/ EnterSpecialist(o, t)
    BY <1>1, <1>2 DEF WorkerStart, TakeExpertSlot, EnterSpecialist, FutureStates, Settled
  <1>3. CASE FinishWithArtifact(o, t)
    BY <1>3 DEF FinishWithArtifact, TypeOK, StoreTypeOK, mergeVars, storeVars, schedVars, FutureStates,
                Settled, StoredStatus
  <1>4. CASE FinishWithout(o, t)
    BY <1>1, <1>4 DEF FinishWithout, FutureStates, Settled, StoredStatus
  <1>5. CASE DiscardLate(o, t)
    <2>1. phase' \in [Owners -> Phases]
      BY <1>5 DEF DiscardLate, TypeOK, GoTo, Phases
    <2>2. lease' \in [owner : Owners \cup {NoOwner}, expires : Nat]
      BY <1>5 DEF DiscardLate, TypeOK, StoreTypeOK, mergeVars, ReleaseLease
    <2>3. future' \in [Owners -> [Tasks -> FutureStates]]
      BY <1>5 DEF DiscardLate, Popped, TypeOK, FutureStates
    <2> QED
      BY <1>5, <2>1, <2>2, <2>3 DEF DiscardLate, TypeOK, StoreTypeOK, mergeVars
  <1> QED
    BY <1>2, <1>3, <1>4, <1>5 DEF Worker

LEMMA TypeEnvironment ==
  ASSUME TypeOK, Environment
  PROVE  TypeOK'
  <1>1. CASE Crash
    BY <1>1 DEF Crash, TypeOK, StoreTypeOK, mergeVars, storeVars, FutureStates, Phases
  <1>2. CASE Tick
    BY <1>2 DEF Tick, TypeOK, StoreTypeOK, mergeVars, schedVars, poolVars
  <1>3. ASSUME NEW t \in Tasks, Retry(t) PROVE TypeOK'
    <2>1. \A u \in Tasks : row[u].status # "absent" =>
            [row[u] EXCEPT !.status = "running", !.result = 0] \in RowType
      BY RowUpdate DEF TypeOK, StoreTypeOK, mergeVars
    <2>2. row' \in [Tasks -> RowType]
      BY <1>3, <2>1 DEF Retry, PrepareRetry, TypeOK, StoreTypeOK, mergeVars
    <2> QED
      BY <1>3, <2>2 DEF Retry, PrepareRetry, TypeOK, StoreTypeOK, mergeVars, schedVars, poolVars
  <1>4. ASSUME NEW o \in Owners, Acquire(o) PROVE TypeOK'
    BY <1>4, PolicyAssumption
       DEF Acquire, AcquireLease, TypeOK, StoreTypeOK, mergeVars, GoTo, poolVars, Phases, ActivePhase
  <1>5. ASSUME NEW o \in Owners, Refuse(o) PROVE TypeOK'
    BY <1>5 DEF Refuse, TypeOK, StoreTypeOK, mergeVars, storeVars, GoTo, poolVars, Phases
  <1>6. ASSUME NEW o \in Owners, Cancel(o) PROVE TypeOK'
    BY <1>6 DEF Cancel, TypeOK, StoreTypeOK, mergeVars, storeVars, schedVars, poolVars
  <1> QED
    BY <1>1, <1>2, <1>3, <1>4, <1>5, <1>6 DEF Environment

LEMMA TypeStep == TypeOK /\ PassedIsFinished /\ [Next]_vars => TypeOK'
  <1> SUFFICES ASSUME TypeOK, PassedIsFinished, [Next]_vars PROVE TypeOK'
    OBVIOUS
  <1>1. CASE Environment
    BY <1>1, TypeEnvironment
  <1>2. ASSUME NEW o \in Owners, Scheduler(o) PROVE TypeOK'
    BY <1>2, TypeScheduler
  <1>3. ASSUME NEW o \in Owners, NEW t \in Tasks, Worker(o, t) PROVE TypeOK'
    BY <1>3, TypeWorker
  <1>4. CASE UNCHANGED vars
    BY <1>4 DEF vars, TypeOK, StoreTypeOK
  <1> QED
    BY <1>1, <1>2, <1>3, <1>4 DEF Next
-----------------------------------------------------------------------------
(* Results between their checkpoint and the store, and the cancel that meets them. *)

\* A step that lets what has passed its checkpoint be, stores nothing and takes no
\* cancel back.
LEMMA LateQuiet ==
  ASSUME LateInvariant, storedLate' = storedLate,
         \A o \in Owners : (stop[o] => stop'[o]) /\ passed'[o] \subseteq passed[o],
         \A o \in Owners : \A t \in passed'[o] :
           /\ phase'[o] = phase[o] /\ future'[o][t] = future[o][t]
           /\ t \in arrived[o] => t \in arrived'[o]
  PROVE  LateInvariant'
  <1>1. PassedIsFinished'
    BY DEF LateInvariant, PassedIsFinished
  <1>2. CancelCutsShort'
    BY DEF LateInvariant, CancelCutsShort
  <1>3. \A o \in Owners : storedLate'[o] # {} => stop'[o] /\ passed'[o] = {}
    BY DEF LateInvariant
  <1> QED
    BY <1>1, <1>2, <1>3 DEF LateInvariant

\* A call with nothing between checkpoint and store does as it likes.
LEMMA LateOwn ==
  ASSUME LateInvariant, NEW o \in Owners, passed[o] = {},
         UNCHANGED <<passed, storedLate, stop>>,
         \A q \in Owners \ {o} : UNCHANGED <<phase[q], arrived[q], future[q]>>
  PROVE  LateInvariant'
  BY LateQuiet

LEMMA LateScheduler ==
  ASSUME TypeOK, LateInvariant, NEW o \in Owners, Scheduler(o)
  PROVE  LateInvariant'
  <1>1. phase[o] # "collect" \/ arrived[o] = {} => passed[o] = {}
    BY DEF LateInvariant, PassedIsFinished, TypeOK
  <1>2. CASE Load(o) \/ Complete(o) \/ Wait(o) \/ EndCollect(o)
    <2>1. /\ passed[o] = {} /\ UNCHANGED <<passed, storedLate, stop>>
          /\ \A q \in Owners \ {o} : UNCHANGED <<phase[q], arrived[q], future[q]>>
      BY <1>1, <1>2 DEF Load, Complete, Wait, EndCollect, GoTo, TypeOK, mergeVars, poolVars
    <2> QED
      BY <2>1, LateOwn
  <1>3. ASSUME passed[o] = {}, Abort(o) \/ \E p \in Phases : Fail(o, p)
        PROVE  LateInvariant'
    <2>1. /\ UNCHANGED <<passed, storedLate, stop>>
          /\ \A q \in Owners \ {o} : UNCHANGED <<phase[q], arrived[q], future[q]>>
      BY <1>3 DEF Abort, Fail, GoTo, TypeOK, mergeVars
    <2> QED
      BY <1>3, <2>1, LateOwn
  <1>4. CASE IterateStopped(o) \/ CollectStopped(o)
    BY <1>1, <1>3, <1>4 DEF IterateStopped, CollectStopped, InLoop, NextResult
  <1>5. CASE LeaseLost(o) \/ CollectMismatch(o)
    BY <1>1, <1>3, <1>5 DEF LeaseLost, CollectMismatch, InLoop, NextResult, Phases
  <1>6. CASE Iterate(o)
    <2>1. CASE Fail(o, "stuck")
      BY <1>1, <1>3, <1>6, <2>1 DEF Iterate, InLoop, Phases
    <2>2. CASE BeginIteration(o)
      <3>1. /\ passed[o] = {} /\ UNCHANGED <<passed, storedLate, stop>>
            /\ \A q \in Owners \ {o} : UNCHANGED <<phase[q], arrived[q], future[q]>>
        BY <1>1, <1>6, <2>2 DEF Iterate, InLoop, BeginIteration, GoTo, TypeOK, mergeVars, poolVars
      <3> QED
        BY <3>1, LateOwn
    <2> QED
      BY <1>6, <2>1, <2>2 DEF Iterate
  <1>7. ASSUME NEW t \in Tasks,
               DispatchUnavailable(o, t) \/ DispatchRetryExhausted(o, t) \/ DispatchStart(o, t)
        PROVE  LateInvariant'
    <2>1. /\ passed[o] = {} /\ UNCHANGED <<passed, storedLate, stop>>
          /\ \A q \in Owners \ {o} : UNCHANGED <<phase[q], arrived[q], future[q]>>
      BY <1>1, <1>7 DEF DispatchUnavailable, DispatchRetryExhausted, DispatchStart, CanDispatch,
                        SettleWithoutRunning, TypeOK, mergeVars, poolVars
    <2> QED
      BY <2>1, LateOwn
  <1>8. ASSUME NEW t \in Tasks, PassCheckpoint(o, t) PROVE LateInvariant'
    <2>1. /\ phase[o] = "collect" /\ t \in arrived[o] /\ future[o][t] \in StoredStatus /\ ~stop[o]
          /\ passed' = [passed EXCEPT ![o] = {t}]
          /\ UNCHANGED <<phase, arrived, future, stop, storedLate>>
      BY <1>8 DEF PassCheckpoint, Mergeable, NextResult, poolVars
    <2>2. passed'[o] = {t} /\ \A q \in Owners \ {o} : passed'[q] = passed[q]
      BY <2>1 DEF TypeOK
    <2>3. PassedIsFinished'
      BY <2>1, <2>2 DEF LateInvariant, PassedIsFinished
    <2>4. storedLate[o] = {}
      BY <2>1 DEF LateInvariant
    <2> QED
      BY <2>1, <2>2, <2>3, <2>4 DEF LateInvariant, CancelCutsShort
  \* The result a cancel came too late for: the only one, since nothing passes after it.
  <1>9. ASSUME NEW t \in Tasks, Merge(o, t) PROVE LateInvariant'
    <2>1. /\ t \in passed[o] /\ UNCHANGED <<phase, stop>>
          /\ passed'[o] = {} /\ \A q \in Owners \ {o} : passed'[q] = passed[q]
          /\ \A q \in Owners \ {o} : UNCHANGED <<arrived[q], future[q], storedLate[q]>>
          /\ storedLate'[o] = IF stop[o] THEN storedLate[o] \cup {t} ELSE storedLate[o]
      BY <1>9 DEF Merge, Popped, TypeOK
    <2>2. storedLate[o] = {}
      BY <2>1 DEF LateInvariant
    <2>3. storedLate'[o] = IF stop[o] THEN {t} ELSE {}
      BY <2>1, <2>2
    <2>4. PassedIsFinished'
      BY <2>1 DEF LateInvariant, PassedIsFinished
    <2>5. CancelCutsShort'
      BY <2>1, <2>3 DEF LateInvariant, CancelCutsShort
    <2>6. \A q \in Owners : storedLate'[q] # {} => stop'[q] /\ passed'[q] = {}
      BY <2>1, <2>3 DEF LateInvariant
    <2> QED
      BY <2>4, <2>5, <2>6 DEF LateInvariant
  <1> QED
    BY <1>2, <1>4, <1>5, <1>6, <1>7, <1>8, <1>9 DEF Scheduler

LEMMA LateWorker ==
  ASSUME TypeOK, LateInvariant, NEW o \in Owners, NEW t \in Tasks, Worker(o, t)
  PROVE  LateInvariant'
  \* A worker that moves has not finished: its task has passed nothing.
  <1>1. ASSUME future[o][t] \notin StoredStatus, NEW s \in FutureStates,
               future' = [future EXCEPT ![o][t] = s],
               UNCHANGED <<phase, arrived, passed, storedLate, stop>>
        PROVE  LateInvariant'
    <2>1. t \notin passed[o]
      BY <1>1 DEF LateInvariant, PassedIsFinished
    <2>2. \A q \in Owners, u \in Tasks : q # o \/ u # t => future'[q][u] = future[q][u]
      BY <1>1 DEF TypeOK
    <2> QED
      BY <1>1, <2>1, <2>2, LateQuiet DEF TypeOK
  <1>2. CASE WorkerStart(o, t) \/ TakeExpertSlot(o, t) \/ EnterSpecialist(o, t)
    BY <1>1, <1>2 DEF WorkerStart, TakeExpertSlot, EnterSpecialist, Advance, schedVars, mergeVars,
                      FutureStates, Settled, StoredStatus
  <1>3. CASE FinishWithArtifact(o, t)
    BY <1>1, <1>3 DEF FinishWithArtifact, schedVars, mergeVars, FutureStates, Settled, StoredStatus
  <1>4. CASE FinishWithout(o, t)
    BY <1>1, <1>4 DEF FinishWithout, Advance, schedVars, mergeVars, FutureStates, Settled,
                      StoredStatus
  <1>5. CASE DiscardLate(o, t)
    <2>1. /\ passed[o] = {} /\ UNCHANGED <<passed, storedLate, stop>>
          /\ \A q \in Owners \ {o} : UNCHANGED <<phase[q], arrived[q], future[q]>>
      BY <1>5 DEF DiscardLate, Popped, GoTo, LateInvariant, PassedIsFinished, TypeOK, mergeVars
    <2> QED
      BY <2>1, LateOwn
  <1> QED
    BY <1>2, <1>3, <1>4, <1>5 DEF Worker

LEMMA LateEnvironment ==
  ASSUME TypeOK, LateInvariant, Environment
  PROVE  LateInvariant'
  <1>1. CASE Crash
    BY <1>1, LateQuiet DEF Crash
  <1>2. CASE Tick \/ (\E t \in Tasks : Retry(t))
    BY <1>2, LateQuiet DEF Tick, Retry, schedVars, poolVars, mergeVars
  <1>3. ASSUME NEW o \in Owners, Cancel(o) PROVE LateInvariant'
    BY <1>3, LateQuiet DEF Cancel, schedVars, poolVars, mergeVars, TypeOK
  <1>4. ASSUME NEW o \in Owners, Acquire(o) \/ Refuse(o) PROVE LateInvariant'
    <2>1. /\ passed[o] = {} /\ UNCHANGED <<passed, storedLate, stop>>
          /\ \A q \in Owners \ {o} : UNCHANGED <<phase[q], arrived[q], future[q]>>
      BY <1>4 DEF Acquire, Refuse, GoTo, LateInvariant, PassedIsFinished, TypeOK, mergeVars,
                  poolVars
    <2> QED
      BY <2>1, LateOwn
  <1> QED
    BY <1>1, <1>2, <1>3, <1>4 DEF Environment

\* Types and late results, at every step of every call, with or without stalls.
LEMMA LateHolds == Spec => [](TypeOK /\ LateInvariant)
  <1>1. Init => LateInvariant
    BY DEF Init, LateInvariant, PassedIsFinished, CancelCutsShort
  <1>2. LateInvariant => PassedIsFinished
    BY DEF LateInvariant
  <1>3. ASSUME TypeOK, LateInvariant, [Next]_vars PROVE LateInvariant'
    <2>1. CASE UNCHANGED vars
      BY <1>3, <2>1, LateQuiet DEF vars
    <2> QED
      BY <1>3, <2>1, LateScheduler, LateWorker, LateEnvironment DEF Next
  <1> QED
    BY TypeInit, TypeStep, <1>1, <1>2, <1>3, PTL DEF Spec

\* Every variable of store, scheduler and pool keeps its type, with or without stalls.
THEOREM TypeCorrect == Spec => []TypeOK
  BY LateHolds, PTL

\* A cancel cuts the collecting short for every plan, however many results are waiting to
\* be merged and wherever between a checkpoint and complete_task it falls: the cancelled
\* call stores at most the one result that had passed, stalled or not.
THEOREM CancelsCutShort == Spec => []CancelCutsShort
  <1>1. LateInvariant => CancelCutsShort
    BY DEF LateInvariant
  <1> QED
    BY LateHolds, <1>1, PTL

\* Only who holds a lease gives it up, while somebody's is live.
LEMMA LeaseGivers ==
  ASSUME [Next]_vars, NEW o \in Owners, LeaseLive, lease.owner = o, lease'.owner # o, TypeOK
  PROVE  phase[o] # "draining" \/ \E t \in Tasks : DiscardLate(o, t) /\ LastLate(o, t)
  <1> SUFFICES ASSUME phase[o] = "draining"
               PROVE  \E t \in Tasks : DiscardLate(o, t) /\ LastLate(o, t)
    OBVIOUS
  <1>1. lease \in [owner : Owners \cup {NoOwner}, expires : Nat]
    BY DEF TypeOK, StoreTypeOK
  <1>2. \A q \in Owners : ReleaseLease(q) => q = o
    BY DEF ReleaseLease
  <1>3. ASSUME NEW q \in Owners, Scheduler(q) PROVE FALSE
    <2>1. CASE Load(q) \/ Wait(q) \/ EndCollect(q)
      BY <2>1 DEF Load, Wait, EndCollect, storeVars
    <2>2. CASE Complete(q)
      BY <1>2, <2>2 DEF Complete
    <2>3. CASE IterateStopped(q) \/ CollectStopped(q)
      BY <1>2, <2>3 DEF IterateStopped, CollectStopped, InLoop, NextResult, Abort
    <2>4. CASE LeaseLost(q) \/ CollectMismatch(q) \/ Iterate(q)
      <3>1. phase[q] \in {"loop", "collect"} /\ (ReleaseLease(q) \/ Heartbeat(q))
        BY <2>4 DEF LeaseLost, CollectMismatch, Iterate, InLoop, NextResult, Fail, BeginIteration
      <3>2. CASE Heartbeat(q)
        BY <1>1, <3>2 DEF Heartbeat
      <3> QED
        BY <1>2, <3>1, <3>2
    <2>5. ASSUME NEW t \in Tasks,
                 \/ DispatchUnavailable(q, t) \/ DispatchRetryExhausted(q, t)
                 \/ DispatchStart(q, t) \/ PassCheckpoint(q, t) \/ Merge(q, t)
          PROVE  FALSE
      BY <2>5 DEF DispatchUnavailable, DispatchRetryExhausted, DispatchStart, PassCheckpoint,
                  Merge, SettleWithoutRunning, storeVars
    <2> QED
      BY <1>3, <2>1, <2>2, <2>3, <2>4, <2>5 DEF Scheduler
  <1>4. ASSUME Environment PROVE FALSE
    <2>1. CASE Crash \/ Tick \/ \E t \in Tasks : Retry(t)
      BY <2>1 DEF Crash, Tick, Retry, PrepareRetry, storeVars
    <2>2. ASSUME NEW q \in Owners, Refuse(q) \/ Cancel(q) PROVE FALSE
      BY <2>2 DEF Refuse, Cancel, storeVars
    <2>3. ASSUME NEW q \in Owners, Acquire(q) PROVE FALSE
      BY <2>3 DEF Acquire, AcquireLease, LeaseAvailable
    <2> QED
      BY <1>4, <2>1, <2>2, <2>3 DEF Environment
  <1>5. ASSUME NEW q \in Owners, NEW t \in Tasks, Worker(q, t)
        PROVE  DiscardLate(o, t) /\ LastLate(o, t)
    <2>1. DiscardLate(q, t)
      BY <1>5 DEF Worker, WorkerStart, TakeExpertSlot, EnterSpecialist, FinishWithArtifact,
                  FinishWithout, Advance, storeVars
    <2>2. LastLate(q, t) /\ ReleaseLease(q)
      BY <2>1 DEF DiscardLate
    <2> QED
      BY <1>2, <2>1, <2>2
  <1> QED
    BY <1>3, <1>4, <1>5 DEF Next, vars

\* However many late workers a cancelled call left and in whatever order they finish,
\* its live lease is given up by the last of them only, stalled or not: no retry and no
\* resume starts under a specialist that still runs.
THEOREM LateWorkKeepsTheLease == Spec => LateWorkKeepsLease
  <1> DEFINE A == \A o \in Owners :
                    phase[o] = "draining" /\ LeaseLive /\ lease.owner = o /\ lease'.owner # o
                      => \A t \in Tasks : future'[o][t] = "none"
  <1>1. ASSUME TypeOK, [Next]_vars PROVE [A]_vars
    <2> SUFFICES ASSUME NEW o \in Owners, phase[o] = "draining", LeaseLive, lease.owner = o,
                        lease'.owner # o
                 PROVE  \A t \in Tasks : future'[o][t] = "none"
      OBVIOUS
    <2>1. PICK t \in Tasks : DiscardLate(o, t) /\ LastLate(o, t)
      BY <1>1, LeaseGivers
    <2>2. \A u \in Tasks \ {t} : future[o][u] = "none"
      BY <2>1 DEF LastLate, Futures
    <2>3. future' = [future EXCEPT ![o][t] = "none"] /\ future \in [Owners -> [Tasks -> FutureStates]]
      BY <1>1, <2>1 DEF DiscardLate, Popped, TypeOK
    <2> QED
      BY <2>2, <2>3
  <1> HIDE DEF A
  <1>2. Spec => [][A]_vars
    BY <1>1, TypeCorrect, PTL DEF Spec
  <1> QED
    BY <1>2 DEF A, LateWorkKeepsLease

\* What a step of one call, or of one of its workers, has to leave in order.
LEMMA UseOwn ==
  ASSUME LeaseIsInUse, NEW o \in Owners,
         \A q \in Owners \ {o} : UNCHANGED <<phase[q], future[q]>>,
         \A q \in Owners \ {o} : lease'.owner = q => lease.owner = q,
         \/ phase'[o] \in ActivePhase
         \/ lease'.owner # o
         \/ phase'[o] = "draining" /\ \E t \in Tasks : future'[o][t] # "none"
         \/ /\ lease'.owner = lease.owner /\ phase'[o] = phase[o]
            /\ \A t \in Tasks : future[o][t] # "none" => future'[o][t] # "none"
  PROVE  LeaseIsInUse'
  BY DEF LeaseIsInUse, Active, Futures

\* A call that releases the lease is not its owner behind it, and nobody else becomes it.
LEMMA Released ==
  ASSUME NEW o \in Owners, ReleaseLease(o)
  PROVE  lease'.owner # o /\ \A q \in Owners : lease'.owner = q => lease.owner = q
  BY OwnersAssumption DEF ReleaseLease

LEMMA UseScheduler ==
  ASSUME TypeOK, LeaseIsInUse, NEW o \in Owners, Scheduler(o)
  PROVE  LeaseIsInUse'
  <1> DEFINE Others == \A q \in Owners \ {o} : UNCHANGED <<phase[q], future[q]>>
  <1>t. phase \in [Owners -> Phases] /\ future \in [Owners -> [Tasks -> FutureStates]]
    BY DEF TypeOK
  <1>1. CASE Load(o) \/ Wait(o) \/ EndCollect(o)
    <2>1. Others /\ phase'[o] \in ActivePhase /\ lease' = lease
      BY <1>1, <1>t DEF Load, Wait, EndCollect, GoTo, ActivePhase, poolVars, storeVars
    <2> QED
      BY <2>1, UseOwn
  <1>2. CASE Complete(o)
    <2>1. Others /\ ReleaseLease(o)
      BY <1>2, <1>t DEF Complete, GoTo, poolVars
    <2> QED
      BY <2>1, UseOwn, Released
  <1>3. CASE IterateStopped(o) \/ CollectStopped(o)
    <2>1. Abort(o)
      BY <1>3 DEF IterateStopped, CollectStopped
    <2>2. Others /\ \A t \in Tasks : future'[o][t] = IF future[o][t] = "queued" THEN "none"
                                                                              ELSE future[o][t]
      BY <2>1, <1>t DEF Abort, GoTo, WithoutQueued
    <2>3. \/ ReleaseLease(o)
          \/ /\ phase'[o] = "draining" /\ lease' = lease
             /\ \E t \in Tasks : future[o][t] \notin {"none", "queued"}
      BY <2>1, <1>t DEF Abort, GoTo
    <2>4. CASE ReleaseLease(o)
      BY <2>2, <2>4, UseOwn, Released
    <2>5. CASE /\ phase'[o] = "draining" /\ lease' = lease
               /\ \E t \in Tasks : future[o][t] \notin {"none", "queued"}
      <3>1. \E t \in Tasks : future'[o][t] # "none"
        BY <2>2, <2>5
      <3> QED
        BY <2>2, <2>5, <3>1, UseOwn
    <2> QED
      BY <2>3, <2>4, <2>5
  <1>4. ASSUME NEW p, Fail(o, p) PROVE LeaseIsInUse'
    <2>1. Others /\ ReleaseLease(o)
      BY <1>4, <1>t DEF Fail, GoTo
    <2> QED
      BY <2>1, UseOwn, Released
  <1>5. CASE LeaseLost(o) \/ CollectMismatch(o)
    BY <1>4, <1>5 DEF LeaseLost, CollectMismatch
  <1>6. CASE Iterate(o)
    <2>1. CASE Fail(o, "stuck")
      BY <1>4, <2>1
    <2>2. CASE BeginIteration(o)
      <3>1. Others /\ phase'[o] \in ActivePhase /\ Heartbeat(o)
        BY <2>2, <1>t DEF BeginIteration, GoTo, ActivePhase, poolVars
      <3>2. \A q \in Owners : lease'.owner = q => lease.owner = q
        BY <3>1 DEF Heartbeat, TypeOK, StoreTypeOK
      <3> QED
        BY <3>1, <3>2, UseOwn
    <2> QED
      BY <1>6, <2>1, <2>2 DEF Iterate
  <1>7. ASSUME NEW t \in Tasks,
               \/ DispatchUnavailable(o, t) \/ DispatchRetryExhausted(o, t)
               \/ DispatchStart(o, t) \/ PassCheckpoint(o, t) \/ Merge(o, t)
        PROVE  LeaseIsInUse'
    <2>1. Others /\ phase'[o] \in ActivePhase /\ lease' = lease
      BY <1>7, <1>t DEF DispatchUnavailable, DispatchRetryExhausted, DispatchStart, CanDispatch,
                  PassCheckpoint, Mergeable, NextResult, Merge, Popped, SettleWithoutRunning,
                  ActivePhase, storeVars, poolVars
    <2> QED
      BY <2>1, UseOwn
  <1> QED
    BY <1>1, <1>2, <1>3, <1>5, <1>6, <1>7 DEF Scheduler

LEMMA UseWorker ==
  ASSUME TypeOK, LeaseIsInUse, NEW o \in Owners, NEW t \in Tasks, Worker(o, t)
  PROVE  LeaseIsInUse'
  <1>t. future \in [Owners -> [Tasks -> FutureStates]] /\ phase \in [Owners -> Phases]
    BY DEF TypeOK
  <1>1. ASSUME NEW s \in FutureStates \ {"none"}, future' = [future EXCEPT ![o][t] = s],
               phase' = phase, lease' = lease
        PROVE  LeaseIsInUse'
    BY <1>1, <1>t, UseOwn
  <1>2. CASE WorkerStart(o, t) \/ TakeExpertSlot(o, t) \/ EnterSpecialist(o, t)
             \/ FinishWithArtifact(o, t) \/ FinishWithout(o, t)
    <2>1. \E s \in FutureStates \ {"none"} : future' = [future EXCEPT ![o][t] = s]
      BY <1>2 DEF WorkerStart, TakeExpertSlot, EnterSpecialist, FinishWithArtifact, FinishWithout,
                  Advance, FutureStates, Settled, StoredStatus
    <2>2. phase' = phase /\ lease' = lease
      BY <1>2 DEF WorkerStart, TakeExpertSlot, EnterSpecialist, FinishWithArtifact, FinishWithout,
                  Advance, storeVars, schedVars
    <2> QED
      BY <1>1, <2>1, <2>2
  <1>3. CASE DiscardLate(o, t)
    <2>1. /\ \A q \in Owners \ {o} : UNCHANGED <<phase[q], future[q]>>
          /\ \A u \in Tasks \ {t} : future'[o][u] = future[o][u]
          /\ future[o][t] # "none" /\ phase[o] = "draining"
      BY <1>3, <1>t DEF DiscardLate, Popped, GoTo, Finished, Settled, StoredStatus
    <2>2. CASE LastLate(o, t)
      BY <1>3, <2>1, <2>2, UseOwn, Released DEF DiscardLate
    <2>3. CASE ~LastLate(o, t)
      <3>1. phase' = phase /\ lease' = lease
        BY <1>3, <2>3 DEF DiscardLate
      <3>2. PICK u \in Tasks \ {t} : future[o][u] # "none"
        BY <2>1, <2>3 DEF LastLate, Futures
      <3> QED
        BY <2>1, <3>1, <3>2, UseOwn
    <2> QED
      BY <2>2, <2>3
  <1> QED
    BY <1>2, <1>3 DEF Worker

LEMMA UseEnvironment ==
  ASSUME TypeOK, LeaseIsInUse, Environment
  PROVE  LeaseIsInUse'
  <1>t. phase \in [Owners -> Phases]
    BY DEF TypeOK
  <1>1. CASE Crash
    BY <1>1 DEF Crash, LeaseIsInUse, Active, ActivePhase, storeVars
  <1>2. CASE Tick \/ \E t \in Tasks : Retry(t)
    <2>1. UNCHANGED <<lease, phase, future>>
      BY <1>2 DEF Tick, Retry, PrepareRetry, schedVars, poolVars
    <2> QED
      BY <2>1 DEF LeaseIsInUse, Active, Futures
  <1>3. ASSUME NEW o \in Owners, Cancel(o) PROVE LeaseIsInUse'
    BY <1>3 DEF Cancel, storeVars, schedVars, poolVars, LeaseIsInUse, Active, Futures
  <1>4. ASSUME NEW o \in Owners, Acquire(o) PROVE LeaseIsInUse'
    <2>1. /\ \A q \in Owners \ {o} : UNCHANGED <<phase[q], future[q]>> /\ lease'.owner # q
          /\ phase'[o] \in ActivePhase
      BY <1>4, <1>t DEF Acquire, AcquireLease, GoTo, ActivePhase, poolVars
    <2> QED
      BY <2>1, UseOwn
  <1>5. ASSUME NEW o \in Owners, Refuse(o) PROVE LeaseIsInUse'
    <2>1. phase[o] = "idle" /\ lease' = lease /\ future' = future
          /\ \A q \in Owners \ {o} : phase'[q] = phase[q]
      BY <1>5, <1>t DEF Refuse, GoTo, storeVars, poolVars
    <2>2. lease.owner # o
      BY <2>1 DEF LeaseIsInUse, Active, ActivePhase
    <2> QED
      BY <2>1, <2>2, UseOwn
  <1> QED
    BY <1>1, <1>2, <1>3, <1>4, <1>5 DEF Environment

\* Whatever fails, is cancelled or dies in whichever call, and however many late workers
\* it leaves: nobody keeps the lease without a use for it, stalled or not.
THEOREM LeasesAreInUse == Spec => []LeaseIsInUse
  <1>1. Init => LeaseIsInUse
    BY OwnersAssumption DEF Init, StoreInit, LeaseIsInUse
  <1>2. ASSUME TypeOK, LeaseIsInUse, [Next]_vars PROVE LeaseIsInUse'
    <2>1. CASE UNCHANGED vars
      BY <1>2, <2>1 DEF vars, LeaseIsInUse, Active, Futures
    <2> QED
      BY <1>2, <2>1, UseScheduler, UseWorker, UseEnvironment DEF Next
  <1> QED
    BY <1>1, <1>2, TypeCorrect, PTL DEF Spec
-----------------------------------------------------------------------------
(* The invariant.  Every lemma below but InvInit supposes that no scheduler outsleeps *)
(* its lease only where the clock moves (Tick).                                       *)

LEMMA OneActive ==
  ASSUME LeaseHeld, NEW o \in Owners, NEW p \in Owners, Active(o), Active(p)
  PROVE  o = p
  BY DEF LeaseHeld

LEMMA ActiveKeepsLeaseLive ==
  ASSUME LeaseHeld, TypeOK, NEW o \in Owners, Active(o)
  PROVE  LeaseLive
  BY OwnersAssumption DEF LeaseHeld, LeaseLive, TypeOK, StoreTypeOK

LEMMA InvInit == Init => SchedulerInvariant
  <1> SUFFICES ASSUME Init PROVE SchedulerInvariant
    OBVIOUS
  <1>1. \A o \in Owners : ~Active(o) /\ ~Loaded(o)
    BY DEF Init, Active, Loaded, ActivePhase
  <1>2. \A t \in Tasks : row[t].status = "absent" /\ row[t].result = 0
    BY DEF Init, StoreInit, NoRow
  <1>3. NothingBeforeLoad
    BY DEF Init, NothingBeforeLoad
  <1> QED
    BY <1>1, <1>2, <1>3
       DEF SchedulerInvariant, LeaseHeld, OutcomeHasResult, UnmergedNotSettled,
           ReadyIsPending, FutureIsGrounded, DurableCausality, ResultMatchesAttempt,
           ViewMatchesStore, OkStatus, StoredStatus

\* A step that writes no row and merges nothing keeps what relates rows, by_id and futures.
LEMMA InvQuiet ==
  ASSUME TypeOK, SchedulerInvariant, UNCHANGED <<row, byId, interrupted>>,
         \A o \in Owners : Active(o)' => Active(o) \/ phase'[o] = "loading",
         \A o \in Owners : Loaded(o)' => Loaded(o),
         \A o \in Owners, t \in Tasks :
           Active(o)' /\ future'[o][t] # "none" => future[o][t] # "none",
         LeaseHeld', NothingBeforeLoad', ReadyIsPending'
  PROVE  SchedulerInvariant'
  <1>1. OutcomeHasResult' /\ DurableCausality' /\ ResultMatchesAttempt'
    BY DEF SchedulerInvariant, OutcomeHasResult, DurableCausality, ResultMatchesAttempt
  <1>2. UnmergedNotSettled'
    BY DEF SchedulerInvariant, UnmergedNotSettled
  <1>3. ViewMatchesStore'
    BY DEF SchedulerInvariant, ViewMatchesStore, NothingBeforeLoad, OkStatus
  <1>4. FutureIsGrounded'
    <2> SUFFICES ASSUME NEW o \in Owners, NEW t \in Tasks, Active(o)', future'[o][t] # "none"
                 PROVE  /\ byId[o][t] = "none"
                        /\ row[t].status = "running" /\ row[t].ordinal = Attempt(o, t)
                        /\ \A d \in DependsOn[t] : byId[o][d] \in OkStatus
      BY DEF FutureIsGrounded, Attempt
    <2>1. phase'[o] # "loading"
      BY DEF NothingBeforeLoad
    <2> QED
      BY <2>1 DEF SchedulerInvariant, FutureIsGrounded
  <1> QED
    BY <1>1, <1>2, <1>3, <1>4 DEF SchedulerInvariant

\* Once the only active scheduler has left, nobody is active.
LEMMA InvLeave ==
  ASSUME TypeOK, TypeOK', SchedulerInvariant, NEW o \in Owners, Active(o),
         NEW p \in Phases \ (ActivePhase \cup {"idle"}), GoTo(o, p),
         UNCHANGED <<row, byId, interrupted>>,
         \A q \in Owners \ {o} : future'[q] = future[q] /\ ready'[q] = ready[q]
  PROVE  SchedulerInvariant'
  <1>1. phase' = [phase EXCEPT ![o] = p] /\ phase \in [Owners -> Phases]
    BY DEF GoTo, TypeOK
  <1>2. \A q \in Owners : ~Active(q)'
    BY <1>1, OneActive DEF SchedulerInvariant, Active
  <1>3. \A q \in Owners : ~Loaded(q)'
    BY <1>2 DEF Active, Loaded
  <1>4. NothingBeforeLoad'
    BY <1>1 DEF SchedulerInvariant, NothingBeforeLoad, ActivePhase
  <1>5. \A q \in Owners : phase'[q] # "loading"
    BY <1>2 DEF Active, ActivePhase
  <1>6. LeaseHeld' /\ ReadyIsPending'
    BY <1>2 DEF LeaseHeld, ReadyIsPending
  <1> QED
    BY <1>2, <1>3, <1>4, <1>5, <1>6, InvQuiet

LEMMA InvLoad ==
  ASSUME TypeOK, SchedulerInvariant, NEW o \in Owners, Load(o)
  PROVE  SchedulerInvariant'
  <1>1. /\ phase \in [Owners -> Phases] /\ phase' = [phase EXCEPT ![o] = "loop"]
        /\ phase[o] = "loading" /\ Active(o)
    BY DEF Load, TypeOK, GoTo, Active, ActivePhase
  <1>2. \A q \in Owners : Active(q)' => q = o
    BY <1>1, OneActive DEF SchedulerInvariant, Active
  <1>3. UNCHANGED <<lease, row, now, ready, future>>
    BY DEF Load, storeVars, poolVars
  <1>4. /\ byId \in [Owners -> [Tasks -> MergedStatus \cup {"none"}]]
        /\ \A q \in Owners \ {o} : byId'[q] = byId[q]
        /\ \A t \in Tasks : byId'[o][t] = IF t \in Completed THEN row[t].status ELSE "none"
    BY DEF Load, TypeOK
  <1>5. ready[o] = {} /\ \A t \in Tasks : future[o][t] = "none"
    BY <1>1 DEF SchedulerInvariant, NothingBeforeLoad
  <1>6. LeaseHeld'
    BY <1>1, <1>2, <1>3 DEF SchedulerInvariant, LeaseHeld
  <1>7. NothingBeforeLoad'
    BY <1>1, <1>3, <1>4 DEF SchedulerInvariant, NothingBeforeLoad
  <1>8. OutcomeHasResult' /\ DurableCausality' /\ ResultMatchesAttempt'
    BY <1>3 DEF SchedulerInvariant, OutcomeHasResult, DurableCausality, ResultMatchesAttempt
  <1>9. UnmergedNotSettled'
    <2>1. \A t \in Tasks : row[t].status \in OkStatus => t \in Completed
      BY DEF SchedulerInvariant, OutcomeHasResult, OkStatus, StoredStatus, Completed
    <2>2. \A q \in Owners : Loaded(q)' => q = o
      BY <1>2 DEF Loaded, Active
    <2> QED
      BY <1>3, <1>4, <2>1, <2>2 DEF UnmergedNotSettled, OkStatus
  <1>10. ReadyIsPending'
    BY <1>2, <1>3, <1>5 DEF ReadyIsPending
  <1>11. FutureIsGrounded'
    BY <1>2, <1>3, <1>5 DEF FutureIsGrounded
  <1>12. ViewMatchesStore'
    BY <1>2, <1>3, <1>4 DEF ViewMatchesStore, OkStatus
  <1> QED
    BY <1>6, <1>7, <1>8, <1>9, <1>10, <1>11, <1>12 DEF SchedulerInvariant

\* A task settled unrun leaves rows and futures alone.
LEMMA InvSettleUnrun ==
  ASSUME TypeOK, SchedulerInvariant, NEW o \in Owners, NEW t \in Tasks, NEW s \in {"blocked", "skipped"},
         CanDispatch(o, t), SettleWithoutRunning(o, t, s)
  PROVE  SchedulerInvariant'
  <1>1. phase[o] = "dispatch" /\ Active(o) /\ t \in ready[o]
    BY DEF CanDispatch, Active, ActivePhase
  <1>2. UNCHANGED <<lease, row, now, phase, interrupted, future>>
    BY DEF SettleWithoutRunning, storeVars, poolVars
  <1>3. \A q \in Owners : Active(q)' => Active(q) /\ q = o
    BY <1>1, <1>2, OneActive DEF SchedulerInvariant, Active
  <1>4. byId[o][t] = "none" /\ future[o][t] = "none"
    BY <1>1 DEF SchedulerInvariant, ReadyIsPending, Pending
  <1>5. /\ \A q \in Owners \ {o} : byId'[q] = byId[q] /\ ready'[q] = ready[q]
        /\ byId'[o][t] = s
        /\ \A u \in Tasks \ {t} : byId'[o][u] = byId[o][u]
        /\ ready'[o] = ready[o] \ {t}
    BY DEF SettleWithoutRunning, TypeOK
  <1>6. LeaseHeld'
    BY <1>2, <1>3 DEF SchedulerInvariant, LeaseHeld
  <1>7. NothingBeforeLoad'
    BY <1>1, <1>2, <1>5 DEF SchedulerInvariant, NothingBeforeLoad
  <1>8. OutcomeHasResult' /\ DurableCausality' /\ ResultMatchesAttempt'
    BY <1>2 DEF SchedulerInvariant, OutcomeHasResult, DurableCausality, ResultMatchesAttempt
  <1>9. UnmergedNotSettled'
    <2>1. \A q \in Owners : Loaded(q)' => Loaded(q) /\ q = o
      BY <1>2, <1>3 DEF Loaded, Active
    <2> QED
      BY <1>2, <1>5, <2>1 DEF SchedulerInvariant, UnmergedNotSettled
  <1>10. ReadyIsPending'
    BY <1>2, <1>3, <1>5 DEF SchedulerInvariant, ReadyIsPending, Pending, TypeOK
  <1>11. FutureIsGrounded'
    <2> SUFFICES ASSUME NEW u \in Tasks, Active(o), future[o][u] # "none"
                 PROVE  /\ byId'[o][u] = "none"
                        /\ row[u].status = "running" /\ row[u].ordinal = Attempt(o, u)
                        /\ \A d \in DependsOn[u] : byId'[o][d] \in OkStatus
      BY <1>2, <1>3 DEF FutureIsGrounded, Attempt
    <2>1. \A d \in DependsOn[u] : d \in Tasks /\ byId[o][d] \in OkStatus
      BY DependsAssumption DEF SchedulerInvariant, FutureIsGrounded
    <2> QED
      BY <1>4, <1>5, <2>1 DEF SchedulerInvariant, FutureIsGrounded, OkStatus
  <1>12. ViewMatchesStore'
    BY <1>2, <1>3, <1>5 DEF SchedulerInvariant, ViewMatchesStore, OkStatus
  <1> QED
    BY <1>6, <1>7, <1>8, <1>9, <1>10, <1>11, <1>12 DEF SchedulerInvariant

LEMMA InvDispatchStart ==
  ASSUME TypeOK, SchedulerInvariant, NEW o \in Owners, NEW t \in Tasks, DispatchStart(o, t)
  PROVE  SchedulerInvariant'
  <1>1. phase[o] = "dispatch" /\ Active(o) /\ Loaded(o) /\ t \in ready[o]
    BY DEF DispatchStart, CanDispatch, Active, Loaded, ActivePhase
  <1>2. UNCHANGED <<lease, now, phase, byId, interrupted>>
    BY DEF DispatchStart
  <1>3. \A q \in Owners : Active(q)' => Active(q) /\ q = o
    BY <1>1, <1>2, OneActive DEF SchedulerInvariant, Active
  <1>4. byId[o][t] = "none" /\ row[t].status \notin OkStatus
    BY <1>1 DEF SchedulerInvariant, ReadyIsPending, Pending, UnmergedNotSettled
  <1>5. /\ row'[t] = [status |-> "running", ordinal |-> Attempt(o, t), result |-> 0]
        /\ \A u \in Tasks \ {t} : row'[u] = row[u]
    BY DEF DispatchStart, BeginTask, TypeOK, StoreTypeOK
  <1>6. /\ \A q \in Owners \ {o} : future'[q] = future[q] /\ ready'[q] = ready[q]
        /\ \A u \in Tasks \ {t} : future'[o][u] = future[o][u]
        /\ ready'[o] = ready[o] \ {t}
    BY DEF DispatchStart, TypeOK
  <1>7. \A d \in DependsOn[t] : byId[o][d] \in OkStatus
    BY DEF DispatchStart, CanReserve, DependencyFailed
  <1>8. LeaseHeld'
    BY <1>2, <1>3 DEF SchedulerInvariant, LeaseHeld
  <1>9. NothingBeforeLoad'
    BY <1>1, <1>2, <1>6 DEF SchedulerInvariant, NothingBeforeLoad
  <1>10. OutcomeHasResult' /\ ResultMatchesAttempt'
    BY <1>5 DEF SchedulerInvariant, OutcomeHasResult, ResultMatchesAttempt, StoredStatus
  <1>11. DurableCausality'
    <2> SUFFICES ASSUME NEW u \in Tasks, row'[u].status \in OkStatus, NEW d \in DependsOn[u]
                 PROVE  row'[d].status \in OkStatus
      BY DEF DurableCausality
    <2>1. d \in Tasks
      BY DependsAssumption
    <2>2. row[u].status \in OkStatus
      BY <1>5 DEF OkStatus
    <2>3. row[d].status \in OkStatus
      BY <2>2 DEF SchedulerInvariant, DurableCausality
    <2> QED
      BY <1>4, <1>5, <2>1, <2>3
  <1>12. UnmergedNotSettled'
    <2>1. \A q \in Owners : Loaded(q)' => Loaded(q)
      BY <1>2 DEF Loaded
    <2> QED
      BY <1>2, <1>5, <2>1 DEF SchedulerInvariant, UnmergedNotSettled, OkStatus
  <1>13. ReadyIsPending'
    BY <1>2, <1>3, <1>6 DEF SchedulerInvariant, ReadyIsPending, Pending, TypeOK
  <1>14. FutureIsGrounded'
    <2> SUFFICES ASSUME NEW u \in Tasks, Active(o), future'[o][u] # "none"
                 PROVE  /\ byId[o][u] = "none"
                        /\ row'[u].status = "running" /\ row'[u].ordinal = Attempt(o, u)
                        /\ \A d \in DependsOn[u] : byId[o][d] \in OkStatus
      BY <1>2, <1>3 DEF FutureIsGrounded, Attempt
    <2>1. CASE u = t
      BY <1>4, <1>5, <1>7, <2>1
    <2>2. CASE u # t
      BY <1>5, <1>6, <2>2 DEF SchedulerInvariant, FutureIsGrounded
    <2> QED
      BY <2>1, <2>2
  <1>15. ViewMatchesStore'
    BY <1>2, <1>3, <1>4, <1>5 DEF SchedulerInvariant, ViewMatchesStore, OkStatus
  <1> QED
    BY <1>8, <1>9, <1>10, <1>11, <1>12, <1>13, <1>14, <1>15 DEF SchedulerInvariant

LEMMA InvMerge ==
  ASSUME TypeOK, SchedulerInvariant, PassedIsFinished, NEW o \in Owners, NEW t \in Tasks, Merge(o, t)
  PROVE  SchedulerInvariant'
  <1> DEFINE outcome == future[o][t]
  <1>1. phase[o] = "collect" /\ Active(o) /\ Loaded(o) /\ outcome \in StoredStatus
    BY DEF Merge, PassedIsFinished, Active, Loaded, ActivePhase
  <1>2. UNCHANGED <<lease, now, phase, interrupted, ready>>
    BY DEF Merge
  <1>3. \A q \in Owners : Active(q)' => Active(q) /\ q = o
    BY <1>1, <1>2, OneActive DEF SchedulerInvariant, Active
  <1>4. /\ byId[o][t] = "none"
        /\ row[t].status = "running" /\ row[t].ordinal = Attempt(o, t)
        /\ \A d \in DependsOn[t] : byId[o][d] \in OkStatus
    BY <1>1 DEF SchedulerInvariant, FutureIsGrounded, StoredStatus
  <1>5. /\ row'[t].status = outcome /\ row'[t].result = Attempt(o, t)
        /\ row'[t].ordinal = row[t].ordinal
        /\ \A u \in Tasks \ {t} : row'[u] = row[u]
    <2>1. row' = [row EXCEPT ![t] = [@ EXCEPT !.status = outcome, !.result = Attempt(o, t)]]
      BY <1>4 DEF Merge, CompleteTask
    <2>2. row \in [Tasks -> RowType] /\ row[t] \in RowType /\ row[t].status # "absent"
      BY <1>4 DEF TypeOK, StoreTypeOK
    <2>3. row[t] \in [status : {"running"} \cup StoredStatus, ordinal : Attempts,
                       result : {0} \cup Attempts]
      BY <2>2 DEF RowType, NoRow
    <2>4. row'[t] = [row[t] EXCEPT !.status = outcome, !.result = Attempt(o, t)]
      BY <2>1, <2>2
    <2>5. \A u \in Tasks \ {t} : row'[u] = row[u]
      BY <2>1, <2>2
    <2> HIDE DEF outcome
    <2> QED
      BY <2>3, <2>4, <2>5
  <1>6. /\ \A q \in Owners \ {o} : byId'[q] = byId[q] /\ future'[q] = future[q]
        /\ byId'[o][t] = outcome /\ future'[o][t] = "none"
        /\ \A u \in Tasks \ {t} : byId'[o][u] = byId[o][u] /\ future'[o][u] = future[o][u]
    BY DEF Merge, Popped, TypeOK
  <1>7. Attempt(o, t) # 0
    BY AttemptInRange DEF Attempts
  <1>8. LeaseHeld'
    BY <1>2, <1>3 DEF SchedulerInvariant, LeaseHeld
  <1>9. NothingBeforeLoad'
    BY <1>1, <1>2, <1>6 DEF SchedulerInvariant, NothingBeforeLoad
  <1>10. OutcomeHasResult' /\ ResultMatchesAttempt'
    BY <1>4, <1>5, <1>7 DEF SchedulerInvariant, OutcomeHasResult, ResultMatchesAttempt
  <1>11. DurableCausality'
    <2> SUFFICES ASSUME NEW u \in Tasks, row'[u].status \in OkStatus, NEW d \in DependsOn[u]
                 PROVE  row'[d].status \in OkStatus
      BY DEF DurableCausality
    <2>1. d \in Tasks
      BY DependsAssumption
    <2>2. row[d].status \in OkStatus
      <3>1. CASE u = t
        BY <1>1, <1>4, <2>1, <3>1 DEF SchedulerInvariant, ViewMatchesStore
      <3>2. CASE u # t
        BY <1>5, <3>2 DEF SchedulerInvariant, DurableCausality
      <3> QED
        BY <3>1, <3>2
    <2>3. d # t
      BY <1>4, <2>2 DEF OkStatus
    <2> QED
      BY <1>5, <2>1, <2>2, <2>3
  <1>12. UnmergedNotSettled'
    <2>1. \A q \in Owners : Loaded(q)' => Loaded(q) /\ q = o
      BY <1>2, <1>3 DEF Loaded, Active
    <2>2. outcome # "none"
      BY <1>1 DEF StoredStatus
    <2> QED
      BY <1>5, <1>6, <2>1, <2>2 DEF SchedulerInvariant, UnmergedNotSettled
  <1>13. ReadyIsPending'
    <2>1. t \notin ready[o]
      BY <1>1 DEF SchedulerInvariant, ReadyIsPending, Pending, StoredStatus
    <2> QED
      BY <1>2, <1>3, <1>6, <2>1 DEF SchedulerInvariant, ReadyIsPending, Pending, TypeOK
  <1>14. FutureIsGrounded'
    <2> SUFFICES ASSUME NEW u \in Tasks, Active(o), future'[o][u] # "none"
                 PROVE  /\ byId'[o][u] = "none"
                        /\ row'[u].status = "running" /\ row'[u].ordinal = Attempt(o, u)
                        /\ \A d \in DependsOn[u] : byId'[o][d] \in OkStatus
      BY <1>2, <1>3 DEF FutureIsGrounded, Attempt
    <2>1. u # t /\ future[o][u] # "none"
      BY <1>6
    <2>2. \A d \in DependsOn[u] : d \in Tasks /\ byId[o][d] \in OkStatus
      BY <2>1, DependsAssumption DEF SchedulerInvariant, FutureIsGrounded
    <2>3. \A d \in DependsOn[u] : d # t
      BY <1>4, <2>2 DEF OkStatus
    <2> QED
      BY <1>5, <1>6, <2>1, <2>2, <2>3 DEF SchedulerInvariant, FutureIsGrounded
  <1>15. ViewMatchesStore'
    BY <1>2, <1>3, <1>5, <1>6 DEF SchedulerInvariant, ViewMatchesStore
  <1> QED
    BY <1>8, <1>9, <1>10, <1>11, <1>12, <1>13, <1>14, <1>15 DEF SchedulerInvariant

LEMMA InvScheduler ==
  ASSUME TypeOK, TypeOK', SchedulerInvariant, PassedIsFinished, NEW o \in Owners, Scheduler(o)
  PROVE  SchedulerInvariant'
  <1>1. CASE Load(o)
    BY <1>1, InvLoad
  <1>2. CASE Complete(o)
    BY <1>2, InvLeave DEF Complete, Active, ActivePhase, Phases, poolVars
  <1>3. ASSUME Active(o), Abort(o) PROVE SchedulerInvariant'
    <2>1. /\ GoTo(o, "draining") \/ GoTo(o, "cancelled")
          /\ UNCHANGED <<row, byId, interrupted>>
          /\ \A q \in Owners \ {o} : future'[q] = future[q] /\ ready'[q] = ready[q]
      BY <1>3 DEF Abort, TypeOK
    <2> QED
      BY <1>3, <2>1, InvLeave DEF Phases, ActivePhase
  <1>4. ASSUME Active(o), NEW p \in {"failed", "stuck"}, Fail(o, p) PROVE SchedulerInvariant'
    <2>1. /\ GoTo(o, p) /\ UNCHANGED <<row, byId, interrupted>>
          /\ \A q \in Owners \ {o} : future'[q] = future[q] /\ ready'[q] = ready[q]
      BY <1>4 DEF Fail, TypeOK
    <2> QED
      BY <1>4, <2>1, InvLeave DEF Phases, ActivePhase
  <1>5. CASE IterateStopped(o) \/ CollectStopped(o)
    BY <1>3, <1>5 DEF IterateStopped, CollectStopped, NextResult, InLoop, Active, ActivePhase
  <1>6. CASE LeaseLost(o) \/ CollectMismatch(o)
    BY <1>4, <1>6 DEF LeaseLost, CollectMismatch, NextResult, InLoop, Active, ActivePhase
  <1>7. CASE Iterate(o)
    <2>1. CASE Fail(o, "stuck")
      BY <1>4, <1>7, <2>1 DEF Iterate, InLoop, Active, ActivePhase
    <2>2. CASE BeginIteration(o)
      <3>1. Active(o) /\ Loaded(o) /\ lease.owner = o
        BY <1>7 DEF Iterate, InLoop, Active, Loaded, ActivePhase
      <3>2. /\ phase' = [phase EXCEPT ![o] = "dispatch"]
            /\ lease' = [lease EXCEPT !.expires = now + LeaseSeconds]
            /\ ready' = [ready EXCEPT ![o] = ReadyTasks(o)]
            /\ UNCHANGED <<row, now, byId, interrupted, future>>
        BY <2>2 DEF BeginIteration, Heartbeat, GoTo, poolVars
      <3>3. \A q \in Owners : (Active(q)' => Active(q) /\ q = o) /\ (Loaded(q)' => Loaded(q))
        BY <3>1, <3>2, OneActive DEF SchedulerInvariant, Active, Loaded, TypeOK
      <3>4. LeaseHeld'
        <4>1. now < now + LeaseSeconds
          BY PolicyAssumption DEF TypeOK, StoreTypeOK
        <4>2. lease'.owner = o /\ lease'.expires = now + LeaseSeconds
          BY <3>1, <3>2 DEF TypeOK, StoreTypeOK
        <4> QED
          BY <3>2, <3>3, <4>1, <4>2 DEF LeaseHeld
      <3>5. NothingBeforeLoad'
        BY <3>1, <3>2 DEF SchedulerInvariant, NothingBeforeLoad, TypeOK
      <3>6. ReadyIsPending'
        BY <3>2, <3>3 DEF ReadyIsPending, ReadyTasks, Pending, TypeOK
      <3> QED
        BY <3>2, <3>3, <3>4, <3>5, <3>6, InvQuiet
    <2> QED
      BY <1>7, <2>1, <2>2 DEF Iterate
  <1>8. CASE Wait(o) \/ EndCollect(o)
    <2>1. /\ phase[o] \in {"dispatch", "collect"} /\ Active(o) /\ Loaded(o)
          /\ \E p \in {"collect", "loop"} : phase' = [phase EXCEPT ![o] = p]
          /\ ready' = [ready EXCEPT ![o] = {}] \/ ready' = ready
          /\ UNCHANGED <<lease, row, now, byId, interrupted, future>>
      BY <1>8 DEF Wait, EndCollect, GoTo, storeVars, poolVars, Active, Loaded, ActivePhase
    <2>2. \A q \in Owners : (Active(q)' => Active(q)) /\ (Loaded(q)' => Loaded(q))
      BY <2>1 DEF Active, Loaded, TypeOK
    <2>3. LeaseHeld'
      BY <2>1, <2>2 DEF SchedulerInvariant, LeaseHeld
    <2>4. NothingBeforeLoad'
      BY <2>1 DEF SchedulerInvariant, NothingBeforeLoad, TypeOK
    <2>5. ReadyIsPending'
      BY <2>1, <2>2 DEF SchedulerInvariant, ReadyIsPending, Pending, TypeOK
    <2> QED
      BY <2>1, <2>2, <2>3, <2>4, <2>5, InvQuiet
  <1>9. ASSUME NEW t \in Tasks, DispatchUnavailable(o, t) \/ DispatchRetryExhausted(o, t)
        PROVE SchedulerInvariant'
    BY <1>9, InvSettleUnrun DEF DispatchUnavailable, DispatchRetryExhausted, UnavailableStatus
  <1>10. ASSUME NEW t \in Tasks, DispatchStart(o, t) PROVE SchedulerInvariant'
    BY <1>10, InvDispatchStart
  <1>11. ASSUME NEW t \in Tasks, Merge(o, t) PROVE SchedulerInvariant'
    BY <1>11, InvMerge
  <1>12. ASSUME NEW t \in Tasks, PassCheckpoint(o, t) PROVE SchedulerInvariant'
    <2>1. UNCHANGED <<lease, row, now, phase, byId, interrupted, ready, future>>
      BY <1>12 DEF PassCheckpoint, storeVars, poolVars
    <2>2. \A q \in Owners : (Active(q)' <=> Active(q)) /\ (Loaded(q)' <=> Loaded(q))
      BY <2>1 DEF Active, Loaded
    <2>3. LeaseHeld' /\ NothingBeforeLoad' /\ ReadyIsPending'
      BY <2>1, <2>2 DEF SchedulerInvariant, LeaseHeld, NothingBeforeLoad, ReadyIsPending, Pending
    <2> QED
      BY <2>1, <2>2, <2>3, InvQuiet
  <1> QED
    BY <1>1, <1>2, <1>5, <1>6, <1>7, <1>8, <1>9, <1>10, <1>11, <1>12 DEF Scheduler

LEMMA InvWorker ==
  ASSUME TypeOK, SchedulerInvariant, NEW o \in Owners, NEW t \in Tasks, Worker(o, t)
  PROVE  SchedulerInvariant'
  \* A worker that has not been discarded moves its future from one state to another.
  <1>1. ASSUME UNCHANGED <<lease, row, now, phase, byId, interrupted, ready>>,
               future[o][t] # "none", NEW s \in FutureStates, s # "none",
               future' = [future EXCEPT ![o][t] = s]
        PROVE  SchedulerInvariant'
    <2>1. \A q \in Owners, u \in Tasks : future'[q][u] # "none" <=> future[q][u] # "none"
      BY <1>1 DEF TypeOK
    <2>2. \A q \in Owners : (Active(q)' <=> Active(q)) /\ (Loaded(q)' <=> Loaded(q))
      BY <1>1 DEF Active, Loaded
    <2>3. LeaseHeld' /\ NothingBeforeLoad'
      BY <1>1, <2>1, <2>2 DEF SchedulerInvariant, LeaseHeld, NothingBeforeLoad
    <2>4. ReadyIsPending'
      BY <1>1, <2>1, <2>2 DEF SchedulerInvariant, ReadyIsPending, Pending
    <2> QED
      BY <1>1, <2>1, <2>2, <2>3, <2>4, InvQuiet
  <1>2. CASE WorkerStart(o, t) \/ TakeExpertSlot(o, t) \/ EnterSpecialist(o, t)
    BY <1>1, <1>2 DEF WorkerStart, TakeExpertSlot, EnterSpecialist, Advance, storeVars,
                      schedVars, FutureStates, Settled
  <1>3. CASE FinishWithArtifact(o, t)
    BY <1>1, <1>3 DEF FinishWithArtifact, storeVars, schedVars, FutureStates, Settled,
                      StoredStatus
  <1>4. CASE FinishWithout(o, t)
    BY <1>1, <1>4 DEF FinishWithout, Advance, storeVars, schedVars, FutureStates, Settled,
                      StoredStatus
  <1>5. CASE DiscardLate(o, t)
    <2>1. /\ phase[o] = "draining" /\ ~Active(o)
          /\ UNCHANGED <<row, now, byId, interrupted, ready>>
          /\ future' = [future EXCEPT ![o][t] = "none"]
          /\ \/ phase' = phase /\ lease' = lease
             \/ phase' = [phase EXCEPT ![o] = "cancelled"] /\ ReleaseLease(o)
      BY <1>5 DEF DiscardLate, Popped, GoTo, Active, ActivePhase
    <2>2. \A q \in Owners : (Active(q)' => Active(q)) /\ (Loaded(q)' => Loaded(q))
      BY <2>1 DEF Active, Loaded, ActivePhase, TypeOK
    <2>3. \A q \in Owners, u \in Tasks : future'[q][u] # "none" => future[q][u] # "none"
      BY <2>1 DEF TypeOK
    <2>4. LeaseHeld'
      BY <2>1, <2>2 DEF SchedulerInvariant, LeaseHeld, ReleaseLease
    <2>5. NothingBeforeLoad'
      BY <2>1, <2>3 DEF SchedulerInvariant, NothingBeforeLoad, TypeOK
    <2>6. ReadyIsPending'
      BY <2>1, <2>2, <2>3 DEF SchedulerInvariant, ReadyIsPending, Pending
    <2> QED
      BY <2>1, <2>2, <2>3, <2>4, <2>5, <2>6, InvQuiet
  <1> QED
    BY <1>2, <1>3, <1>4, <1>5 DEF Worker

\* A reopened set of tasks takes with it whatever depends on one of its members.
LEMMA DescendantsClosed ==
  ASSUME NEW t \in Tasks
  PROVE  DownClosed(Descendants(t))
  BY DependsAssumption DEF DownClosed, Descendants

\* What a retry writes, seen from the row of a task.
LEMMA RetryWrites ==
  ASSUME TypeOK, NEW t \in Tasks, Retry(t), NEW u \in Tasks
  PROVE  IF u \in Descendants(t) /\ row[u].status # "absent"
            THEN row'[u].status = "running" /\ row'[u].result = 0
            ELSE row'[u] = row[u]
  <1>1. CASE u \in Descendants(t) /\ row[u].status # "absent"
    <2>1. row'[u] = [row[u] EXCEPT !.status = "running", !.result = 0]
      BY <1>1 DEF Retry, PrepareRetry
    <2>2. row[u] \in [status : {"running"} \cup StoredStatus, ordinal : Attempts,
                      result : {0} \cup Attempts]
      BY <1>1 DEF TypeOK, StoreTypeOK, RowType, NoRow
    <2> QED
      BY <1>1, <2>1, <2>2
  <1>2. CASE ~(u \in Descendants(t) /\ row[u].status # "absent")
    BY <1>2 DEF Retry, PrepareRetry
  <1> QED
    BY <1>1, <1>2

\* A retry finds no active scheduler and leaves no success above what it reopens.
LEMMA InvRetry ==
  ASSUME TypeOK, SchedulerInvariant, NEW t \in Tasks, Retry(t)
  PROVE  SchedulerInvariant' /\ \A o \in Owners : ~Active(o)
  <1>1. \A o \in Owners : ~Active(o)
    BY ActiveKeepsLeaseLive DEF SchedulerInvariant, Retry, PrepareRetry, MayRetry
  <1>2. UNCHANGED <<lease, now, phase, byId, interrupted, ready, future>>
    BY DEF Retry, PrepareRetry, schedVars, poolVars
  <1>3. \A o \in Owners : ~Active(o)' /\ ~Loaded(o)'
    BY <1>1, <1>2 DEF Active, Loaded
  <1>4. \A u \in Tasks :
          IF u \in Descendants(t) /\ row[u].status # "absent"
            THEN row'[u].status = "running" /\ row'[u].result = 0
            ELSE row'[u] = row[u]
    BY RetryWrites
  <1>5. OutcomeHasResult' /\ ResultMatchesAttempt'
    BY <1>4 DEF SchedulerInvariant, OutcomeHasResult, ResultMatchesAttempt, StoredStatus
  <1>6. DurableCausality'
    <2> SUFFICES ASSUME NEW u \in Tasks, row'[u].status \in OkStatus, NEW d \in DependsOn[u]
                 PROVE  row'[d].status \in OkStatus
      BY DEF DurableCausality
    <2>1. row'[u] = row[u] /\ u \notin Descendants(t)
      BY <1>4 DEF OkStatus
    <2>2. d \in Tasks /\ d \notin Descendants(t)
      BY <2>1, DescendantsClosed, DependsAssumption DEF DownClosed
    <2> QED
      BY <1>4, <2>1, <2>2 DEF SchedulerInvariant, DurableCausality
  <1>7. NothingBeforeLoad'
    BY <1>2 DEF SchedulerInvariant, NothingBeforeLoad
  <1> QED
    BY <1>1, <1>3, <1>5, <1>6, <1>7
       DEF SchedulerInvariant, LeaseHeld, UnmergedNotSettled, ReadyIsPending,
           FutureIsGrounded, ViewMatchesStore

LEMMA InvEnvironment ==
  ASSUME MayStall = FALSE, TypeOK, TypeOK', SchedulerInvariant, Environment
  PROVE  SchedulerInvariant'
  <1>1. CASE Crash
    <2>1. UNCHANGED <<row, byId, interrupted>>
      BY <1>1 DEF Crash, storeVars
    <2>2. \A o \in Owners : phase'[o] \notin ActivePhase
                           /\ (phase'[o] = "idle" => phase[o] = "idle")
      BY <1>1 DEF Crash, Active, ActivePhase
    <2>3. \A o \in Owners : ~Active(o)' /\ ~Loaded(o)'
      BY <2>2 DEF Active, Loaded
    <2>4. NothingBeforeLoad'
      BY <1>1, <2>1, <2>2 DEF Crash, SchedulerInvariant, NothingBeforeLoad, ActivePhase
    <2>5. LeaseHeld' /\ ReadyIsPending'
      BY <2>3 DEF LeaseHeld, ReadyIsPending
    <2> QED
      BY <2>1, <2>3, <2>4, <2>5, InvQuiet
  <1>2. CASE Tick
    <2>1. UNCHANGED <<lease, row, phase, byId, interrupted, ready, future>>
      BY <1>2 DEF Tick, schedVars, poolVars
    <2>2. \A o \in Owners : (Active(o)' <=> Active(o)) /\ (Loaded(o)' <=> Loaded(o))
      BY <2>1 DEF Active, Loaded
    <2>3. LeaseHeld'
      BY <1>2, <2>1, <2>2 DEF Tick, SchedulerInvariant, LeaseHeld
    <2>4. NothingBeforeLoad' /\ ReadyIsPending'
      BY <2>1, <2>2 DEF SchedulerInvariant, NothingBeforeLoad, ReadyIsPending, Pending
    <2> QED
      BY <2>1, <2>2, <2>3, <2>4, InvQuiet
  <1>3. ASSUME NEW t \in Tasks, Retry(t) PROVE SchedulerInvariant'
    BY <1>3, InvRetry
  <1>4. ASSUME NEW o \in Owners, Acquire(o) PROVE SchedulerInvariant'
    <2>1. /\ phase[o] = "idle" /\ LeaseAvailable(o)
          /\ phase' = [phase EXCEPT ![o] = "loading"]
          /\ lease' = [owner |-> o, expires |-> now + LeaseSeconds]
          /\ UNCHANGED <<row, now, byId, interrupted, ready, future>>
      BY <1>4 DEF Acquire, AcquireLease, GoTo, poolVars
    <2>2. \A q \in Owners : ~Active(q)
      <3>1. ~Active(o)
        BY <2>1 DEF Active, ActivePhase
      <3>2. \A q \in Owners : Active(q) => lease.owner = q /\ LeaseLive
        BY ActiveKeepsLeaseLive DEF SchedulerInvariant, LeaseHeld
      <3> QED
        BY <2>1, <3>1, <3>2 DEF LeaseAvailable
    <2>3. \A q \in Owners : (Active(q)' => q = o) /\ ~Loaded(q)' /\ phase'[o] = "loading"
      BY <2>1, <2>2 DEF Active, Loaded, ActivePhase, TypeOK
    <2>4. LeaseHeld'
      <3>1. now < now + LeaseSeconds
        BY PolicyAssumption DEF TypeOK, StoreTypeOK
      <3> QED
        BY <2>1, <2>3, <3>1 DEF LeaseHeld
    <2>5. NothingBeforeLoad'
      BY <2>1 DEF SchedulerInvariant, NothingBeforeLoad, TypeOK
    <2>6. ReadyIsPending'
      BY <2>1, <2>3, <2>5 DEF ReadyIsPending, NothingBeforeLoad
    <2>7. \A q \in Owners, t \in Tasks : Active(q)' => future'[q][t] = "none"
      BY <2>3, <2>5 DEF NothingBeforeLoad
    <2> QED
      BY <2>1, <2>3, <2>4, <2>5, <2>6, <2>7, InvQuiet
  <1>5. ASSUME NEW o \in Owners, Refuse(o) \/ Cancel(o) PROVE SchedulerInvariant'
    <2>1. /\ phase' = phase \/ phase' = [phase EXCEPT ![o] = "rejected"]
          /\ UNCHANGED <<lease, row, now, byId, interrupted, ready, future>>
      BY <1>5 DEF Refuse, Cancel, GoTo, storeVars, schedVars, poolVars
    <2>2. \A q \in Owners : (Active(q)' => Active(q)) /\ (Loaded(q)' => Loaded(q))
      BY <2>1 DEF Active, Loaded, ActivePhase, TypeOK
    <2>3. LeaseHeld' /\ NothingBeforeLoad' /\ ReadyIsPending'
      BY <2>1, <2>2 DEF SchedulerInvariant, LeaseHeld, NothingBeforeLoad, ReadyIsPending,
                        Pending, TypeOK
    <2> QED
      BY <2>1, <2>2, <2>3, InvQuiet
  <1> QED
    BY <1>1, <1>2, <1>3, <1>4, <1>5 DEF Environment

LEMMA InvStep ==
  ASSUME MayStall = FALSE, TypeOK, TypeOK', SchedulerInvariant, PassedIsFinished, [Next]_vars
  PROVE  SchedulerInvariant'
  <1>1. CASE Environment
    BY <1>1, InvEnvironment
  <1>2. ASSUME NEW o \in Owners, Scheduler(o) PROVE SchedulerInvariant'
    BY <1>2, InvScheduler
  <1>3. ASSUME NEW o \in Owners, NEW t \in Tasks, Worker(o, t) PROVE SchedulerInvariant'
    BY <1>3, InvWorker
  <1>4. CASE UNCHANGED vars
    BY <1>4 DEF vars, SchedulerInvariant, LeaseHeld, NothingBeforeLoad, OutcomeHasResult,
                UnmergedNotSettled, ReadyIsPending, FutureIsGrounded, DurableCausality,
                ResultMatchesAttempt, ViewMatchesStore, Active, Loaded, Pending, Attempt
  <1> QED
    BY <1>1, <1>2, <1>3, <1>4 DEF Next
-----------------------------------------------------------------------------
(* The theorems that suppose that no scheduler outsleeps its lease: one that does    *)
(* overwrites the row of the attempt that replaced its own.                          *)

\* Lease, by_id, futures and rows agree at every step of every call of execute.
THEOREM InvariantHolds ==
  ASSUME MayStall = FALSE
  PROVE  Spec => []SchedulerInvariant
  <1>1. TypeOK /\ TypeOK' /\ SchedulerInvariant /\ LateInvariant /\ [Next]_vars
          => SchedulerInvariant'
    BY InvStep DEF LateInvariant
  <1> QED
    BY InvInit, LateHolds, <1>1, PTL DEF Spec

\* acquire_lease, heartbeat and release_lease admit one call of execute at a time.
THEOREM OneSchedulerAtATime ==
  ASSUME MayStall = FALSE
  PROVE  Spec => []SingleScheduler
  <1>1. SchedulerInvariant => SingleScheduler
    BY OneActive DEF SchedulerInvariant, SingleScheduler
  <1> QED
    BY InvariantHolds, <1>1, PTL

\* What begin_task, complete_task and prepare_retry leave on disk is closed under
\* depends_on, whatever the plan: a success rests on successes.
THEOREM SuccessesRestOnSuccesses ==
  ASSUME MayStall = FALSE
  PROVE  Spec => []DurableCausality
  <1>1. SchedulerInvariant => DurableCausality
    BY DEF SchedulerInvariant
  <1> QED
    BY InvariantHolds, <1>1, PTL

\* Although complete_task compares no attempt, a stored result is always of the attempt
\* its row counts.
THEOREM ResultsMatchAttempts ==
  ASSUME MayStall = FALSE
  PROVE  Spec => []ResultMatchesAttempt
  <1>1. SchedulerInvariant => ResultMatchesAttempt
    BY DEF SchedulerInvariant
  <1> QED
    BY InvariantHolds, <1>1, PTL

\* The merged results of the running execute are what a later load would find.
THEOREM ViewsMatchStore ==
  ASSUME MayStall = FALSE
  PROVE  Spec => []ViewMatchesStore
  <1>1. SchedulerInvariant => ViewMatchesStore
    BY DEF SchedulerInvariant
  <1> QED
    BY InvariantHolds, <1>1, PTL
-----------------------------------------------------------------------------
(* Action properties and the refinement, from the same invariant. *)

\* Only these three write rows.
LEMMA RowWriters ==
  ASSUME [Next]_vars
  PROVE  \/ UNCHANGED row
         \/ \E t \in Tasks : Retry(t)
         \/ \E o \in Owners, t \in Tasks : DispatchStart(o, t) \/ Merge(o, t)
  <1>1. ASSUME NEW o \in Owners, Scheduler(o),
               \A t \in Tasks : ~DispatchStart(o, t) /\ ~Merge(o, t)
        PROVE  UNCHANGED row
    BY <1>1 DEF Scheduler, Load, Complete, IterateStopped, LeaseLost, Iterate, BeginIteration,
                Wait, CollectStopped, CollectMismatch, EndCollect, Abort, Fail,
                DispatchUnavailable, DispatchRetryExhausted, SettleWithoutRunning,
                PassCheckpoint, storeVars
  <1>2. ASSUME NEW o \in Owners, NEW t \in Tasks, Worker(o, t) PROVE UNCHANGED row
    BY <1>2 DEF Worker, WorkerStart, TakeExpertSlot, EnterSpecialist, FinishWithArtifact,
                FinishWithout, DiscardLate, Advance, storeVars
  <1>3. ASSUME Environment, \A t \in Tasks : ~Retry(t) PROVE UNCHANGED row
    BY <1>3 DEF Environment, Crash, Tick, Acquire, Refuse, Cancel, storeVars
  <1> QED
    BY <1>1, <1>2, <1>3 DEF Next, vars

\* The two other writes.
LEMMA StartWrites ==
  ASSUME TypeOK, SchedulerInvariant, NEW o \in Owners, NEW t \in Tasks, DispatchStart(o, t)
  PROVE  /\ row[t].status \notin OkStatus /\ row'[t].status = "running"
         /\ \A u \in Tasks \ {t} : row'[u] = row[u]
  <1>1. Active(o) /\ Loaded(o) /\ t \in ready[o]
    BY DEF DispatchStart, CanDispatch, Active, Loaded, ActivePhase
  <1>2. byId[o][t] = "none" /\ row[t].status \notin OkStatus
    BY <1>1 DEF SchedulerInvariant, ReadyIsPending, Pending, UnmergedNotSettled
  <1> QED
    BY <1>2 DEF DispatchStart, BeginTask, TypeOK, StoreTypeOK

LEMMA MergeWrites ==
  ASSUME TypeOK, SchedulerInvariant, PassedIsFinished, NEW o \in Owners, NEW t \in Tasks,
         Merge(o, t)
  PROVE  /\ Active(o)
         /\ row[t].status = "running" /\ row'[t].status \in StoredStatus
         /\ \A d \in DependsOn[t] : row[d].status \in OkStatus
         /\ \A u \in Tasks \ {t} : row'[u] = row[u]
  <1>1. phase[o] = "collect" /\ Active(o) /\ future[o][t] \in StoredStatus
    BY DEF Merge, PassedIsFinished, Active, ActivePhase
  <1>2. row[t].status = "running" /\ \A d \in DependsOn[t] : byId[o][d] \in OkStatus
    BY <1>1 DEF SchedulerInvariant, FutureIsGrounded, StoredStatus
  <1>3. \A d \in DependsOn[t] : row[d].status \in OkStatus
    BY <1>1, <1>2, DependsAssumption DEF SchedulerInvariant, ViewMatchesStore
  <1>4. row' = [row EXCEPT ![t] = [@ EXCEPT !.status = future[o][t], !.result = Attempt(o, t)]]
    BY <1>2 DEF Merge, CompleteTask
  <1>5. row[t] \in [status : {"running"} \cup StoredStatus, ordinal : Attempts,
                    result : {0} \cup Attempts]
    BY <1>2 DEF TypeOK, StoreTypeOK, RowType, NoRow
  <1>6. row'[t] = [row[t] EXCEPT !.status = future[o][t], !.result = Attempt(o, t)]
        /\ \A u \in Tasks \ {t} : row'[u] = row[u]
    BY <1>4 DEF TypeOK, StoreTypeOK
  <1>7. row'[t].status = future[o][t]
    BY <1>5, <1>6
  <1> QED
    BY <1>1, <1>2, <1>3, <1>6, <1>7

\* Resume, crash and budget exhaustion never re-run a task whose success is on disk.
THEOREM SuccessesAreReused ==
  ASSUME MayStall = FALSE
  PROVE  Spec => SuccessIsReused
  <1> DEFINE A == \A t \in Tasks :
                    row[t].status = "succeeded" /\ row'[t] # row[t]
                      => row'[t].status = "running" /\ \A o \in Owners : ~Active(o)
  <1>1. ASSUME TypeOK, LateInvariant, SchedulerInvariant, [Next]_vars PROVE [A]_vars
    <2>1. CASE UNCHANGED row
      BY <2>1
    <2>2. ASSUME NEW t \in Tasks, Retry(t) PROVE A
      <3>1. \A o \in Owners : ~Active(o)
        BY <1>1, <2>2, InvRetry
      <3> QED
        BY <1>1, <2>2, <3>1, RetryWrites
    <2>3. ASSUME NEW o \in Owners, NEW t \in Tasks, DispatchStart(o, t) PROVE A
      BY <1>1, <2>3, StartWrites DEF OkStatus
    <2>4. ASSUME NEW o \in Owners, NEW t \in Tasks, Merge(o, t) PROVE A
      BY <1>1, <2>4, MergeWrites DEF LateInvariant
    <2> QED
      BY <1>1, <2>1, <2>2, <2>3, <2>4, RowWriters
  <1> HIDE DEF A
  <1>2. Spec => [][A]_vars
    BY <1>1, LateHolds, InvariantHolds, PTL DEF Spec
  <1> QED
    BY <1>2 DEF A, SuccessIsReused

\* Who holds the abstract run, read off the concrete state.
LEMMA HolderValue ==
  ASSUME LeaseHeld
  PROVE  /\ \A o \in Owners : Active(o) => Holder = o
         /\ (\A o \in Owners : ~Active(o)) => Holder = NoOwner
  BY OneActive DEF Holder

LEMMA HolderValueNext ==
  ASSUME LeaseHeld'
  PROVE  /\ \A o \in Owners : Active(o)' => Holder' = o
         /\ (\A o \in Owners : ~Active(o)') => Holder' = NoOwner
  <1>1. \A o, q \in Owners : Active(o)' /\ Active(q)' => o = q
    BY DEF LeaseHeld
  <1> QED
    BY <1>1 DEF Holder

\* The abstract run sees no step that keeps the holder and the settled tasks.
LEMMA Stutters ==
  ASSUME LeaseHeld, LeaseHeld', \A o \in Owners : Active(o)' <=> Active(o),
         SettledRows' = SettledRows
  PROVE  UNCHANGED <<Holder, SettledRows>>
  <1>1. CASE \E o \in Owners : Active(o)
    BY <1>1, HolderValue, HolderValueNext
  <1>2. CASE \A o \in Owners : ~Active(o)
    BY <1>2, HolderValue, HolderValueNext
  <1> QED
    BY <1>1, <1>2

\* Starting and leaving execute.
LEMMA HolderSteps ==
  ASSUME TypeOK, TypeOK', SchedulerInvariant, SchedulerInvariant', Next, UNCHANGED row
  PROVE  \/ Ownership!Yield
         \/ \E o \in Owners : Ownership!Grant(o)
         \/ \A o \in Owners : Active(o)' <=> Active(o)
  <1> USE DEF SchedulerInvariant
  <1>1. UNCHANGED SettledRows
    BY DEF SettledRows
  \* One call goes from one phase to another: it starts, leaves, or neither.
  <1>2. ASSUME NEW o \in Owners, NEW p \in Phases, GoTo(o, p)
        PROVE  \/ Ownership!Yield
               \/ Ownership!Grant(o)
               \/ \A q \in Owners : Active(q)' <=> Active(q)
    <2>1. \A q \in Owners : phase'[q] = IF q = o THEN p ELSE phase[q]
      BY <1>2 DEF GoTo, TypeOK
    <2>2. CASE Active(o) /\ ~Active(o)'
      <3>1. \A q \in Owners : ~Active(q)'
        BY <2>1, <2>2, OneActive DEF Active
      <3>2. Holder = o /\ Holder' = NoOwner /\ o # NoOwner
        BY <2>2, <3>1, HolderValue, HolderValueNext, OwnersAssumption
      <3> QED
        BY <1>1, <3>2 DEF Ownership!Yield
    <2>3. CASE ~Active(o) /\ Active(o)'
      <3>1. \A q \in Owners : ~Active(q)
        <4> SUFFICES ASSUME NEW q \in Owners, Active(q), q # o PROVE FALSE
          BY <2>3
        <4>1. Active(q)'
          BY <2>1 DEF Active
        <4> QED
          BY <2>3, <4>1 DEF LeaseHeld
      <3>2. Holder = NoOwner /\ Holder' = o
        BY <2>3, <3>1, HolderValue, HolderValueNext
      <3> QED
        BY <1>1, <3>2 DEF Ownership!Grant
    <2>4. CASE Active(o)' <=> Active(o)
      BY <2>1, <2>4 DEF Active
    <2> QED
      BY <2>2, <2>3, <2>4
  <1>3. ASSUME phase' = phase PROVE \A o \in Owners : Active(o)' <=> Active(o)
    BY <1>3 DEF Active
  <1>4. CASE Environment
    <2>1. CASE Crash
      <3>1. \A o \in Owners : ~Active(o)'
        BY <2>1 DEF Crash, Active, ActivePhase
      <3>2. CASE \E o \in Owners : Active(o)
        BY <1>1, <3>1, <3>2, HolderValue, HolderValueNext, OwnersAssumption DEF Ownership!Yield
      <3> QED
        BY <3>1, <3>2
    <2>2. CASE Tick \/ (\E t \in Tasks : Retry(t)) \/ (\E o \in Owners : Cancel(o))
      BY <1>3, <2>2 DEF Tick, Retry, Cancel, schedVars
    <2>3. ASSUME NEW o \in Owners, Acquire(o) \/ Refuse(o)
          PROVE  \E p \in Phases : GoTo(o, p)
      BY <2>3 DEF Acquire, Refuse, Phases, ActivePhase
    <2> QED
      BY <1>2, <1>4, <2>1, <2>2, <2>3 DEF Environment
  <1>5. ASSUME NEW o \in Owners, Scheduler(o)
        PROVE  phase' = phase \/ \E p \in Phases : GoTo(o, p)
    <2>1. CASE Load(o) \/ Complete(o) \/ Wait(o) \/ EndCollect(o)
      BY <2>1 DEF Load, Complete, Wait, EndCollect, Phases, ActivePhase
    <2>2. CASE IterateStopped(o) \/ CollectStopped(o)
      BY <2>2 DEF IterateStopped, CollectStopped, Abort, Phases
    <2>3. CASE LeaseLost(o) \/ CollectMismatch(o) \/ Iterate(o)
      BY <2>3 DEF LeaseLost, CollectMismatch, Iterate, BeginIteration, Fail, Phases, ActivePhase
    <2>4. ASSUME NEW t \in Tasks,
                 \/ DispatchUnavailable(o, t) \/ DispatchRetryExhausted(o, t)
                 \/ DispatchStart(o, t) \/ PassCheckpoint(o, t) \/ Merge(o, t)
          PROVE  phase' = phase
      BY <2>4 DEF DispatchUnavailable, DispatchRetryExhausted, DispatchStart, PassCheckpoint,
                  Merge, SettleWithoutRunning
    <2> QED
      BY <1>5, <2>1, <2>2, <2>3, <2>4 DEF Scheduler
  <1>6. ASSUME NEW o \in Owners, NEW t \in Tasks, Worker(o, t)
        PROVE  phase' = phase \/ \E p \in Phases : GoTo(o, p)
    BY <1>6 DEF Worker, WorkerStart, TakeExpertSlot, EnterSpecialist, FinishWithArtifact,
                FinishWithout, DiscardLate, Advance, schedVars, Phases
  <1> QED
    BY <1>2, <1>3, <1>4, <1>5, <1>6 DEF Next

\* Writing rows: a merge settles a task or nothing, a start settles nothing, a retry reopens.
LEMMA SettledSteps ==
  ASSUME TypeOK, TypeOK', SchedulerInvariant, SchedulerInvariant', PassedIsFinished, Next
  PROVE  \/ UNCHANGED row
         \/ Ownership!Next
         \/ UNCHANGED <<Holder, SettledRows>>
  <1> USE DEF SchedulerInvariant
  <1>1. ASSUME NEW t \in Tasks, Retry(t)
        PROVE  Ownership!Next \/ UNCHANGED <<Holder, SettledRows>>
    <2> DEFINE T == SettledRows \cap Descendants(t)
    <2>1. \A o \in Owners : ~Active(o) /\ ~Active(o)'
      BY <1>1, InvRetry DEF Retry, schedVars, Active
    <2>2. Holder = NoOwner /\ Holder' = NoOwner
      BY <2>1, HolderValue, HolderValueNext
    <2>3. SettledRows' = SettledRows \ T
      <3>1. \A u \in Tasks :
              row'[u].status \in OkStatus <=> row[u].status \in OkStatus /\ u \notin Descendants(t)
        BY <1>1, RetryWrites DEF OkStatus
      <3> QED
        BY <3>1 DEF SettledRows
    <2>4. \A u \in SettledRows : DependsOn[u] \cap T # {} => u \in T
      BY DescendantsClosed DEF DownClosed, SettledRows
    <2>5. CASE T = {}
      BY <2>2, <2>3, <2>5
    <2>6. CASE T # {}
      <3>1. Ownership!Reopen(T)
        BY <2>2, <2>3, <2>4, <2>6 DEF Ownership!Reopen
      <3>2. T \in SUBSET SettledRows
        OBVIOUS
      <3> HIDE DEF T
      <3> QED
        BY <3>1, <3>2 DEF Ownership!Next
    <2> QED
      BY <2>5, <2>6
  <1>2. ASSUME NEW o \in Owners, NEW t \in Tasks, DispatchStart(o, t)
        PROVE  UNCHANGED <<Holder, SettledRows>>
    <2>1. SettledRows' = SettledRows
      <3>1. \A u \in Tasks : row'[u].status \in OkStatus <=> row[u].status \in OkStatus
        BY <1>2, StartWrites DEF OkStatus
      <3> QED
        BY <3>1 DEF SettledRows
    <2>2. \A q \in Owners : Active(q)' <=> Active(q)
      BY <1>2 DEF DispatchStart, Active
    <2> QED
      BY <2>1, <2>2, Stutters
  <1>3. ASSUME NEW o \in Owners, NEW t \in Tasks, Merge(o, t)
        PROVE  Ownership!Next \/ UNCHANGED <<Holder, SettledRows>>
    <2>1. /\ Active(o) /\ row[t].status = "running"
          /\ \A d \in DependsOn[t] : row[d].status \in OkStatus
          /\ \A u \in Tasks \ {t} : row'[u] = row[u]
      BY <1>3, MergeWrites
    <2>2. \A q \in Owners : Active(q)' <=> Active(q)
      BY <1>3 DEF Merge, Active
    <2>3. CASE row'[t].status \in OkStatus
      <3>1. t \notin SettledRows /\ SettledRows' = SettledRows \cup {t}
        BY <2>1, <2>3 DEF SettledRows, OkStatus
      <3>2. DependsOn[t] \subseteq SettledRows
        BY <2>1, DependsAssumption DEF SettledRows
      <3>3. Holder = o /\ Holder' = o /\ o # NoOwner
        BY <2>1, <2>2, HolderValue, HolderValueNext, OwnersAssumption
      <3>4. Ownership!Settle(t)
        BY <3>1, <3>2, <3>3 DEF Ownership!Settle
      <3> QED
        BY <3>4 DEF Ownership!Next
    <2>4. CASE row'[t].status \notin OkStatus
      <3>1. SettledRows' = SettledRows
        BY <2>1, <2>4 DEF SettledRows, OkStatus
      <3> QED
        BY <2>2, <3>1, Stutters
    <2> QED
      BY <2>3, <2>4
  <1> QED
    BY <1>1, <1>2, <1>3, RowWriters

\* Lease, clock, pool, checkpoint rows, crashes, cancels and retries implement the
\* abstract run of RunOwnership: one holder at a time, work settled in dependency order
\* and reopened, while nobody holds the run, with all that rests on it.
THEOREM SchedulerImplementsOwnership ==
  ASSUME MayStall = FALSE
  PROVE  Spec => ImplementsOwnership
  <1>1. Init => Ownership!Init
    BY InvInit, HolderValue
       DEF Init, StoreInit, NoRow, Active, ActivePhase, Ownership!Init, SettledRows, OkStatus,
           SchedulerInvariant
  <1>2. ASSUME TypeOK, TypeOK', LateInvariant, SchedulerInvariant, SchedulerInvariant',
               [Next]_vars
        PROVE  [Ownership!Next]_<<Holder, SettledRows>>
    <2>1. CASE Next /\ UNCHANGED row
      <3>1. UNCHANGED SettledRows
        BY <2>1 DEF SettledRows
      <3>2. CASE \A o \in Owners : Active(o)' <=> Active(o)
        BY <1>2, <3>1, <3>2, Stutters DEF SchedulerInvariant
      <3> QED
        BY <1>2, <2>1, <3>2, HolderSteps DEF Ownership!Next
    <2>2. CASE Next /\ row' # row
      BY <1>2, <2>2, SettledSteps DEF LateInvariant
    <2>3. CASE UNCHANGED vars
      BY <2>3 DEF vars, Holder, SettledRows, Active
    <2> QED
      BY <1>2, <2>1, <2>2, <2>3
  <1> QED
    BY <1>1, <1>2, LateHolds, InvariantHolds, PTL DEF Spec, ImplementsOwnership, Ownership!Spec
-----------------------------------------------------------------------------
(* What execute returns: a second invariant, on top of the first. *)

\* A step that merges nothing, writes no row and reserves no call keeps the account.
LEMMA AccountQuiet ==
  ASSUME AccountInvariant, UNCHANGED <<row, byId, interrupted, reserved>>,
         \A o \in Owners : Loaded(o)' => Loaded(o),
         \A o \in Owners : Active(o)' => \/ ready'[o] = {}
                                         \/ Active(o) /\ ready'[o] \subseteq ready[o]
  PROVE  AccountInvariant'
  BY DEF AccountInvariant, ReadyHasInputs, MergedIsAccountable

\* Leaving execute empties the ready list or ends the activity.
LEMMA AccountLeave ==
  ASSUME TypeOK, AccountInvariant, NEW o \in Owners, NEW p \in Phases \ ActivePhase, GoTo(o, p),
         UNCHANGED <<row, byId, interrupted, reserved>>,
         \A q \in Owners \ {o} : ready'[q] = ready[q]
  PROVE  AccountInvariant'
  <1>1. /\ \A q \in Owners \ {o} : phase'[q] = phase[q]
        /\ ~Active(o)' /\ ~Loaded(o)'
    BY DEF GoTo, TypeOK, Active, Loaded
  <1>2. \A q \in Owners : (Active(q)' => Active(q) /\ q # o) /\ (Loaded(q)' => Loaded(q))
    BY <1>1 DEF Active, Loaded
  <1> QED
    BY <1>2, AccountQuiet

\* A task settled unrun: what it rests on, and what the others rest on, stays true.
LEMMA AccountSettleUnrun ==
  ASSUME TypeOK, SchedulerInvariant, AccountInvariant, NEW o \in Owners, NEW t \in Tasks,
         NEW s \in {"blocked", "skipped"}, CanDispatch(o, t), SettleWithoutRunning(o, t, s),
         \/ reserved' = reserved /\ (DependencyFailed(o, t) \/ reserved[o] >= MaxModelCalls)
         \/ /\ Reserve(o) /\ reserved[o] < MaxModelCalls
            /\ t \in interrupted[o] /\ MaxRetries = 0
  PROVE  AccountInvariant'
  <1>1. phase[o] = "dispatch" /\ Active(o) /\ Loaded(o) /\ t \in ready[o]
    BY DEF CanDispatch, Active, Loaded, ActivePhase
  <1>2. UNCHANGED <<row, phase, interrupted>>
    BY DEF SettleWithoutRunning, storeVars
  <1>3. \A q \in Owners : /\ Active(q)' => Active(q) /\ q = o
                          /\ Loaded(q)' => Loaded(q) /\ q = o
    BY <1>1, <1>2, OneActive DEF SchedulerInvariant, Active, Loaded
  <1>4. byId[o][t] = "none"
    BY <1>1 DEF SchedulerInvariant, ReadyIsPending, Pending
  <1>5. /\ byId'[o][t] = s
        /\ \A u \in Tasks \ {t} : byId'[o][u] = byId[o][u]
        /\ ready'[o] \subseteq ready[o]
    BY DEF SettleWithoutRunning, TypeOK
  \* What was merged before keeps its reason.
  <1>6. \A u \in Tasks : byId[o][u] # "none" => byId'[o][u] = byId[o][u]
    BY <1>4, <1>5
  <1>7. \A d \in DependsOn[t] : d \in Tasks /\ byId[o][d] # "none" /\ byId'[o][d] = byId[o][d]
    BY <1>1, <1>6, DependsAssumption DEF AccountInvariant, ReadyHasInputs
  <1>8. /\ \A q \in Owners : reserved'[q] <= MaxModelCalls
        /\ reserved[o] = MaxModelCalls => reserved'[o] = MaxModelCalls
    <2>1. /\ MaxModelCalls \in Nat
          /\ \A q \in Owners : reserved[q] \in Nat /\ reserved[q] <= MaxModelCalls
      BY ExecutorAssumption DEF AccountInvariant, TypeOK
    <2>2. CASE reserved' = reserved
      BY <2>1, <2>2
    <2>3. CASE Reserve(o) /\ reserved[o] < MaxModelCalls
      <3>1. /\ reserved'[o] = reserved[o] + 1
            /\ \A q \in Owners \ {o} : reserved'[q] = reserved[q]
        BY <2>3 DEF Reserve, TypeOK
      <3> QED
        BY <2>1, <2>3, <3>1
    <2> QED
      BY <2>2, <2>3
  <1>9. ReadyHasInputs'
    <2> SUFFICES ASSUME NEW u \in Tasks, u \in ready[o], NEW d \in DependsOn[u]
                 PROVE  byId'[o][d] # "none"
      BY <1>3, <1>5 DEF ReadyHasInputs
    <2>1. d \in Tasks /\ byId[o][d] # "none"
      BY <1>1, DependsAssumption DEF AccountInvariant, ReadyHasInputs
    <2> QED
      BY <1>6, <2>1
  <1>10. MergedIsAccountable'
    <2> SUFFICES ASSUME NEW u \in Tasks, byId'[o][u] # "none"
                 PROVE  \/ row[u].status = byId'[o][u]
                        \/ /\ byId'[o][u] \in {"blocked", "skipped"}
                           /\ \/ \E d \in DependsOn[u] : byId'[o][d] \notin OkStatus \cup {"none"}
                              \/ reserved'[o] = MaxModelCalls
                              \/ u \in interrupted[o] /\ MaxRetries = 0
      BY <1>2, <1>3 DEF MergedIsAccountable
    <2>1. CASE u = t
      <3>1. CASE DependencyFailed(o, t)
        BY <1>5, <1>7, <2>1, <3>1 DEF DependencyFailed
      <3>2. CASE reserved' = reserved /\ reserved[o] >= MaxModelCalls
        <4>1. reserved[o] \in Nat /\ MaxModelCalls \in Nat /\ reserved[o] <= MaxModelCalls
          BY ExecutorAssumption DEF AccountInvariant, TypeOK
        <4>2. reserved'[o] = MaxModelCalls
          BY <3>2, <4>1
        <4> QED
          BY <1>5, <2>1, <4>2
      <3>3. CASE t \in interrupted[o] /\ MaxRetries = 0
        BY <1>5, <2>1, <3>3
      <3> QED
        BY <3>1, <3>2, <3>3
    <2>2. CASE u # t
      <3>1. byId'[o][u] = byId[o][u] /\ byId[o][u] # "none"
        BY <1>5, <2>2
      <3>2. \A d \in DependsOn[u] : d \in Tasks
        BY DependsAssumption
      <3> QED
        BY <1>1, <1>6, <1>8, <3>1, <3>2 DEF AccountInvariant, MergedIsAccountable
    <2> QED
      BY <2>1, <2>2
  <1> QED
    BY <1>8, <1>9, <1>10 DEF AccountInvariant

LEMMA AccountStart ==
  ASSUME TypeOK, SchedulerInvariant, AccountInvariant, NEW o \in Owners, NEW t \in Tasks,
         DispatchStart(o, t)
  PROVE  AccountInvariant'
  <1>1. Active(o) /\ Loaded(o) /\ t \in ready[o]
    BY DEF DispatchStart, CanDispatch, Active, Loaded, ActivePhase
  <1>2. UNCHANGED <<phase, byId, interrupted>> /\ \A u \in Tasks \ {t} : row'[u] = row[u]
    BY StartWrites DEF DispatchStart
  <1>3. \A q \in Owners : /\ Active(q)' => Active(q) /\ q = o
                          /\ Loaded(q)' => Loaded(q) /\ q = o
    BY <1>1, <1>2, OneActive DEF SchedulerInvariant, Active, Loaded
  <1>4. byId[o][t] = "none"
    BY <1>1 DEF SchedulerInvariant, ReadyIsPending, Pending
  <1>5. ready'[o] \subseteq ready[o]
    BY DEF DispatchStart, TypeOK
  <1>6. reserved[o] < MaxModelCalls /\ \A q \in Owners : reserved'[q] <= MaxModelCalls
    BY ExecutorAssumption DEF AccountInvariant, DispatchStart, CanReserve, Reserve, TypeOK
  <1>7. ReadyHasInputs'
    BY <1>1, <1>2, <1>3, <1>5 DEF AccountInvariant, ReadyHasInputs
  <1>8. MergedIsAccountable'
    <2>1. reserved[o] # MaxModelCalls
      BY <1>6, ExecutorAssumption DEF TypeOK
    <2> QED
      BY <1>1, <1>2, <1>3, <1>4, <2>1 DEF AccountInvariant, MergedIsAccountable
  <1> QED
    BY <1>6, <1>7, <1>8 DEF AccountInvariant

LEMMA AccountMerge ==
  ASSUME TypeOK, SchedulerInvariant, PassedIsFinished, AccountInvariant, NEW o \in Owners, NEW t \in Tasks,
         Merge(o, t)
  PROVE  AccountInvariant'
  <1>1. Active(o) /\ Loaded(o) /\ future[o][t] \in StoredStatus
    BY DEF Merge, PassedIsFinished, Active, Loaded, ActivePhase
  <1>2. /\ UNCHANGED <<phase, interrupted, ready, reserved>>
        /\ \A u \in Tasks \ {t} : row'[u] = row[u]
    BY MergeWrites DEF Merge
  <1>3. \A q \in Owners : /\ Active(q)' => Active(q) /\ q = o
                          /\ Loaded(q)' => Loaded(q) /\ q = o
    BY <1>1, <1>2, OneActive DEF SchedulerInvariant, Active, Loaded
  <1>4. byId[o][t] = "none" /\ row[t].status = "running"
    BY <1>1 DEF SchedulerInvariant, FutureIsGrounded, StoredStatus
  <1>5. /\ byId'[o][t] = future[o][t] /\ future[o][t] # "none"
        /\ \A u \in Tasks \ {t} : byId'[o][u] = byId[o][u]
    BY <1>1 DEF Merge, TypeOK, StoredStatus
  <1>6. row'[t].status = future[o][t]
    <2>1. row[t] \in RowType
      BY DEF TypeOK, StoreTypeOK
    <2>2. row'[t] = [row[t] EXCEPT !.status = future[o][t], !.result = Attempt(o, t)]
      BY <1>4 DEF Merge, CompleteTask, TypeOK, StoreTypeOK
    <2>3. row[t] \in [status : {"running"} \cup StoredStatus, ordinal : Attempts,
                       result : {0} \cup Attempts]
      BY <1>4, <2>1 DEF RowType, NoRow
    <2> QED
      BY <2>2, <2>3
  <1>7. \A u \in Tasks : byId[o][u] # "none" => byId'[o][u] = byId[o][u]
    BY <1>4, <1>5
  <1>8. \A u \in Tasks : \A d \in DependsOn[u] : d \in Tasks
    BY DependsAssumption
  <1>9. ReadyHasInputs'
    BY <1>1, <1>2, <1>3, <1>7, <1>8 DEF AccountInvariant, ReadyHasInputs
  <1>10. MergedIsAccountable'
    <2> SUFFICES ASSUME NEW u \in Tasks, byId'[o][u] # "none"
                 PROVE  \/ row'[u].status = byId'[o][u]
                        \/ /\ byId'[o][u] \in {"blocked", "skipped"}
                           /\ \/ \E d \in DependsOn[u] : byId'[o][d] \notin OkStatus \cup {"none"}
                              \/ reserved[o] = MaxModelCalls
                              \/ u \in interrupted[o] /\ MaxRetries = 0
      BY <1>2, <1>3 DEF MergedIsAccountable
    <2>1. CASE u = t
      BY <1>5, <1>6, <2>1
    <2>2. CASE u # t
      <3>1. byId'[o][u] = byId[o][u] /\ byId[o][u] # "none" /\ row'[u] = row[u]
        BY <1>2, <1>5, <2>2
      <3> QED
        BY <1>1, <1>7, <1>8, <3>1 DEF AccountInvariant, MergedIsAccountable
    <2> QED
      BY <2>1, <2>2
  <1> QED
    BY <1>2, <1>9, <1>10 DEF AccountInvariant

LEMMA AccountScheduler ==
  ASSUME TypeOK, SchedulerInvariant, PassedIsFinished, AccountInvariant, NEW o \in Owners,
         Scheduler(o)
  PROVE  AccountInvariant'
  <1>1. CASE Load(o)
    <2>1. /\ phase' = [phase EXCEPT ![o] = "loop"] /\ phase[o] = "loading" /\ Active(o)
          /\ UNCHANGED <<row, ready, reserved>>
      BY <1>1 DEF Load, GoTo, storeVars, Active, ActivePhase
    <2>2. \A q \in Owners : (Active(q)' => q = o) /\ (Loaded(q)' => q = o)
      BY <2>1, OneActive DEF SchedulerInvariant, Active, Loaded, TypeOK
    <2>3. ready[o] = {}
      BY <2>1 DEF SchedulerInvariant, NothingBeforeLoad
    <2>4. \A t \in Tasks : byId'[o][t] \in {"none", row[t].status}
      BY <1>1 DEF Load, TypeOK
    <2> QED
      BY <2>1, <2>2, <2>3, <2>4 DEF AccountInvariant, ReadyHasInputs, MergedIsAccountable
  <1>2. CASE Complete(o)
    BY <1>2, AccountLeave DEF Complete, Phases, ActivePhase, poolVars
  <1>3. ASSUME NEW p \in {"draining", "cancelled", "failed", "stuck"}, GoTo(o, p),
               Abort(o) \/ Fail(o, p)
        PROVE  AccountInvariant'
    BY <1>3, AccountLeave DEF Abort, Fail, TypeOK, Phases, ActivePhase
  <1>4. CASE IterateStopped(o) \/ CollectStopped(o)
    BY <1>3, <1>4 DEF IterateStopped, CollectStopped, Abort
  <1>5. CASE LeaseLost(o) \/ CollectMismatch(o)
    BY <1>3, <1>5 DEF LeaseLost, CollectMismatch, Fail
  <1>6. CASE Iterate(o)
    <2>1. CASE Fail(o, "stuck")
      BY <1>3, <2>1 DEF Fail
    <2>2. CASE BeginIteration(o)
      <3>1. /\ phase' = [phase EXCEPT ![o] = "dispatch"] /\ phase[o] = "loop"
            /\ UNCHANGED <<row, byId, interrupted, reserved>>
            /\ ready'[o] = ReadyTasks(o) /\ \A q \in Owners \ {o} : ready'[q] = ready[q]
        BY <1>6, <2>2 DEF Iterate, InLoop, BeginIteration, GoTo, TypeOK
      <3>2. \A q \in Owners : (Active(q)' => Active(q)) /\ (Loaded(q)' => Loaded(q))
        BY <3>1 DEF Active, Loaded, ActivePhase, TypeOK
      <3>3. ReadyHasInputs'
        BY <3>1, <3>2 DEF AccountInvariant, ReadyHasInputs, ReadyTasks
      <3>4. MergedIsAccountable'
        BY <3>1, <3>2 DEF AccountInvariant, MergedIsAccountable
      <3> QED
        BY <3>1, <3>3, <3>4 DEF AccountInvariant
    <2> QED
      BY <1>6, <2>1, <2>2 DEF Iterate
  <1>7. CASE Wait(o) \/ EndCollect(o)
    <2>1. /\ phase[o] \in {"dispatch", "collect"}
          /\ \E p \in {"collect", "loop"} : phase' = [phase EXCEPT ![o] = p]
          /\ ready' = [ready EXCEPT ![o] = {}] \/ ready' = ready
          /\ UNCHANGED <<row, byId, interrupted, reserved>>
      BY <1>7 DEF Wait, EndCollect, GoTo, storeVars
    <2>2. \A q \in Owners : /\ Active(q)' => Active(q)
                            /\ Loaded(q)' => Loaded(q)
                            /\ ready'[q] \subseteq ready[q]
      BY <2>1 DEF Active, Loaded, ActivePhase, TypeOK
    <2> QED
      BY <2>1, <2>2, AccountQuiet
  <1>8. ASSUME NEW t \in Tasks, DispatchUnavailable(o, t) PROVE AccountInvariant'
    BY <1>8, AccountSettleUnrun DEF DispatchUnavailable, UnavailableStatus
  <1>9. ASSUME NEW t \in Tasks, DispatchRetryExhausted(o, t) PROVE AccountInvariant'
    <2>1. t \in interrupted[o] /\ MaxRetries = 0
      BY <1>9, PolicyAssumption DEF DispatchRetryExhausted, Attempt
    <2> QED
      BY <1>9, <2>1, AccountSettleUnrun DEF DispatchRetryExhausted, CanReserve
  <1>10. ASSUME NEW t \in Tasks, DispatchStart(o, t) PROVE AccountInvariant'
    BY <1>10, AccountStart
  <1>11. ASSUME NEW t \in Tasks, Merge(o, t) PROVE AccountInvariant'
    BY <1>11, AccountMerge
  <1>12. ASSUME NEW t \in Tasks, PassCheckpoint(o, t) PROVE AccountInvariant'
    <2>1. UNCHANGED <<row, byId, interrupted, reserved, ready, phase>>
      BY <1>12 DEF PassCheckpoint, storeVars
    <2>2. \A q \in Owners : (Active(q)' <=> Active(q)) /\ (Loaded(q)' <=> Loaded(q))
      BY <2>1 DEF Active, Loaded
    <2> QED
      BY <2>1, <2>2, AccountQuiet
  <1> QED
    BY <1>1, <1>2, <1>4, <1>5, <1>6, <1>7, <1>8, <1>9, <1>10, <1>11, <1>12 DEF Scheduler

LEMMA AccountWorker ==
  ASSUME TypeOK, AccountInvariant, NEW o \in Owners, NEW t \in Tasks, Worker(o, t)
  PROVE  AccountInvariant'
  <1>1. /\ UNCHANGED <<row, byId, interrupted, reserved, ready>>
        /\ phase' = phase \/ GoTo(o, "cancelled")
    BY DEF Worker, WorkerStart, TakeExpertSlot, EnterSpecialist, FinishWithArtifact,
           FinishWithout, DiscardLate, Advance, storeVars, schedVars
  <1>2. \A q \in Owners : (Active(q)' => Active(q)) /\ (Loaded(q)' => Loaded(q))
    BY <1>1 DEF GoTo, Active, Loaded, ActivePhase, TypeOK
  <1> QED
    BY <1>1, <1>2, AccountQuiet

LEMMA AccountEnvironment ==
  ASSUME TypeOK, SchedulerInvariant, AccountInvariant, Environment
  PROVE  AccountInvariant'
  <1>1. CASE Crash
    <2>1. \A q \in Owners : ~Active(q)' /\ ~Loaded(q)'
      BY <1>1 DEF Crash, Active, Loaded, ActivePhase
    <2> QED
      BY <1>1, <2>1, AccountQuiet DEF Crash, storeVars
  <1>2. CASE Tick \/ (\E o \in Owners : Cancel(o))
    <2>1. UNCHANGED <<row, byId, interrupted, reserved, ready, phase>>
      BY <1>2 DEF Tick, Cancel, schedVars, storeVars
    <2>2. \A q \in Owners : (Active(q)' <=> Active(q)) /\ (Loaded(q)' <=> Loaded(q))
      BY <2>1 DEF Active, Loaded
    <2> QED
      BY <2>1, <2>2, AccountQuiet
  <1>3. ASSUME NEW t \in Tasks, Retry(t) PROVE AccountInvariant'
    <2>1. \A q \in Owners : ~Active(q)' /\ ~Loaded(q)'
      BY <1>3, InvRetry DEF Retry, schedVars, Active, Loaded
    <2>2. reserved' = reserved
      BY <1>3 DEF Retry, schedVars
    <2> QED
      BY <2>1, <2>2 DEF AccountInvariant, ReadyHasInputs, MergedIsAccountable
  <1>4. ASSUME NEW o \in Owners, Acquire(o) \/ Refuse(o) PROVE AccountInvariant'
    <2>1. /\ UNCHANGED <<row, byId, interrupted, reserved, ready>> /\ phase[o] = "idle"
          /\ \E p \in {"loading", "rejected"} : phase' = [phase EXCEPT ![o] = p]
      BY <1>4 DEF Acquire, Refuse, GoTo, storeVars
    <2>2. ready[o] = {}
      BY <2>1 DEF SchedulerInvariant, NothingBeforeLoad
    <2>3. \A q \in Owners : (Active(q)' => Active(q) \/ q = o) /\ (Loaded(q)' => Loaded(q))
      BY <2>1 DEF Active, Loaded, ActivePhase, TypeOK
    <2> QED
      BY <2>1, <2>2, <2>3, AccountQuiet
  <1> QED
    BY <1>1, <1>2, <1>3, <1>4 DEF Environment

\* Whatever a running execute has merged is on disk, or was settled unrun because of a
\* merged failure, a spent budget or a spent retry.
THEOREM AccountHolds ==
  ASSUME MayStall = FALSE
  PROVE  Spec => []AccountInvariant
  <1>1. Init => AccountInvariant
    BY ExecutorAssumption
       DEF Init, AccountInvariant, ReadyHasInputs, MergedIsAccountable, Active, Loaded, ActivePhase
  <1>2. ASSUME TypeOK, LateInvariant, SchedulerInvariant, AccountInvariant, [Next]_vars
        PROVE  AccountInvariant'
    <2>1. CASE UNCHANGED vars
      BY <1>2, <2>1 DEF vars, AccountInvariant, ReadyHasInputs, MergedIsAccountable, Active, Loaded
    <2> QED
      BY <1>2, <2>1, AccountEnvironment, AccountScheduler, AccountWorker DEF Next, LateInvariant
  <1> QED
    BY <1>1, <1>2, LateHolds, InvariantHolds, PTL DEF Spec

\* Only the end of the loop returns from execute: everything is merged by then.
LEMMA CompletesWhenMerged ==
  ASSUME TypeOK, [Next]_vars, NEW o \in Owners, phase[o] # "done", phase'[o] = "done"
  PROVE  Loaded(o) /\ \A t \in Tasks : byId[o][t] # "none"
  <1>1. ASSUME NEW q \in Owners, NEW p \in Phases \ {"done"}, GoTo(q, p) PROVE FALSE
    BY <1>1 DEF GoTo, TypeOK
  <1>2. phase' # phase
    OBVIOUS
  <1>3. CASE Environment
    BY <1>1, <1>2, <1>3 DEF Environment, Crash, Tick, Retry, Acquire, Refuse, Cancel,
                            schedVars, Phases, ActivePhase
  <1>4. ASSUME NEW q \in Owners, NEW t \in Tasks, Worker(q, t) PROVE FALSE
    BY <1>1, <1>2, <1>4 DEF Worker, WorkerStart, TakeExpertSlot, EnterSpecialist,
                            FinishWithArtifact, FinishWithout, DiscardLate, Advance, schedVars,
                            Phases
  <1>5. ASSUME NEW q \in Owners, Scheduler(q), ~Complete(q) PROVE FALSE
    <2>1. CASE Load(q) \/ Wait(q) \/ EndCollect(q)
      BY <1>1, <2>1 DEF Load, Wait, EndCollect, Phases, ActivePhase
    <2>2. CASE IterateStopped(q) \/ CollectStopped(q)
      BY <1>1, <2>2 DEF IterateStopped, CollectStopped, Abort, Phases
    <2>3. CASE LeaseLost(q) \/ CollectMismatch(q) \/ Iterate(q)
      BY <1>1, <2>3 DEF LeaseLost, CollectMismatch, Iterate, BeginIteration, Fail, Phases,
                        ActivePhase
    <2>4. ASSUME NEW t \in Tasks,
                 \/ DispatchUnavailable(q, t) \/ DispatchRetryExhausted(q, t)
                 \/ DispatchStart(q, t) \/ PassCheckpoint(q, t) \/ Merge(q, t)
          PROVE  FALSE
      BY <1>2, <2>4 DEF DispatchUnavailable, DispatchRetryExhausted, DispatchStart,
                        PassCheckpoint, Merge, SettleWithoutRunning
    <2> QED
      BY <1>5, <2>1, <2>2, <2>3, <2>4 DEF Scheduler
  <1>6. ASSUME NEW q \in Owners, Complete(q)
        PROVE  Loaded(o) /\ \A t \in Tasks : byId[o][t] # "none"
    <2>1. q = o
      BY <1>6 DEF Complete, GoTo, TypeOK
    <2> QED
      BY <1>6, <2>1 DEF Complete, LoopDone, Pending, Futures, Loaded, ActivePhase
  <1> QED
    BY <1>2, <1>3, <1>4, <1>5, <1>6 DEF Next, vars

\* The result of execute hides no task: what is not on disk has a reason it can name.
THEOREM NothingIsDropped ==
  ASSUME MayStall = FALSE
  PROVE  Spec => NothingDroppedSilently
  <1> DEFINE A == \A o \in Owners, t \in Tasks :
                    phase[o] # "done" /\ phase'[o] = "done" =>
                      \/ row[t].status = byId[o][t]
                      \/ /\ byId[o][t] \in {"blocked", "skipped"}
                         /\ \/ DependencyFailed(o, t)
                            \/ reserved[o] = MaxModelCalls
                            \/ t \in interrupted[o] /\ MaxRetries = 0
  <1>1. ASSUME TypeOK, AccountInvariant, [Next]_vars PROVE [A]_vars
    <2> SUFFICES ASSUME NEW o \in Owners, NEW t \in Tasks,
                        phase[o] # "done", phase'[o] = "done"
                 PROVE  \/ row[t].status = byId[o][t]
                        \/ /\ byId[o][t] \in {"blocked", "skipped"}
                           /\ \/ DependencyFailed(o, t)
                              \/ reserved[o] = MaxModelCalls
                              \/ t \in interrupted[o] /\ MaxRetries = 0
      OBVIOUS
    <2>1. Loaded(o) /\ byId[o][t] # "none"
      BY <1>1, CompletesWhenMerged
    <2> QED
      BY <1>1, <2>1 DEF AccountInvariant, MergedIsAccountable, DependencyFailed
  <1> HIDE DEF A
  <1>2. Spec => [][A]_vars
    BY <1>1, TypeCorrect, AccountHolds, PTL DEF Spec
  <1> QED
    BY <1>2 DEF A, NothingDroppedSilently
-----------------------------------------------------------------------------
(* The frontier of an acyclic plan. *)

\* With nothing running, a pending task that depends on no pending task is ready.
LEMMA FrontierExists ==
  ASSUME NEW o \in Owners, InLoop(o)
  PROVE  ~NoFrontier(o)
  <1> SUFFICES ASSUME Futures(o) = {} PROVE ReadyTasks(o) # {}
    BY DEF NoFrontier
  <1>1. Pending(o) # {} /\ Pending(o) \subseteq Tasks
    BY DEF InLoop, LoopDone, Pending
  <1>2. PICK t \in Pending(o) : DependsOn[t] \cap Pending(o) = {}
    BY <1>1, PlanAssumption DEF Acyclic
  <1>3. \A d \in DependsOn[t] : d \in Tasks /\ d \notin Pending(o) /\ future[o][d] = "none"
    BY <1>1, <1>2, DependsAssumption DEF Futures
  <1>4. t \in ReadyTasks(o)
    BY <1>2, <1>3 DEF ReadyTasks, Pending
  <1> QED
    BY <1>4

\* Whatever is resumed, interrupted, cancelled or exhausted, and even when schedulers
\* outsleep their leases, execute never meets a plan with no executable frontier.
THEOREM FrontierIsNeverStuck == Spec => []FrontierNeverStuck
  <1>1. Init => FrontierNeverStuck
    BY DEF Init, FrontierNeverStuck
  <1>2. ASSUME TypeOK, FrontierNeverStuck, [Next]_vars PROVE FrontierNeverStuck'
    <2>1. ASSUME NEW o \in Owners, NEW p \in Phases \ {"stuck"}, GoTo(o, p)
          PROVE  FrontierNeverStuck'
      BY <1>2, <2>1 DEF GoTo, TypeOK, FrontierNeverStuck
    <2>2. ASSUME phase' = phase PROVE FrontierNeverStuck'
      BY <1>2, <2>2 DEF FrontierNeverStuck
    <2>3. CASE Environment
      <3>1. CASE Crash
        BY <1>2, <3>1 DEF Crash, FrontierNeverStuck
      <3> QED
        BY <2>1, <2>2, <2>3, <3>1 DEF Environment, Tick, Retry, Acquire, Refuse, Cancel,
                                      schedVars, Phases, ActivePhase
    <2>4. ASSUME NEW o \in Owners, NEW t \in Tasks, Worker(o, t) PROVE FrontierNeverStuck'
      BY <2>1, <2>2, <2>4 DEF Worker, WorkerStart, TakeExpertSlot, EnterSpecialist,
                              FinishWithArtifact, FinishWithout, DiscardLate, Advance,
                              schedVars, Phases
    <2>5. ASSUME NEW o \in Owners, Scheduler(o) PROVE FrontierNeverStuck'
      <3>1. CASE Load(o) \/ Wait(o) \/ EndCollect(o) \/ Complete(o)
        BY <2>1, <3>1 DEF Load, Wait, EndCollect, Complete, Phases, ActivePhase
      <3>2. CASE IterateStopped(o) \/ CollectStopped(o)
        BY <2>1, <3>2 DEF IterateStopped, CollectStopped, Abort, Phases
      <3>3. CASE LeaseLost(o) \/ CollectMismatch(o)
        BY <2>1, <3>3 DEF LeaseLost, CollectMismatch, Fail, Phases
      <3>4. CASE Iterate(o)
        BY <2>1, <3>4, FrontierExists DEF Iterate, BeginIteration, Phases, ActivePhase
      <3>5. ASSUME NEW t \in Tasks,
                   \/ DispatchUnavailable(o, t) \/ DispatchRetryExhausted(o, t)
                   \/ DispatchStart(o, t) \/ PassCheckpoint(o, t) \/ Merge(o, t)
            PROVE  FrontierNeverStuck'
        BY <2>2, <3>5 DEF DispatchUnavailable, DispatchRetryExhausted, DispatchStart,
                          PassCheckpoint, Merge, SettleWithoutRunning
      <3> QED
        BY <2>5, <3>1, <3>2, <3>3, <3>4, <3>5 DEF Scheduler
    <2>6. CASE UNCHANGED vars
      BY <2>2, <2>6 DEF vars
    <2> QED
      BY <1>2, <2>3, <2>4, <2>5, <2>6 DEF Next
  <1> QED
    BY <1>1, <1>2, TypeCorrect, PTL DEF Spec
=============================================================================
