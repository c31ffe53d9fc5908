--------------------------- MODULE ArtifactMemory ---------------------------
(***************************************************************************)
(* Runs between the artifact database and the memory database.  A run      *)
(* freezes a memory snapshot, writes artifacts (each put also enqueues a   *)
(* memory candidate in the same transaction), and delivers what the outbox *)
(* of its scope holds.  The user remembers, updates, activates and forgets *)
(* meanwhile.  The two databases share no transaction, so a crash may come *)
(* between saving a candidate and marking it delivered.                    *)
(***************************************************************************)
EXTENDS MemoryRepository

CONSTANTS
  Artifacts,   \* artifact versions
  RunOf,       \* the run that writes each of them
  ClaimsOf,    \* the claims in each that cite evidence
  Contents,    \* what a specialist may write under one artifact version
  Verified,    \* the contents with verification_status PASSED
  NoContent,   \* an artifact version that is not stored
  Memories,    \* operation_ids of POST /memory/items
  WorkspaceOf, \* the workspace each of them names
  Updates,     \* operation_ids of PATCH /memory/items
  MaxCrashes   \* bound on process crashes

ASSUME ArtifactAssumption ==
  /\ RunOf \in [Artifacts -> Runs] /\ Verified \subseteq Contents
  /\ WorkspaceOf \in [Memories -> Places]
  /\ NoContent \notin Contents /\ MaxCrashes \in Nat

VARIABLES
  stored,    \* artifact_versions
  revoked,   \* those with revoked_at set
  outbox,    \* artifact_memory_outbox
  phase,     \* where each run is
  unchecked, \* load_snapshot: frozen items not yet compared with their current row
  valid,     \* load_snapshot: whether all items compared so far are active
  refs,      \* submit_candidates: the refs still to deliver
  current,   \* submit_candidates: the artifact being delivered and its claims not yet saved
  update,    \* each PATCH request between its read and its save
  crashes,
  shown,     \* history: the packets load_snapshot has returned to each run
  forgotten, \* history: the items revoked when the run's load began
  owed       \* history: what the outbox of its scope held when the run's submit began

artifactVars == <<stored, revoked, outbox>>
loadVars == <<unchecked, valid, shown, forgotten>>
submitVars == <<refs, current, owed>>
vars == <<repositoryVars, artifactVars, phase, loadVars, submitVars, update, crashes>>

Phases == {"idle", "checking", "working", "submitting", "saving"}
NoUpdate == [item |-> NoId, expected |-> 0, status |-> "none"]

\* Operation ids and payloads, as far as the payload hash tells them apart.
ClaimOp(a, k) == <<"artifact", a, k>>
UserOp(q) == <<"user", q>>
ForgetOp(i, v) == <<"forget", i, v>>
Payload(i, expected, status, scope, body) ==
  [item |-> i, expected |-> expected, status |-> status, scope |-> scope, body |-> body]

TypeOK ==
  /\ item \in [Ids -> ItemType]
  /\ \A c \in receipt : c.item \in Ids /\ c.version \in 1 .. MaxWrites
  /\ \A r \in Runs : snapshot[r].scope \in Scopes \cup {NoScope} /\ snapshot[r].refs \subseteq Refs
  /\ stored \in [Artifacts -> Contents \cup {NoContent}] /\ revoked \subseteq Artifacts
  /\ outbox \in [Artifacts -> {"none", "pending", "delivered"}]
  /\ phase \in [Runs -> Phases]
  /\ unchecked \in [Runs -> SUBSET Ids] /\ valid \in [Runs -> BOOLEAN]
  /\ shown \in [Runs -> SUBSET SUBSET Refs]
  /\ refs \in [Runs -> SUBSET Artifacts] /\ owed \in [Runs -> SUBSET Artifacts]
  /\ \A r \in Runs : current[r] = <<>> \/ current[r][1] \in Artifacts
  /\ \A q \in Updates : update[q].item \in Ids \cup {NoId}
  /\ forgotten \in [Runs -> SUBSET Ids] /\ crashes \in 0 .. MaxCrashes

Init ==
  /\ RepositoryInit
  /\ stored = [a \in Artifacts |-> NoContent] /\ revoked = {}
  /\ outbox = [a \in Artifacts |-> "none"]
  /\ phase = [r \in Runs |-> "idle"]
  /\ unchecked = [r \in Runs |-> {}] /\ valid = [r \in Runs |-> TRUE]
  /\ shown = [r \in Runs |-> {}]
  /\ refs = [r \in Runs |-> {}] /\ current = [r \in Runs |-> <<>>]
  /\ update = [q \in Updates |-> NoUpdate]
  /\ crashes = 0
  /\ forgotten = [r \in Runs |-> {}] /\ owed = [r \in Runs |-> {}]

Goto(r, p) == phase' = [phase EXCEPT ![r] = p]
ScopeOf(a) == snapshot[RunOf[a]].scope
-----------------------------------------------------------------------------
(* load_snapshot: freezing, then one read per item. *)

\* Under another scope_ref than the first time snapshot_for_run raises and the run ends.
Load(r, s) ==
  /\ phase[r] = "idle" /\ snapshot[r].scope \in {NoScope, s}
  /\ snapshot' = [snapshot EXCEPT ![r] = Frozen(r, s)]
  /\ unchecked' = [unchecked EXCEPT ![r] = {ref.id : ref \in Frozen(r, s).refs}]
  /\ valid' = [valid EXCEPT ![r] = TRUE]
  /\ forgotten' = [forgotten EXCEPT ![r] =
                     {ref.id : ref \in {x \in Frozen(r, s).refs : item[x.id].status = "revoked"}}]
  /\ Goto(r, "checking")
  /\ UNCHANGED <<item, receipt, artifactVars, shown, submitVars, update, crashes>>

\* Mutant: the frozen version's own state decides.
BodyExists(i) == i \in Known
StillActive(i) == item[i].status = "active"

CheckItem(r, i) ==
  /\ phase[r] = "checking" /\ i \in unchecked[r]
  /\ unchecked' = [unchecked EXCEPT ![r] = @ \ {i}]
  /\ valid' = [valid EXCEPT ![r] = @ /\ StillActive(i)]
  /\ UNCHANGED <<repositoryVars, artifactVars, phase, shown, forgotten, submitVars,
                 update, crashes>>

\* An invalidated packet ends the run (memory_snapshot_invalidated).
FinishLoad(r) ==
  /\ phase[r] = "checking" /\ unchecked[r] = {}
  /\ shown' = [shown EXCEPT ![r] = IF valid[r] THEN @ \cup {snapshot[r].refs} ELSE @]
  /\ Goto(r, IF valid[r] THEN "working" ELSE "idle")
  /\ valid' = [valid EXCEPT ![r] = TRUE]
  /\ forgotten' = [forgotten EXCEPT ![r] = {}]
  /\ UNCHANGED <<repositoryVars, artifactVars, unchecked, submitVars, update, crashes>>
-----------------------------------------------------------------------------
(* The artifact store. *)

\* Mutant: a second put replaces the first.
PutReplaces(a, c) == TRUE
\* put raises ArtifactConflictError for another content under the same version.
PutAccepts(a, c) == stored[a] \in {NoContent, c}

\* put, with its outbox row in the same transaction (INSERT OR IGNORE).
Put(a, c) ==
  /\ phase[RunOf[a]] = "working" /\ PutAccepts(a, c)
  /\ stored' = [stored EXCEPT ![a] = c]
  /\ outbox' = [outbox EXCEPT ![a] = IF @ = "none" /\ c \in Verified THEN "pending" ELSE @]
  /\ UNCHANGED <<repositoryVars, revoked, phase, loadVars, submitVars, update, crashes>>

\* The executor revokes the artifact of a late result.
Revoke(a) ==
  /\ stored[a] # NoContent /\ a \notin revoked
  /\ revoked' = revoked \cup {a}
  /\ UNCHANGED <<repositoryVars, stored, outbox, phase, loadVars, submitVars, update, crashes>>
-----------------------------------------------------------------------------
(* submit_candidates, after an execute that returned. *)

\* pending_memory_refs; the outbox is taken to hold fewer rows than its LIMIT.
PendingRefs == {a \in Artifacts : outbox[a] = "pending" /\ a \notin revoked}

\* Mutant: only what this run produced is delivered.
OwnOnly(own) == own
ToDeliver(own) == PendingRefs \cup own

SubmitStart(r, own) ==
  /\ phase[r] = "working"
  /\ own \subseteq {a \in Artifacts : RunOf[a] = r /\ stored[a] # NoContent}
  /\ refs' = [refs EXCEPT ![r] = ToDeliver(own)]
  /\ owed' = [owed EXCEPT ![r] =
                {a \in PendingRefs : ScopeOf(a) = snapshot[r].scope}]
  /\ Goto(r, "submitting")
  /\ UNCHANGED <<repositoryVars, artifactVars, loadVars, current, update, crashes>>

\* A live artifact of another scope is left to the runs of that scope.
Skip(r, a) ==
  /\ phase[r] = "submitting" /\ a \in refs[r]
  /\ a \notin revoked /\ ScopeOf(a) # snapshot[r].scope
  /\ refs' = [refs EXCEPT ![r] = @ \ {a}]
  /\ UNCHANGED <<repositoryVars, artifactVars, phase, loadVars, current, owed, update, crashes>>

\* get: a revoked artifact is None, and is marked without saving anything.
Get(r, a) ==
  /\ phase[r] = "submitting" /\ a \in refs[r]
  /\ a \in revoked \/ ScopeOf(a) = snapshot[r].scope
  /\ current' = [current EXCEPT ![r] =
       <<a, IF a \notin revoked /\ stored[a] \in Verified THEN ClaimsOf[a] ELSE {}>>]
  /\ Goto(r, "saving")
  /\ UNCHANGED <<repositoryVars, artifactVars, loadVars, refs, owed, update, crashes>>

\* submit_candidate for one claim; a conflict ends the run.
SaveClaim(r, k) ==
  LET a == current[r][1]
      op == ClaimOp(a, k)
      payload == Payload(NoId, 0, "candidate", snapshot[r].scope, stored[a])
  IN
  /\ phase[r] = "saving" /\ k \in current[r][2]
  /\ Save(op, payload)
  /\ IF Conflicts(op, payload)
       THEN /\ Goto(r, "idle")
            /\ current' = [current EXCEPT ![r] = <<>>]
            /\ refs' = [refs EXCEPT ![r] = {}]
            /\ owed' = [owed EXCEPT ![r] = {}]
       ELSE /\ current' = [current EXCEPT ![r] = <<a, @[2] \ {k}>>]
            /\ UNCHANGED <<phase, refs, owed>>
  /\ UNCHANGED <<snapshot, artifactVars, loadVars, update, crashes>>

\* mark_memory_delivered.
Mark(r) ==
  LET a == current[r][1] IN
  /\ phase[r] = "saving" /\ current[r][2] = {}
  /\ outbox' = [outbox EXCEPT ![a] = IF @ = "pending" THEN "delivered" ELSE @]
  /\ refs' = [refs EXCEPT ![r] = @ \ {a}]
  /\ current' = [current EXCEPT ![r] = <<>>]
  /\ Goto(r, "submitting")
  /\ UNCHANGED <<repositoryVars, stored, revoked, loadVars, owed, update, crashes>>

SubmitEnd(r) ==
  /\ phase[r] = "submitting" /\ refs[r] = {}
  /\ owed' = [owed EXCEPT ![r] = {}]
  /\ Goto(r, "idle")
  /\ UNCHANGED <<repositoryVars, artifactVars, loadVars, refs, current, update, crashes>>

\* execute raises: the run ends without delivering.
Abandon(r) ==
  /\ phase[r] = "working"
  /\ Goto(r, "idle")
  /\ UNCHANGED <<repositoryVars, artifactVars, loadVars, submitVars, update, crashes>>
-----------------------------------------------------------------------------
(* The user's requests, each of which may be sent again. *)

Remember(m) ==
  /\ Save(UserOp(m), Payload(NoId, 0, "active", WorkspaceOf[m], m))
  /\ UNCHANGED <<snapshot, artifactVars, phase, loadVars, submitVars, update, crashes>>

\* update reads the item before the transaction of its save; a client knows versions
\* it has been shown.
UpdateRead(q, i, v, activate) ==
  /\ update[q] = NoUpdate /\ i \in Known /\ v \in 1 .. item[i].version
  /\ activate => item[i].status = "candidate"
  /\ update' = [update EXCEPT ![q] =
       [item |-> i, expected |-> v,
        status |-> IF activate THEN "active" ELSE item[i].status]]
  /\ UNCHANGED <<repositoryVars, artifactVars, phase, loadVars, submitVars, crashes>>

UpdateSave(q) ==
  LET u == update[q] IN
  /\ u # NoUpdate
  /\ Save(UserOp(q), Payload(u.item, u.expected, u.status, item[u.item].scope, q))
  /\ update' = [update EXCEPT ![q] = NoUpdate]
  /\ UNCHANGED <<snapshot, artifactVars, phase, loadVars, submitVars, crashes>>

Forget(i, v) ==
  /\ i \in Known /\ v \in 1 .. item[i].version
  /\ Save(ForgetOp(i, v), Payload(i, v, "revoked", item[i].scope, i))
  /\ UNCHANGED <<snapshot, artifactVars, phase, loadVars, submitVars, update, crashes>>

\* The backend process ends; the databases and what runs were shown remain.
Crash ==
  /\ crashes < MaxCrashes
  /\ crashes' = crashes + 1
  /\ phase' = [r \in Runs |-> "idle"]
  /\ unchecked' = [r \in Runs |-> {}] /\ valid' = [r \in Runs |-> TRUE]
  /\ refs' = [r \in Runs |-> {}] /\ current' = [r \in Runs |-> <<>>]
  /\ update' = [q \in Updates |-> NoUpdate]
  /\ forgotten' = [r \in Runs |-> {}] /\ owed' = [r \in Runs |-> {}]
  /\ UNCHANGED <<repositoryVars, artifactVars, shown>>
-----------------------------------------------------------------------------
RunStep(r) ==
  \/ \E s \in Scopes : Load(r, s)
  \/ \E i \in Ids : CheckItem(r, i)
  \/ \E own \in SUBSET Artifacts : SubmitStart(r, own)
  \/ \E a \in Artifacts : Skip(r, a) \/ Get(r, a)
  \/ \E a \in Artifacts : \E k \in ClaimsOf[a] : SaveClaim(r, k)
  \/ FinishLoad(r) \/ Mark(r) \/ SubmitEnd(r) \/ Abandon(r)

UserStep ==
  \/ \E m \in Memories : Remember(m)
  \/ \E q \in Updates, i \in Ids, v \in 1 .. MaxWrites, activate \in BOOLEAN :
       UpdateRead(q, i, v, activate)
  \/ \E q \in Updates : UpdateSave(q)
  \/ \E i \in Ids, v \in 1 .. MaxWrites : Forget(i, v)

Next ==
  \/ UserStep \/ Crash
  \/ \E r \in Runs : RunStep(r)
  \/ \E a \in Artifacts, c \in Contents : Put(a, c)
  \/ \E a \in Artifacts : Revoke(a)

Spec == Init /\ [][Next]_vars
-----------------------------------------------------------------------------
(* Properties. *)

\* Redelivery after a crash, and two runs delivering at once, leave one memory per
\* claim; what is marked as delivered is saved, whoever marked it, unless its artifact
\* was withdrawn; and delivering again replays what was saved, since the content and
\* scope behind an operation_id never change, so no delivery ends a run.
DeliveredOnce ==
  /\ \A c, d \in receipt : c.op = d.op => c = d
  /\ \A a \in Artifacts : outbox[a] = "delivered" /\ a \notin revoked =>
       \A k \in ClaimsOf[a] : \E c \in receipt : c.op = ClaimOp(a, k)
  /\ \A a \in Artifacts, k \in UNION {ClaimsOf[b] : b \in Artifacts} :
       \A c \in receipt : c.op = ClaimOp(a, k) =>
         c.payload.body = stored[a] /\ c.payload.scope = ScopeOf(a)

\* When a run has delivered, nothing that the outbox of its scope held at the start
\* is still waiting: what a crashed or failed run left behind is not lost.
SubmitDrains ==
  [][\A r \in Runs : phase[r] = "submitting" /\ phase'[r] = "idle" /\ crashes' = crashes =>
       \A a \in owed[r] : outbox[a] = "delivered" \/ a \in revoked]_vars

\* A run is shown only what the user wrote or activated, and only of its own scope:
\* a claim of an artifact does not become memory by itself.
OnlyApprovedInScope ==
  \A r \in Runs : \A ref \in snapshot[r].refs :
    \E c \in receipt :
      /\ c.item = ref.id /\ c.version = ref.version /\ c.payload.status = "active"
      /\ c.payload.scope \in {Global, snapshot[r].scope}

\* However often a run is resumed, it is shown the same versions.
ViewIsFrozen == \A r \in Runs : Cardinality(shown[r]) <= 1

\* A run goes on only if nothing in its snapshot was forgotten before it was loaded,
\* even when the load races with updates and other deletions.
ForgottenEndsRun ==
  [][\A r \in Runs : phase[r] = "checking" /\ phase'[r] = "working" =>
       \A ref \in snapshot[r].refs : ref.id \notin forgotten[r]]_vars

\* A memory moves from candidate to active to revoked and never back: an update that
\* read the item before a deletion or an activation does not undo it.
StatusOnlyAdvances ==
  [][\A i \in Ids :
       /\ item[i].status = "active" => item'[i].status \in {"active", "revoked"}
       /\ item[i].status = "revoked" => item'[i].status = "revoked"]_vars
=============================================================================
