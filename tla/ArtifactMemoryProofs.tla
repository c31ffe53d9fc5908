------------------------ MODULE ArtifactMemoryProofs ------------------------
(***************************************************************************)
(* The safety properties of ArtifactMemory for any runs, scopes, artifacts *)
(* and requests, any number of crashes and any bound on writes.            *)
(***************************************************************************)
EXTENDS ArtifactMemory, FiniteSetTheorems, TLAPS

Claims == UNION {ClaimsOf[a] : a \in Artifacts}
PayloadType ==
  [item : Ids \cup {NoId}, expected : 0 .. MaxWrites, status : Status, scope : Places,
   body : Contents \cup Memories \cup Updates \cup Ids]
SnapshotType == [scope : Scopes \cup {NoScope}, refs : SUBSET Refs]
UpdateType ==
  [item : Ids \cup {NoId}, expected : 0 .. MaxWrites, status : Status \cup {"none"}]

\* What TypeOK leaves open: tables of runs and requests are functions.
TablesTyped ==
  /\ \A c \in receipt : c.payload.status \in Status /\ c.payload.scope \in Places
  /\ IsFiniteSet(receipt)
  /\ snapshot \in [Runs -> SnapshotType]
  /\ current \in [Runs -> {<<>>} \cup (Artifacts \X SUBSET Claims)]
  /\ update \in [Updates -> UpdateType]

\* The receipts hold the history of every item: it has no more versions than there are
\* receipts, and one of them wrote what it is now.
ItemsHaveReceipts ==
  \A i \in Ids :
    /\ item[i].version <= Cardinality(receipt)
    /\ i \notin Known => item[i] = NoItem
    /\ i \in Known => \E c \in receipt :
         /\ c.item = i /\ c.version = item[i].version
         /\ c.payload.status = item[i].status /\ c.payload.scope = item[i].scope

\* An update that read the item keeps its status, or activates a candidate.
UpdatesAreRead ==
  \A q \in Updates : update[q] # NoUpdate =>
    LET u == update[q] IN
    /\ u.status \in Status
    /\ u.item \in Known /\ u.expected \in 1 .. item[u.item].version
    /\ u.expected = item[u.item].version =>
         \/ u.status = item[u.item].status
         \/ u.status = "active" /\ item[u.item].status = "candidate"

\* A run that does anything has its snapshot, and was never shown another.
RunsAreFrozen ==
  \A r \in Runs :
    /\ phase[r] # "idle" => snapshot[r].scope # NoScope
    /\ snapshot[r].scope = NoScope => snapshot[r].refs = {} /\ shown[r] = {}
    /\ shown[r] \subseteq {snapshot[r].refs}

\* Until the load ends, what had been forgotten is unread or has been found out.
LoadsFindOut ==
  \A r \in Runs : phase[r] = "checking" =>
    /\ \A i \in forgotten[r] : item[i].status = "revoked"
    /\ \A ref \in snapshot[r].refs :
         ref.id \in forgotten[r] => ref.id \in unchecked[r] \/ ~valid[r]

\* What is in the outbox is a stored, verified artifact of a run with a scope.
OutboxIsStored ==
  \A a \in Artifacts :
    /\ stored[a] # NoContent => snapshot[RunOf[a]].scope # NoScope
    /\ outbox[a] # "none" => stored[a] \in Verified

\* A receipt of a delivery has the content and the scope of its artifact.
Fits(c) ==
  \A a \in Artifacts, k \in Claims :
    c.op = ClaimOp(a, k) =>
      stored[a] # NoContent /\ c.payload.body = stored[a] /\ c.payload.scope = ScopeOf(a)

ClaimSaved(a, k) == \E c \in receipt : c.op = ClaimOp(a, k)
\* A run that delivers has saved what it has passed, and still has before it what it owes.
DeliveryInOrder ==
  \A r \in Runs :
    /\ phase[r] \in {"submitting", "saving"} =>
         /\ \A a \in refs[r] : stored[a] # NoContent
         /\ \A a \in owed[r] :
              /\ ScopeOf(a) = snapshot[r].scope /\ outbox[a] # "none"
              /\ a \in refs[r] \/ outbox[a] = "delivered" \/ a \in revoked
    /\ phase[r] = "saving" =>
         /\ current[r] # <<>> /\ current[r][1] \in refs[r]
         /\ current[r][2] # {} => /\ ScopeOf(current[r][1]) = snapshot[r].scope
                                  /\ stored[current[r][1]] \in Verified
         /\ stored[current[r][1]] \in Verified /\ current[r][1] \notin revoked =>
              \A k \in ClaimsOf[current[r][1]] \ current[r][2] : ClaimSaved(current[r][1], k)

MemoryInvariant ==
  /\ TypeOK /\ TablesTyped /\ ItemsHaveReceipts /\ UpdatesAreRead /\ RunsAreFrozen
  /\ LoadsFindOut /\ OutboxIsStored /\ DeliveryInOrder
  /\ (\A c \in receipt : Fits(c)) /\ DeliveredOnce /\ OnlyApprovedInScope
-----------------------------------------------------------------------------
(* Operators. *)

\* The operation_ids of deliveries are nobody else's.
LEMMA OpsDiffer ==
  ASSUME NEW a, NEW k
  PROVE  /\ \A q : ClaimOp(a, k) # UserOp(q)
         /\ \A i, v : ClaimOp(a, k) # ForgetOp(i, v)
         /\ \A b, l : ClaimOp(a, k) = ClaimOp(b, l) => a = b /\ k = l
  BY DEF ClaimOp, UserOp, ForgetOp

\* snapshot_for_run: the first call lists what is active, and any other changes nothing.
LEMMA FrozenType ==
  ASSUME MemoryInvariant, NEW r \in Runs, NEW s \in Scopes, snapshot[r].scope \in {NoScope, s}
  PROVE  /\ Frozen(r, s) \in SnapshotType /\ Frozen(r, s).scope = s
         /\ snapshot[r].scope = s => Frozen(r, s) = snapshot[r]
         /\ \A ref \in Frozen(r, s).refs : \E c \in receipt :
              /\ c.item = ref.id /\ c.version = ref.version /\ c.payload.status = "active"
              /\ c.payload.scope \in {Global, s}
  <1> DEFINE view == {[id |-> i, version |-> item[i].version] : i \in ListActive(s)}
  <1>0. snapshot[r] \in SnapshotType /\ NoScope \notin Scopes
    BY RepositoryAssumption DEF MemoryInvariant, TablesTyped
  <1>1. CASE snapshot[r].scope = NoScope
    <2>1. Frozen(r, s) = [scope |-> s, refs |-> view] /\ snapshot[r].scope # s
      BY <1>0, <1>1 DEF Frozen
    <2>2. ASSUME NEW i \in ListActive(s)
          PROVE  /\ [id |-> i, version |-> item[i].version] \in Refs
                 /\ \E c \in receipt :
                      /\ c.item = i /\ c.version = item[i].version /\ c.payload.status = "active"
                      /\ c.payload.scope \in {Global, s}
      <3>1. i \in Ids /\ i \in Known /\ item[i].status = "active" /\ item[i].scope \in {Global, s}
        BY <2>2 DEF ListActive, Known
      <3>2. item[i].version \in 1 .. MaxWrites
        BY <3>1 DEF Known, MemoryInvariant, TypeOK, ItemType
      <3> QED
        BY <3>1, <3>2 DEF Refs, MemoryInvariant, ItemsHaveReceipts
    <2>3. view \in SUBSET Refs
      BY <2>2
    <2> QED
      BY <2>1, <2>2, <2>3 DEF SnapshotType
  <1>2. CASE snapshot[r].scope = s
    <2>1. Frozen(r, s) = snapshot[r]
      BY <1>0, <1>2 DEF Frozen
    <2> QED
      BY <1>0, <1>2, <2>1 DEF MemoryInvariant, OnlyApprovedInScope
  <1> QED
    BY <1>1, <1>2
-----------------------------------------------------------------------------
(* The repository: what a save may change. *)

PayloadOK(p) ==
  /\ p.item \in Ids \cup {NoId} /\ p.status \in Status /\ p.scope \in Places
  /\ p.item \in Ids => p.expected > 0

\* A new version of item i, over the one the payload expects, or of a fresh item.
Advanced(i, p) ==
  /\ \/ p.item = i /\ item[i].version = p.expected
     \/ p.item = NoId /\ i \notin Known
  /\ item'[i] = [status |-> p.status, version |-> item[i].version + 1, scope |-> p.scope]

ItemTables ==
  /\ item \in [Ids -> ItemType]
  /\ \A c \in receipt : c.item \in Ids /\ c.version \in 1 .. MaxWrites
  /\ \A c \in receipt : c.payload.status \in Status /\ c.payload.scope \in Places
  /\ IsFiniteSet(receipt)
  /\ ItemsHaveReceipts
  /\ \A c, d \in receipt : c.op = d.op => c = d

Saved(op, p) ==
  /\ ItemTables'
  /\ receipt \subseteq receipt'
  /\ \A c \in receipt' \ receipt : c.op = op /\ c.payload = p
  /\ \A i \in Ids : item'[i] = item[i] \/ Advanced(i, p)

LEMMA WriteSaves ==
  ASSUME ItemTables, NEW op, NEW p, PayloadOK(p), Uses(op) = {}, ~Stale(p),
         NEW i \in Targets(p), Write(op, p, i)
  PROVE  Saved(op, p) /\ \E c \in receipt' : c.op = op
  <1> DEFINE new == [op |-> op, payload |-> p, item |-> i, version |-> item[i].version + 1]
  <1>1. i \in Ids /\ item[i] \in ItemType
    BY DEF Targets, PayloadOK, ItemTables
  <1>2. /\ receipt' = receipt \cup {new}
        /\ item' = [item EXCEPT ![i] = [status |-> p.status, version |-> item[i].version + 1,
                                        scope |-> p.scope]]
    BY DEF Write
  <1>3. new \notin receipt /\ \A c \in receipt : c.op # op
    BY DEF Uses
  <1>4. /\ IsFiniteSet(receipt') /\ Cardinality(receipt) \in Nat
        /\ Cardinality(receipt') = Cardinality(receipt) + 1
    BY <1>2, <1>3, FS_AddElement, FS_CardinalityType DEF ItemTables
  <1>5. item[i].version + 1 \in 1 .. MaxWrites
    <2>1. item[i].version <= Cardinality(receipt) /\ item[i].version \in Nat
      BY <1>1 DEF ItemTables, ItemsHaveReceipts, ItemType
    <2>2. Cardinality(receipt) < MaxWrites
      BY DEF Write
    <2> QED
      BY <1>4, <2>1, <2>2, RepositoryAssumption
  <1>6. item' \in [Ids -> ItemType]
    BY <1>1, <1>2, <1>5 DEF ItemTables, ItemType, PayloadOK
  <1>7. \A j \in Ids : j # i => item'[j] = item[j]
    BY <1>2 DEF ItemTables
  <1>8. item'[i] = [status |-> p.status, version |-> item[i].version + 1, scope |-> p.scope]
    BY <1>1, <1>2 DEF ItemTables
  <1>9. ItemsHaveReceipts'
    <2> SUFFICES ASSUME NEW j \in Ids
                 PROVE  /\ item'[j].version <= Cardinality(receipt')
                        /\ ~(item'[j].version > 0) => item'[j] = NoItem
                        /\ item'[j].version > 0 => \E c \in receipt' :
                             /\ c.item = j /\ c.version = item'[j].version
                             /\ c.payload.status = item'[j].status
                             /\ c.payload.scope = item'[j].scope
      BY DEF ItemsHaveReceipts, Known
    <2>1. CASE j = i
      <3>1. item[i].version <= Cardinality(receipt) /\ item[i].version \in Nat
        BY <1>1 DEF ItemTables, ItemsHaveReceipts, ItemType
      <3>2. new \in receipt' /\ new.item = j /\ new.version = item'[j].version
            /\ new.payload.status = item'[j].status /\ new.payload.scope = item'[j].scope
        BY <1>2, <1>8, <2>1
      <3> QED
        BY <1>4, <1>8, <2>1, <3>1, <3>2
    <2>2. CASE j # i
      <3>1. item'[j] = item[j] /\ item[j].version \in Nat
        BY <1>7, <2>2 DEF ItemTables, ItemType
      <3> QED
        BY <1>2, <1>4, <3>1 DEF ItemTables, ItemsHaveReceipts, Known
    <2> QED
      BY <2>1, <2>2
  <1>10. Advanced(i, p)
    <2>1. \/ p.item = i /\ item[i].version = p.expected
          \/ p.item = NoId /\ i \notin Known
      BY DEF Targets, Stale
    <2> QED
      BY <1>8, <2>1 DEF Advanced
  <1>11. ItemTables'
    BY <1>1, <1>2, <1>3, <1>4, <1>5, <1>6, <1>9 DEF ItemTables, PayloadOK
  <1> QED
    BY <1>2, <1>3, <1>7, <1>10, <1>11 DEF Saved

LEMMA SaveSaves ==
  ASSUME ItemTables, NEW op, NEW p, PayloadOK(p), Save(op, p)
  PROVE  /\ Saved(op, p)
         /\ ~Conflicts(op, p) => \E c \in receipt' : c.op = op
  <1>1. CASE Uses(op) # {} \/ Conflicts(op, p)
    <2>1. UNCHANGED <<item, receipt>>
      BY <1>1 DEF Save
    <2>2. ItemTables'
      BY <2>1 DEF ItemTables, ItemsHaveReceipts, Known
    <2> QED
      BY <1>1, <2>1, <2>2 DEF Saved, Uses
  <1>2. CASE ~(Uses(op) # {} \/ Conflicts(op, p))
    <2>1. PICK i \in Targets(p) : Write(op, p, i)
      BY <1>2 DEF Save
    <2>2. Uses(op) = {} /\ ~Stale(p)
      BY <1>2 DEF Conflicts
    <2> QED
      BY <2>1, <2>2, WriteSaves
  <1> QED
    BY <1>1, <1>2
-----------------------------------------------------------------------------
(* What a step of the system may do to each table. *)

\* Where an item may go from where it is.
Advances(from, to) ==
  /\ from = "active" => to \in {"active", "revoked"}
  /\ from = "revoked" => to = "revoked"

ItemsAdvance ==
  \A i \in Ids :
    \/ item'[i] = item[i]
    \/ /\ item'[i].version = item[i].version + 1
       /\ Advances(item[i].status, item'[i].status)

RepositoryGrows ==
  /\ ItemTables' /\ ItemsAdvance
  /\ receipt \subseteq receipt' /\ \A c \in receipt' \ receipt : Fits(c)

LEMMA TablesOfItems == MemoryInvariant => ItemTables
  BY DEF MemoryInvariant, TypeOK, TablesTyped, DeliveredOnce, ItemTables

LEMMA SavedGrows ==
  ASSUME MemoryInvariant, NEW op, NEW p, Saved(op, p),
         \A i \in Ids : Advanced(i, p) => Advances(item[i].status, p.status),
         \A c : c.op = op /\ c.payload = p => Fits(c)
  PROVE  RepositoryGrows
  <1>1. ItemsAdvance
    <2> SUFFICES ASSUME NEW i \in Ids, Advanced(i, p)
                 PROVE  /\ item'[i].version = item[i].version + 1
                        /\ Advances(item[i].status, item'[i].status)
      BY DEF Saved, ItemsAdvance
    <2>1. Advances(item[i].status, p.status)
      OBVIOUS
    <2> QED
      BY <2>1 DEF Advanced
  <1>2. \A c \in receipt' \ receipt : Fits(c)
    BY DEF Saved
  <1> QED
    BY <1>1, <1>2 DEF Saved, RepositoryGrows

LEMMA RememberGrows ==
  ASSUME MemoryInvariant, NEW m \in Memories, Remember(m)
  PROVE  RepositoryGrows
  <1> DEFINE p == Payload(NoId, 0, "active", WorkspaceOf[m], m)
  <1>1. PayloadOK(p) /\ p.item = NoId /\ NoId \notin Ids
    BY RepositoryAssumption, ArtifactAssumption DEF PayloadOK, Payload, Status
  <1>2. Saved(UserOp(m), p)
    BY <1>1, SaveSaves, TablesOfItems DEF Remember
  <1>3. \A i \in Ids : Advanced(i, p) => Advances(item[i].status, p.status)
    BY <1>1 DEF Advanced, Advances, MemoryInvariant, ItemsHaveReceipts, NoItem
  <1>4. \A c : c.op = UserOp(m) => Fits(c)
    BY OpsDiffer, Zenon DEF Fits
  <1> QED
    BY <1>2, <1>3, <1>4, SavedGrows

\* A stale update conflicts; one that is not stale read the item as it is.
LEMMA UpdateGrows ==
  ASSUME MemoryInvariant, NEW q \in Updates, UpdateSave(q)
  PROVE  RepositoryGrows
  <1> DEFINE u == update[q]
             p == Payload(u.item, u.expected, u.status, item[u.item].scope, q)
  <1>1. /\ u.item \in Known /\ u.expected \in 1 .. item[u.item].version
        /\ u.expected = item[u.item].version =>
             \/ u.status = item[u.item].status
             \/ u.status = "active" /\ item[u.item].status = "candidate"
    BY DEF UpdateSave, MemoryInvariant, UpdatesAreRead
  <1>2. u.item \in Ids /\ item[u.item] \in ItemType /\ NoId \notin Ids
    BY <1>1, RepositoryAssumption DEF Known, MemoryInvariant, TypeOK
  <1>3. u.status \in Status
    BY DEF UpdateSave, MemoryInvariant, UpdatesAreRead
  <1>4. PayloadOK(p)
    BY <1>1, <1>2, <1>3 DEF PayloadOK, Payload, ItemType
  <1>5. Saved(UserOp(q), p)
    BY <1>4, SaveSaves, TablesOfItems DEF UpdateSave
  <1>6. \A i \in Ids : Advanced(i, p) => Advances(item[i].status, p.status)
    BY <1>1, <1>2 DEF Advanced, Advances, Payload
  <1>7. \A c : c.op = UserOp(q) => Fits(c)
    BY OpsDiffer, Zenon DEF Fits
  <1> QED
    BY <1>5, <1>6, <1>7, SavedGrows

LEMMA ForgetGrows ==
  ASSUME MemoryInvariant, NEW i \in Ids, NEW v \in 1 .. MaxWrites, Forget(i, v)
  PROVE  RepositoryGrows
  <1> DEFINE p == Payload(i, v, "revoked", item[i].scope, i)
  <1>1. PayloadOK(p)
    BY DEF PayloadOK, Payload, Status, MemoryInvariant, TypeOK, ItemType
  <1>2. Saved(ForgetOp(i, v), p)
    BY <1>1, SaveSaves, TablesOfItems DEF Forget
  <1>3. \A j \in Ids : Advanced(j, p) => Advances(item[j].status, p.status)
    BY DEF Advances, Payload
  <1>4. \A c : c.op = ForgetOp(i, v) => Fits(c)
    BY OpsDiffer, Zenon DEF Fits
  <1> QED
    BY <1>2, <1>3, <1>4, SavedGrows

\* What a run is saving.
LEMMA Saving ==
  ASSUME MemoryInvariant, NEW r \in Runs, phase[r] = "saving"
  PROVE  /\ current[r] \in Artifacts \X SUBSET Claims
         /\ current[r][1] \in Artifacts /\ current[r][2] \subseteq Claims
         /\ current[r] = <<current[r][1], current[r][2]>>
  BY DEF MemoryInvariant, TablesTyped, DeliveryInOrder

LEMMA DeliveryGrows ==
  ASSUME MemoryInvariant, NEW r \in Runs, NEW k, SaveClaim(r, k)
  PROVE  /\ RepositoryGrows
         /\ phase'[r] # "idle" => \E c \in receipt' : c.op = ClaimOp(current[r][1], k)
  <1> DEFINE a == current[r][1]
             op == ClaimOp(a, k)
             p == Payload(NoId, 0, "candidate", snapshot[r].scope, stored[a])
  <1>1. /\ phase[r] = "saving" /\ k \in current[r][2] /\ Save(op, p)
        /\ Conflicts(op, p) => Goto(r, "idle")
    BY DEF SaveClaim
  <1>2. a \in Artifacts /\ current[r][2] \subseteq Claims
    BY <1>1, Saving
  <1>3. ScopeOf(a) = snapshot[r].scope /\ stored[a] \in Verified /\ stored[a] # NoContent
    BY <1>1, ArtifactAssumption DEF MemoryInvariant, DeliveryInOrder
  <1>4. snapshot[r].scope \in Scopes
    BY <1>1 DEF MemoryInvariant, RunsAreFrozen, TablesTyped, SnapshotType
  <1>5. PayloadOK(p) /\ p.item = NoId /\ NoId \notin Ids
    BY <1>4, RepositoryAssumption DEF PayloadOK, Payload, Status, Places
  <1>6. Saved(op, p) /\ (~Conflicts(op, p) => \E c \in receipt' : c.op = op)
    BY <1>1, <1>5, SaveSaves, TablesOfItems
  <1>7. \A i \in Ids : Advanced(i, p) => Advances(item[i].status, p.status)
    BY <1>5 DEF Advanced, Advances, MemoryInvariant, ItemsHaveReceipts, NoItem
  <1>8. \A c : c.op = op /\ c.payload = p => Fits(c)
    <2> SUFFICES ASSUME NEW c, c.op = op, c.payload = p,
                        NEW b \in Artifacts, NEW l \in Claims, c.op = ClaimOp(b, l)
                 PROVE  /\ stored[b] # NoContent /\ c.payload.body = stored[b]
                        /\ c.payload.scope = ScopeOf(b)
      BY DEF Fits
    <2>1. b = a
      BY OpsDiffer
    <2> QED
      BY <1>3, <2>1 DEF Payload
  <1>9. RepositoryGrows
    <2> HIDE DEF op, p
    <2> QED
      BY <1>6, <1>7, <1>8, SavedGrows
  <1>10. phase'[r] # "idle" => \E c \in receipt' : c.op = op
    <2>1. Conflicts(op, p) => phase'[r] = "idle"
      BY <1>1 DEF Goto, MemoryInvariant, TypeOK
    <2> QED
      BY <1>6, <2>1
  <1> QED
    BY <1>9, <1>10

LEMMA RepositoryStep ==
  ASSUME MemoryInvariant, [Next]_vars
  PROVE  RepositoryGrows
  <1>1. ASSUME NEW m \in Memories, Remember(m) PROVE RepositoryGrows
    BY <1>1, RememberGrows
  <1>2. ASSUME NEW q \in Updates, UpdateSave(q) PROVE RepositoryGrows
    BY <1>2, UpdateGrows
  <1>3. ASSUME NEW i \in Ids, NEW v \in 1 .. MaxWrites, Forget(i, v) PROVE RepositoryGrows
    BY <1>3, ForgetGrows
  <1>4. ASSUME NEW r \in Runs, NEW k, SaveClaim(r, k) PROVE RepositoryGrows
    BY <1>4, DeliveryGrows
  <1>5. CASE UNCHANGED <<item, receipt>>
    <2>1. ItemTables'
      BY <1>5, TablesOfItems DEF ItemTables, ItemsHaveReceipts, Known
    <2> QED
      BY <1>5, <2>1 DEF RepositoryGrows, ItemsAdvance
  <1> QED
    BY <1>1, <1>2, <1>3, <1>4, <1>5
    DEF Next, UserStep, RunStep, Load, CheckItem, FinishLoad, Put, Revoke, SubmitStart, Skip, Get,
        Mark, SubmitEnd, Abandon, UpdateRead, Crash, repositoryVars, vars

\* A run with a snapshot keeps it; one without is idle and gets what it would freeze.
LEMMA SnapshotStep ==
  ASSUME MemoryInvariant, [Next]_vars, NEW r \in Runs
  PROVE  /\ snapshot[r].scope # NoScope => snapshot'[r] = snapshot[r]
         /\ \/ snapshot'[r] = snapshot[r]
            \/ /\ UNCHANGED <<item, receipt, artifactVars, shown>>
               /\ \E s \in Scopes :
                    snapshot[r].scope \in {NoScope, s} /\ snapshot'[r] = Frozen(r, s)
  <1>1. ASSUME NEW q \in Runs, NEW s \in Scopes, Load(q, s)
        PROVE  /\ snapshot[r].scope # NoScope => snapshot'[r] = snapshot[r]
               /\ \/ snapshot'[r] = snapshot[r]
                  \/ /\ UNCHANGED <<item, receipt, artifactVars, shown>>
                     /\ snapshot[r].scope \in {NoScope, s} /\ snapshot'[r] = Frozen(r, s)
    <2>1. snapshot' = [snapshot EXCEPT ![q] = Frozen(q, s)] /\ snapshot[q].scope \in {NoScope, s}
      BY <1>1 DEF Load
    <2>2. q # r => snapshot'[r] = snapshot[r]
      BY <2>1 DEF MemoryInvariant, TablesTyped
    <2>3. q = r => snapshot'[r] = Frozen(r, s)
      BY <2>1 DEF MemoryInvariant, TablesTyped
    <2>4. snapshot[r].scope # NoScope /\ q = r => snapshot'[r] = snapshot[r]
      BY <2>1, <2>3 DEF Frozen
    <2> QED
      BY <1>1, <2>1, <2>2, <2>3, <2>4 DEF Load
  <1>2. CASE UNCHANGED snapshot
    BY <1>2
  <1> QED
    BY <1>1, <1>2
    DEF Next, UserStep, RunStep, CheckItem, FinishLoad, Put, Revoke, SubmitStart, Skip, Get,
        SaveClaim, Mark, SubmitEnd, Abandon, Remember, UpdateRead, UpdateSave, Forget, Crash,
        repositoryVars, vars

\* Artifacts are written once, deliveries are marked once, nothing is taken back.
LEMMA ArtifactStep ==
  ASSUME MemoryInvariant, [Next]_vars, NEW a \in Artifacts
  PROVE  /\ stored[a] # NoContent => stored'[a] = stored[a] /\ ScopeOf(a)' = ScopeOf(a)
         /\ a \in revoked => a \in revoked'
         /\ outbox[a] # "none" => outbox'[a] # "none"
         /\ outbox[a] = "delivered" => outbox'[a] = "delivered"
  <1>1. stored[a] # NoContent => ScopeOf(a)' = ScopeOf(a)
    <2>1. RunOf[a] \in Runs
      BY ArtifactAssumption
    <2>2. stored[a] # NoContent => snapshot[RunOf[a]].scope # NoScope
      BY DEF MemoryInvariant, OutboxIsStored
    <2> QED
      BY <2>1, <2>2, SnapshotStep DEF ScopeOf
  <1> DEFINE Kept == /\ stored[a] # NoContent => stored'[a] = stored[a]
                     /\ a \in revoked => a \in revoked'
                     /\ outbox[a] # "none" => outbox'[a] # "none"
                     /\ outbox[a] = "delivered" => outbox'[a] = "delivered"
  <1>2. ASSUME NEW b \in Artifacts, NEW c \in Contents, Put(b, c) PROVE Kept
    BY <1>2 DEF Put, PutAccepts, MemoryInvariant, TypeOK
  <1>3. ASSUME NEW b \in Artifacts, Revoke(b) PROVE Kept
    BY <1>3 DEF Revoke, MemoryInvariant, TypeOK
  <1>4. ASSUME NEW r \in Runs, Mark(r) PROVE Kept
    BY <1>4 DEF Mark, MemoryInvariant, TypeOK
  <1>5. ASSUME UNCHANGED <<stored, revoked, outbox>> PROVE Kept
    BY <1>5
  <1>6. Kept
    <2> HIDE DEF Kept
    <2> QED
      BY <1>2, <1>3, <1>4, <1>5
      DEF Next, artifactVars, UserStep, RunStep, Load, CheckItem, FinishLoad, SubmitStart, Skip, Get,
          SaveClaim, SubmitEnd, Abandon, Remember, UpdateRead, UpdateSave, Forget, Crash, vars
  <1> QED
    BY <1>1, <1>6
-----------------------------------------------------------------------------
(* The parts of the invariant, one after the other. *)

LEMMA ApprovedStep ==
  ASSUME MemoryInvariant, [Next]_vars
  PROVE  OnlyApprovedInScope'
  <1> DEFINE Backed(s, ref, t) ==
        \E c \in t : /\ c.item = ref.id /\ c.version = ref.version /\ c.payload.status = "active"
                     /\ c.payload.scope \in {Global, s}
  <1> SUFFICES ASSUME NEW r \in Runs, NEW ref \in snapshot'[r].refs
               PROVE  Backed(snapshot'[r].scope, ref, receipt')
    BY DEF OnlyApprovedInScope
  <1>1. receipt \subseteq receipt'
    BY RepositoryStep DEF RepositoryGrows
  <1>2. CASE snapshot'[r] = snapshot[r]
    BY <1>1, <1>2 DEF MemoryInvariant, OnlyApprovedInScope
  <1>3. ASSUME NEW s \in Scopes, snapshot[r].scope \in {NoScope, s}, snapshot'[r] = Frozen(r, s)
        PROVE  Backed(snapshot'[r].scope, ref, receipt')
    <2>1. Backed(s, ref, receipt) /\ snapshot'[r].scope = s
      BY <1>3, FrozenType
    <2> QED
      BY <1>1, <2>1
  <1> QED
    BY <1>2, <1>3, SnapshotStep

LEMMA UpdatesStep ==
  ASSUME MemoryInvariant, [Next]_vars
  PROVE  UpdatesAreRead' /\ update' \in [Updates -> UpdateType]
  <1> DEFINE Read(q) ==
        update[q] # NoUpdate =>
          /\ update[q].status \in Status
          /\ update[q].item \in Known /\ update[q].expected \in 1 .. item[update[q].item].version
          /\ update[q].expected = item[update[q].item].version =>
               \/ update[q].status = item[update[q].item].status
               \/ update[q].status = "active" /\ item[update[q].item].status = "candidate"
  <1>0. UpdatesAreRead /\ ItemsAdvance /\ item \in [Ids -> ItemType]
        /\ update \in [Updates -> UpdateType]
    BY RepositoryStep DEF MemoryInvariant, TypeOK, TablesTyped, RepositoryGrows
  <1>1. ASSUME NEW q \in Updates, update'[q] = update[q] PROVE Read(q)'
    <2> SUFFICES ASSUME update[q] # NoUpdate PROVE Read(q)'
      BY <1>1
    <2> DEFINE i == update[q].item
    <2>1. /\ update[q].status \in Status /\ i \in Ids /\ item[i].version > 0
          /\ update[q].expected \in 1 .. item[i].version
          /\ update[q].expected = item[i].version =>
               \/ update[q].status = item[i].status
               \/ update[q].status = "active" /\ item[i].status = "candidate"
      BY <1>0 DEF UpdatesAreRead, Known
    <2>2. item[i].version \in Nat
      BY <1>0, <2>1 DEF ItemType
    <2>3. CASE item'[i] = item[i]
      BY <1>1, <2>1, <2>3 DEF Known
    <2>4. CASE item'[i].version = item[i].version + 1
      BY <1>1, <2>1, <2>2, <2>4 DEF Known
    <2> QED
      BY <1>0, <2>1, <2>3, <2>4 DEF ItemsAdvance
  <1>2. ASSUME NEW q \in Updates, NEW i \in Ids, NEW v \in 1 .. MaxWrites, NEW b \in BOOLEAN,
               UpdateRead(q, i, v, b)
        PROVE  (\A p \in Updates : Read(p)') /\ update' \in [Updates -> UpdateType]
    <2> DEFINE u == [item |-> i, expected |-> v,
                     status |-> IF b THEN "active" ELSE item[i].status]
    <2>1. update' = [update EXCEPT ![q] = u] /\ item' = item /\ i \in Known
          /\ v \in 1 .. item[i].version /\ (b => item[i].status = "candidate")
      BY <1>2 DEF UpdateRead, repositoryVars
    <2>2. item[i].status \in Status
      BY <2>1, TablesOfItems DEF MemoryInvariant, TablesTyped, ItemsHaveReceipts
    <2>3. u \in UpdateType /\ u.status \in Status
      BY <2>2 DEF UpdateType, Status
    <2>4. update' \in [Updates -> UpdateType] /\ update'[q] = u
          /\ \A p \in Updates : p # q => update'[p] = update[p]
      BY <1>0, <2>1, <2>3
    <2>5. Read(q)'
      BY <2>1, <2>3, <2>4 DEF Known
    <2> QED
      BY <1>1, <2>4, <2>5
  <1>3. ASSUME NEW q \in Updates, UpdateSave(q)
        PROVE  (\A p \in Updates : Read(p)') /\ update' \in [Updates -> UpdateType]
    <2>1. update' = [update EXCEPT ![q] = NoUpdate] /\ NoUpdate \in UpdateType
      BY <1>3, RepositoryAssumption DEF UpdateSave, NoUpdate, UpdateType
    <2>2. update' \in [Updates -> UpdateType] /\ update'[q] = NoUpdate
          /\ \A p \in Updates : p # q => update'[p] = update[p]
      BY <1>0, <2>1
    <2>3. Read(q)'
      BY <2>2 DEF NoUpdate
    <2> QED
      BY <1>1, <2>2, <2>3
  <1>4. CASE Crash
    <2>1. update' = [q \in Updates |-> NoUpdate] /\ NoUpdate \in UpdateType
      BY <1>4, RepositoryAssumption DEF Crash, NoUpdate, UpdateType
    <2> QED
      BY <2>1 DEF UpdatesAreRead, NoUpdate
  <1>5. CASE UNCHANGED update
    BY <1>0, <1>1, <1>5 DEF UpdatesAreRead
  <1>6. (\A p \in Updates : Read(p)') => UpdatesAreRead'
    BY DEF UpdatesAreRead
  <1> QED
    <2> HIDE DEF Read
    <2> QED
      BY <1>2, <1>3, <1>4, <1>5, <1>6
      DEF Next, UserStep, RunStep, Load, CheckItem, FinishLoad, Put, Revoke, SubmitStart, Skip,
          Get, SaveClaim, Mark, SubmitEnd, Abandon, Remember, Forget, vars

LEMMA LoadTypes ==
  ASSUME MemoryInvariant, [Next]_vars
  PROVE  /\ snapshot' \in [Runs -> SnapshotType]
         /\ unchecked' \in [Runs -> SUBSET Ids] /\ valid' \in [Runs -> BOOLEAN]
         /\ shown' \in [Runs -> SUBSET SUBSET Refs] /\ forgotten' \in [Runs -> SUBSET Ids]
  <1> DEFINE Typed == /\ snapshot \in [Runs -> SnapshotType]
                      /\ unchecked \in [Runs -> SUBSET Ids] /\ valid \in [Runs -> BOOLEAN]
                      /\ shown \in [Runs -> SUBSET SUBSET Refs]
                      /\ forgotten \in [Runs -> SUBSET Ids]
  <1>0. Typed
    BY DEF MemoryInvariant, TypeOK, TablesTyped
  <1>1. ASSUME NEW r \in Runs, NEW s \in Scopes, Load(r, s) PROVE Typed'
    <2>1. Frozen(r, s) \in SnapshotType
      BY <1>1, FrozenType DEF Load
    <2>2. \A ref \in Frozen(r, s).refs : ref.id \in Ids
      BY <2>1 DEF SnapshotType, Refs
    <2> QED
      BY <1>0, <1>1, <2>1, <2>2 DEF Load
  <1>2. ASSUME NEW r \in Runs, NEW i \in Ids, CheckItem(r, i) PROVE Typed'
    <2>1. (valid[r] /\ StillActive(i)) \in BOOLEAN
      BY DEF StillActive
    <2> QED
      BY <1>0, <1>2, <2>1 DEF CheckItem, repositoryVars
  <1>3. ASSUME NEW r \in Runs, FinishLoad(r) PROVE Typed'
    <2>1. snapshot[r].refs \in SUBSET Refs
      BY <1>0 DEF SnapshotType
    <2> QED
      BY <1>0, <1>3, <2>1 DEF FinishLoad, repositoryVars
  <1>4. ASSUME Crash PROVE Typed'
    BY <1>0, <1>4 DEF Crash, repositoryVars
  <1>5. ASSUME UNCHANGED <<snapshot, loadVars>> PROVE Typed'
    BY <1>0, <1>5 DEF loadVars
  <1>6. Typed'
    <2> HIDE DEF Typed
    <2> QED
      BY <1>1, <1>2, <1>3, <1>4, <1>5
      DEF Next, UserStep, RunStep, Put, Revoke, SubmitStart, Skip, Get, SaveClaim, Mark,
          SubmitEnd, Abandon, Remember, UpdateRead, UpdateSave, Forget, repositoryVars, vars
  <1> QED
    BY <1>6

CurrentType == {<<>>} \cup (Artifacts \X SUBSET Claims)

LEMMA SubmitTypes ==
  ASSUME MemoryInvariant, [Next]_vars
  PROVE  /\ refs' \in [Runs -> SUBSET Artifacts] /\ owed' \in [Runs -> SUBSET Artifacts]
         /\ current' \in [Runs -> CurrentType]
  <1> DEFINE Typed == /\ refs \in [Runs -> SUBSET Artifacts]
                      /\ owed \in [Runs -> SUBSET Artifacts]
                      /\ current \in [Runs -> CurrentType]
  <1>0. Typed /\ \A r \in Runs : <<>> \in CurrentType
    BY DEF MemoryInvariant, TypeOK, TablesTyped, CurrentType
  <1>1. ASSUME NEW r \in Runs, NEW own \in SUBSET Artifacts, SubmitStart(r, own) PROVE Typed'
    BY <1>0, <1>1 DEF SubmitStart, ToDeliver, PendingRefs
  <1>2. ASSUME NEW r \in Runs, NEW a \in Artifacts, Skip(r, a) PROVE Typed'
    BY <1>0, <1>2 DEF Skip
  <1>3. ASSUME NEW r \in Runs, NEW a \in Artifacts, Get(r, a) PROVE Typed'
    <2> DEFINE K == IF a \notin revoked /\ stored[a] \in Verified THEN ClaimsOf[a] ELSE {}
    <2>1. <<a, K>> \in CurrentType
      BY DEF CurrentType, Claims
    <2>2. current' = [current EXCEPT ![r] = <<a, K>>] /\ UNCHANGED <<refs, owed>>
      BY <1>3 DEF Get
    <2> HIDE DEF K
    <2> QED
      BY <1>0, <2>1, <2>2
  <1>4. ASSUME NEW r \in Runs, NEW k, SaveClaim(r, k) PROVE Typed'
    <2>1. phase[r] = "saving"
      BY <1>4 DEF SaveClaim
    <2>2. <<current[r][1], current[r][2] \ {k}>> \in CurrentType
      BY <2>1, Saving DEF CurrentType
    <2> QED
      BY <1>0, <1>4, <2>2 DEF SaveClaim
  <1>5. ASSUME NEW r \in Runs, Mark(r) \/ SubmitEnd(r) PROVE Typed'
    BY <1>0, <1>5 DEF Mark, SubmitEnd
  <1>6. ASSUME Crash PROVE Typed'
    BY <1>0, <1>6 DEF Crash
  <1>7. ASSUME UNCHANGED submitVars PROVE Typed'
    BY <1>0, <1>7 DEF submitVars
  <1>8. Typed'
    <2> HIDE DEF Typed
    <2> QED
      BY <1>1, <1>2, <1>3, <1>4, <1>5, <1>6, <1>7
      DEF Next, UserStep, RunStep, Load, CheckItem, FinishLoad, Put, Revoke, Abandon, Remember,
          UpdateRead, UpdateSave, Forget, vars
  <1> QED
    BY <1>8

LEMMA OtherTypes ==
  ASSUME MemoryInvariant, [Next]_vars
  PROVE  /\ stored' \in [Artifacts -> Contents \cup {NoContent}] /\ revoked' \subseteq Artifacts
         /\ outbox' \in [Artifacts -> {"none", "pending", "delivered"}]
         /\ phase' \in [Runs -> Phases] /\ crashes' \in 0 .. MaxCrashes
  <1> USE DEF MemoryInvariant, TypeOK
  <1>1. /\ stored' \in [Artifacts -> Contents \cup {NoContent}] /\ revoked' \subseteq Artifacts
        /\ outbox' \in [Artifacts -> {"none", "pending", "delivered"}]
    BY DEF Next, UserStep, RunStep, Load, CheckItem, FinishLoad, Put, Revoke, SubmitStart, Skip,
           Get, SaveClaim, Mark, SubmitEnd, Abandon, Remember, UpdateRead, UpdateSave, Forget,
           Crash, artifactVars, vars
  <1>2. phase' \in [Runs -> Phases]
    BY DEF Next, UserStep, RunStep, Load, CheckItem, FinishLoad, Put, Revoke, SubmitStart, Skip,
           Get, SaveClaim, Mark, SubmitEnd, Abandon, Remember, UpdateRead, UpdateSave, Forget,
           Crash, Goto, Phases, vars
  <1>3. crashes' \in 0 .. MaxCrashes
    BY ArtifactAssumption
    DEF Next, UserStep, RunStep, Load, CheckItem, FinishLoad, Put, Revoke, SubmitStart, Skip,
        Get, SaveClaim, Mark, SubmitEnd, Abandon, Remember, UpdateRead, UpdateSave, Forget,
        Crash, vars
  <1> QED
    BY <1>1, <1>2, <1>3

LEMMA TypeStep ==
  ASSUME MemoryInvariant, [Next]_vars
  PROVE  TypeOK' /\ TablesTyped'
  <1>1. /\ item' \in [Ids -> ItemType] /\ IsFiniteSet(receipt')
        /\ \A c \in receipt' : /\ c.item \in Ids /\ c.version \in 1 .. MaxWrites
                               /\ c.payload.status \in Status /\ c.payload.scope \in Places
    BY RepositoryStep DEF RepositoryGrows, ItemTables
  <1>2. \A r \in Runs :
          snapshot'[r].scope \in Scopes \cup {NoScope} /\ snapshot'[r].refs \subseteq Refs
    BY LoadTypes DEF SnapshotType
  <1>3. \A r \in Runs : current'[r] = <<>> \/ current'[r][1] \in Artifacts
    BY SubmitTypes DEF CurrentType
  <1>4. \A q \in Updates : update'[q].item \in Ids \cup {NoId}
    BY UpdatesStep DEF UpdateType
  <1>5. TypeOK'
    BY <1>1, <1>2, <1>3, <1>4, LoadTypes, SubmitTypes, OtherTypes DEF TypeOK
  <1>6. TablesTyped'
    BY <1>1, LoadTypes, SubmitTypes, UpdatesStep DEF TablesTyped, CurrentType
  <1> QED
    BY <1>5, <1>6

LEMMA FrozenStep ==
  ASSUME MemoryInvariant, [Next]_vars
  PROVE  RunsAreFrozen'
  <1> DEFINE Part(r) ==
        /\ phase[r] # "idle" => snapshot[r].scope # NoScope
        /\ snapshot[r].scope = NoScope => snapshot[r].refs = {} /\ shown[r] = {}
        /\ shown[r] \subseteq {snapshot[r].refs}
  <1> SUFFICES ASSUME NEW r \in Runs PROVE Part(r)'
    BY DEF RunsAreFrozen
  <1>0. /\ Part(r) /\ snapshot \in [Runs -> SnapshotType] /\ phase \in [Runs -> Phases]
        /\ shown \in [Runs -> SUBSET SUBSET Refs] /\ NoScope \notin Scopes
    BY RepositoryAssumption DEF MemoryInvariant, RunsAreFrozen, TypeOK, TablesTyped
  <1>1. ASSUME NEW q \in Runs, NEW s \in Scopes, Load(q, s) PROVE Part(r)'
    <2>1. CASE q = r
      <3>1. Frozen(r, s).scope = s /\ (snapshot[r].scope = s => Frozen(r, s) = snapshot[r])
            /\ snapshot[r].scope \in {NoScope, s}
        BY <1>1, <2>1, FrozenType DEF Load
      <3>2. snapshot'[r] = Frozen(r, s) /\ shown' = shown
        BY <1>0, <1>1, <2>1 DEF Load
      <3> QED
        BY <1>0, <3>1, <3>2
    <2>2. CASE q # r
      <3>1. snapshot'[r] = snapshot[r] /\ shown' = shown /\ phase'[r] = phase[r]
        BY <1>0, <1>1, <2>2 DEF Load, Goto
      <3> QED
        BY <1>0, <3>1
    <2> QED
      BY <2>1, <2>2
  <1>2. ASSUME NEW q \in Runs, FinishLoad(q) PROVE Part(r)'
    <2>1. CASE q = r
      <3>1. phase[r] = "checking" /\ snapshot' = snapshot
            /\ shown'[r] \in {shown[r], shown[r] \cup {snapshot[r].refs}}
        BY <1>0, <1>2, <2>1 DEF FinishLoad, repositoryVars
      <3> QED
        BY <1>0, <3>1
    <2>2. CASE q # r
      <3>1. snapshot' = snapshot /\ shown'[r] = shown[r] /\ phase'[r] = phase[r]
        BY <1>0, <1>2, <2>2 DEF FinishLoad, Goto, repositoryVars
      <3> QED
        BY <1>0, <3>1
    <2> QED
      BY <2>1, <2>2
  <1>3. ASSUME UNCHANGED <<snapshot, shown>>, phase[r] # "idle" \/ phase'[r] \in {phase[r], "idle"}
        PROVE  Part(r)'
    BY <1>0, <1>3
  <1>4. ASSUME Crash PROVE UNCHANGED <<snapshot, shown>> /\ phase'[r] = "idle"
    BY <1>4 DEF Crash, repositoryVars
  <1> HIDE DEF Part
  <1>5. ASSUME UNCHANGED <<snapshot, shown, phase>> PROVE Part(r)'
    BY <1>3, <1>5
  <1> QED
    <2>1. ASSUME NEW q \in Runs, RunStep(q) PROVE Part(r)'
      <3>1. CASE \/ \E own \in SUBSET Artifacts : SubmitStart(q, own)
                 \/ \E a \in Artifacts : Get(q, a)
                 \/ \E a \in Artifacts : \E k \in ClaimsOf[a] : SaveClaim(q, k)
                 \/ Mark(q) \/ SubmitEnd(q) \/ Abandon(q)
        <4>1. UNCHANGED <<snapshot, shown>> /\ (phase[r] # "idle" \/ phase'[r] \in {phase[r], "idle"})
          BY <3>1, <1>0 DEF SubmitStart, Get, SaveClaim, Mark, SubmitEnd, Abandon, Goto,
                      repositoryVars, loadVars
        <4> QED
          BY <4>1, <1>3
      <3> QED
        BY <2>1, <3>1, <1>1, <1>2, <1>5
        DEF RunStep, CheckItem, Skip, repositoryVars, loadVars
    <2> QED
      BY <2>1, <1>3, <1>4, <1>5
      DEF Next, UserStep, Put, Revoke, Remember, UpdateRead, UpdateSave, Forget,
          repositoryVars, loadVars, vars

LEMMA LoadStep ==
  ASSUME MemoryInvariant, [Next]_vars
  PROVE  LoadsFindOut'
  <1> DEFINE Part(r) == phase[r] = "checking" =>
        /\ \A i \in forgotten[r] : item[i].status = "revoked"
        /\ \A ref \in snapshot[r].refs :
             ref.id \in forgotten[r] => ref.id \in unchecked[r] \/ ~valid[r]
  <1> SUFFICES ASSUME NEW r \in Runs, phase'[r] = "checking" PROVE Part(r)'
    BY DEF LoadsFindOut
  <1>0. /\ Part(r) /\ snapshot \in [Runs -> SnapshotType] /\ phase \in [Runs -> Phases]
        /\ unchecked \in [Runs -> SUBSET Ids] /\ valid \in [Runs -> BOOLEAN]
        /\ forgotten \in [Runs -> SUBSET Ids]
    BY DEF MemoryInvariant, LoadsFindOut, TypeOK, TablesTyped
  <1>1. \A i \in Ids : item[i].status = "revoked" => item'[i].status = "revoked"
    BY RepositoryStep DEF RepositoryGrows, ItemsAdvance, Advances
  <1>2. ASSUME phase[r] = "checking", snapshot'[r] = snapshot[r], unchecked'[r] = unchecked[r],
               valid'[r] = valid[r], forgotten'[r] = forgotten[r]
        PROVE  Part(r)'
    BY <1>0, <1>1, <1>2
  <1>3. ASSUME NEW q \in Runs, NEW s \in Scopes, Load(q, s) PROVE Part(r)'
    <2>1. CASE q = r
      <3> DEFINE f == Frozen(r, s)
      <3>1. /\ item' = item /\ snapshot'[r] = f
            /\ unchecked'[r] = {ref.id : ref \in f.refs}
            /\ forgotten'[r] = {ref.id : ref \in {x \in f.refs : item[x.id].status = "revoked"}}
        BY <1>0, <1>3, <2>1 DEF Load
      <3> HIDE DEF f
      <3> QED
        BY <3>1
    <2>2. CASE q # r
      BY <1>0, <1>2, <1>3, <2>2 DEF Load, Goto
    <2> QED
      BY <2>1, <2>2
  <1>4. ASSUME NEW q \in Runs, NEW i \in Ids, CheckItem(q, i) PROVE Part(r)'
    <2>1. CASE q = r
      <3>1. /\ item' = item /\ snapshot' = snapshot /\ forgotten' = forgotten
            /\ phase[r] = "checking" /\ unchecked'[r] = unchecked[r] \ {i}
            /\ valid'[r] = (valid[r] /\ StillActive(i))
        BY <1>0, <1>4, <2>1 DEF CheckItem, repositoryVars
      <3>2. item[i].status = "revoked" => ~valid'[r]
        BY <3>1 DEF StillActive
      <3>3. ~valid[r] => ~valid'[r]
        BY <3>1
      <3>4. ASSUME NEW ref \in snapshot[r].refs, ref.id \in forgotten[r]
            PROVE  ref.id \in unchecked'[r] \/ ~valid'[r]
        BY <1>0, <3>1, <3>2, <3>3, <3>4
      <3> QED
        BY <1>0, <3>1, <3>4
    <2>2. CASE q # r
      BY <1>0, <1>2, <1>4, <2>2 DEF CheckItem, repositoryVars
    <2> QED
      BY <2>1, <2>2
  <1>5. ASSUME NEW q \in Runs, FinishLoad(q) PROVE Part(r)'
    <2>1. q # r
      BY <1>0, <1>5 DEF FinishLoad, Goto
    <2> QED
      BY <1>0, <1>2, <1>5, <2>1 DEF FinishLoad, Goto, repositoryVars
  <1>6. ASSUME UNCHANGED <<snapshot, unchecked, valid, forgotten>>, phase'[r] = phase[r]
        PROVE  Part(r)'
    BY <1>2, <1>6
  <1>7. ~Crash
    BY DEF Crash
  <1>8. ASSUME NEW q \in Runs, NEW p \in Phases \ {"checking"}, Goto(q, p)
        PROVE  phase'[r] = phase[r]
    BY <1>0, <1>8 DEF Goto
  <1> HIDE DEF Part
  <1>9. ASSUME NEW q \in Runs, RunStep(q) PROVE Part(r)'
    <2>1. {"idle", "submitting", "saving"} \subseteq Phases \ {"checking"}
      BY DEF Phases
    <2> QED
      BY <1>3, <1>4, <1>5, <1>6, <1>8, <1>9, <2>1
      DEF RunStep, SubmitStart, Skip, Get, SaveClaim, Mark, SubmitEnd, Abandon,
          repositoryVars, loadVars
  <1> QED
    BY <1>6, <1>7, <1>9
    DEF Next, UserStep, Put, Revoke, Remember, UpdateRead, UpdateSave, Forget,
        repositoryVars, loadVars, vars

LEMMA OutboxStep ==
  ASSUME MemoryInvariant, [Next]_vars
  PROVE  OutboxIsStored'
  <1> SUFFICES ASSUME NEW a \in Artifacts
               PROVE  /\ stored'[a] # NoContent => snapshot'[RunOf[a]].scope # NoScope
                      /\ outbox'[a] # "none" => stored'[a] \in Verified
    BY DEF OutboxIsStored
  <1>0. RunOf[a] \in Runs
    BY ArtifactAssumption
  <1>1. /\ stored[a] # NoContent => snapshot[RunOf[a]].scope # NoScope
        /\ outbox[a] # "none" => stored[a] \in Verified /\ stored[a] # NoContent
        /\ phase[RunOf[a]] # "idle" => snapshot[RunOf[a]].scope # NoScope
    BY <1>0, ArtifactAssumption DEF MemoryInvariant, OutboxIsStored, RunsAreFrozen
  <1>2. snapshot[RunOf[a]].scope # NoScope => snapshot'[RunOf[a]].scope # NoScope
    BY <1>0, SnapshotStep
  <1>3. ASSUME NEW b \in Artifacts, NEW c \in Contents, Put(b, c)
        PROVE  /\ stored'[a] # NoContent => snapshot[RunOf[a]].scope # NoScope
               /\ outbox'[a] # "none" => stored'[a] \in Verified
    <2>1. CASE a = b
      <3>1. /\ stored'[a] = c /\ stored[a] \in {NoContent, c}
            /\ outbox'[a] = IF outbox[a] = "none" /\ c \in Verified THEN "pending" ELSE outbox[a]
            /\ phase[RunOf[a]] = "working"
        BY <1>3, <2>1 DEF Put, PutAccepts, MemoryInvariant, TypeOK
      <3> QED
        BY <1>1, <3>1
    <2>2. CASE a # b
      <3>1. stored'[a] = stored[a] /\ outbox'[a] = outbox[a]
        BY <1>3, <2>2 DEF Put, MemoryInvariant, TypeOK
      <3> QED
        BY <1>1, <3>1
    <2> QED
      BY <2>1, <2>2
  <1>4. ASSUME NEW r \in Runs, Mark(r)
        PROVE  stored'[a] = stored[a] /\ (outbox[a] = "none" => outbox'[a] = "none")
    BY <1>4 DEF Mark, MemoryInvariant, TypeOK
  <1>5. ASSUME UNCHANGED <<stored, outbox>>
        PROVE  stored'[a] = stored[a] /\ outbox'[a] = outbox[a]
    BY <1>5
  <1> QED
    BY <1>1, <1>2, <1>3, <1>4, <1>5
    DEF Next, UserStep, RunStep, Load, CheckItem, FinishLoad, Revoke, SubmitStart, Skip, Get,
        SaveClaim, SubmitEnd, Abandon, Remember, UpdateRead, UpdateSave, Forget, Crash,
        artifactVars, vars

\* What a receipt says of its artifact stays true.
LEMMA FitsStep ==
  ASSUME MemoryInvariant, [Next]_vars
  PROVE  \A c \in receipt' : Fits(c)'
  <1> SUFFICES ASSUME NEW c \in receipt', NEW a \in Artifacts, NEW k \in Claims,
                      c.op = ClaimOp(a, k)
               PROVE  /\ stored'[a] # NoContent /\ c.payload.body = stored'[a]
                      /\ c.payload.scope = ScopeOf(a)'
    BY DEF Fits, ClaimOp
  <1>1. Fits(c)
    BY RepositoryStep DEF RepositoryGrows, MemoryInvariant
  <1>2. /\ stored[a] # NoContent /\ c.payload.body = stored[a]
        /\ c.payload.scope = ScopeOf(a)
    BY <1>1 DEF Fits
  <1> QED
    BY <1>2, ArtifactStep

LEMMA DeliveredStep ==
  ASSUME MemoryInvariant, [Next]_vars
  PROVE  DeliveredOnce'
  <1>1. \A c, d \in receipt' : c.op = d.op => c = d
    BY RepositoryStep DEF RepositoryGrows, ItemTables
  <1>2. ASSUME NEW a \in Artifacts, outbox'[a] = "delivered", a \notin revoked',
               NEW k \in ClaimsOf[a]
        PROVE  \E c \in receipt' : c.op = ClaimOp(a, k)
    <2>1. receipt \subseteq receipt' /\ a \notin revoked
      BY <1>2, RepositoryStep, ArtifactStep DEF RepositoryGrows
    <2>2. CASE outbox[a] = "delivered"
      BY <2>1, <2>2 DEF MemoryInvariant, DeliveredOnce
    <2>3. ASSUME NEW r \in Runs, Mark(r), outbox[a] # "delivered"
          PROVE  ClaimSaved(a, k)
      <3>1. /\ phase[r] = "saving" /\ current[r][2] = {} /\ a = current[r][1]
            /\ outbox[a] = "pending"
        BY <1>2, <2>3 DEF Mark, MemoryInvariant, TypeOK
      <3>2. stored[a] \in Verified
        BY <3>1 DEF MemoryInvariant, OutboxIsStored
      <3> QED
        BY <2>1, <3>1, <3>2 DEF MemoryInvariant, DeliveryInOrder
    <2>4. ASSUME NEW b \in Artifacts, NEW c \in Contents, Put(b, c)
          PROVE  outbox[a] = "delivered"
      BY <1>2, <2>4 DEF Put, MemoryInvariant, TypeOK
    <2>5. ASSUME UNCHANGED outbox PROVE outbox[a] = "delivered"
      BY <1>2, <2>5
    <2>6. outbox[a] = "delivered" \/ \E r \in Runs : Mark(r)
      BY <2>4, <2>5
      DEF Next, UserStep, RunStep, Load, CheckItem, FinishLoad, Revoke, SubmitStart, Skip, Get,
          SaveClaim, SubmitEnd, Abandon, Remember, UpdateRead, UpdateSave, Forget, Crash,
          artifactVars, vars
    <2> QED
      BY <2>1, <2>2, <2>3, <2>6 DEF ClaimSaved
  <1>3. \A c \in receipt' : \A a \in Artifacts, k \in Claims :
          c.op = ClaimOp(a, k) => c.payload.body = stored'[a] /\ c.payload.scope = ScopeOf(a)'
    BY FitsStep DEF Fits, ClaimOp
  <1> QED
    BY <1>1, <1>2, <1>3 DEF DeliveredOnce, Claims, ClaimOp

DeliveryOf(r) ==
  /\ phase[r] \in {"submitting", "saving"} =>
       /\ \A a \in refs[r] : stored[a] # NoContent
       /\ \A a \in owed[r] :
            /\ ScopeOf(a) = snapshot[r].scope /\ outbox[a] # "none"
            /\ a \in refs[r] \/ outbox[a] = "delivered" \/ a \in revoked
  /\ phase[r] = "saving" =>
       /\ current[r] # <<>> /\ current[r][1] \in refs[r]
       /\ current[r][2] # {} => /\ ScopeOf(current[r][1]) = snapshot[r].scope
                                /\ stored[current[r][1]] \in Verified
       /\ stored[current[r][1]] \in Verified /\ current[r][1] \notin revoked =>
            \A k \in ClaimsOf[current[r][1]] \ current[r][2] : ClaimSaved(current[r][1], k)

\* What other actors do takes nothing from a run that delivers.
LEMMA DeliveryStays ==
  ASSUME MemoryInvariant, [Next]_vars, NEW r \in Runs,
         phase'[r] = phase[r], refs'[r] = refs[r], owed'[r] = owed[r], current'[r] = current[r]
  PROVE  DeliveryOf(r)'
  <1>0. DeliveryOf(r) /\ refs[r] \subseteq Artifacts /\ owed[r] \subseteq Artifacts
    BY DEF MemoryInvariant, DeliveryInOrder, DeliveryOf, TypeOK
  <1>1. ASSUME phase[r] \in {"submitting", "saving"}
        PROVE  /\ \A a \in refs[r] : stored'[a] # NoContent
               /\ snapshot'[r] = snapshot[r]
               /\ \A a \in owed[r] :
                    /\ ScopeOf(a)' = snapshot'[r].scope /\ outbox'[a] # "none"
                    /\ a \in refs[r] \/ outbox'[a] = "delivered" \/ a \in revoked'
    <2>1. snapshot'[r] = snapshot[r]
      BY <1>1, SnapshotStep DEF MemoryInvariant, RunsAreFrozen
    <2>2. \A a \in refs[r] : stored'[a] # NoContent
      BY <1>0, <1>1, ArtifactStep DEF DeliveryOf
    <2>3. ASSUME NEW a \in owed[r]
          PROVE  /\ ScopeOf(a)' = snapshot'[r].scope /\ outbox'[a] # "none"
                 /\ a \in refs[r] \/ outbox'[a] = "delivered" \/ a \in revoked'
      <3>1. /\ a \in Artifacts /\ ScopeOf(a) = snapshot[r].scope /\ outbox[a] # "none"
            /\ a \in refs[r] \/ outbox[a] = "delivered" \/ a \in revoked
        BY <1>0, <1>1 DEF DeliveryOf
      <3>2. stored[a] # NoContent
        BY <3>1, ArtifactAssumption DEF MemoryInvariant, OutboxIsStored
      <3> QED
        BY <2>1, <3>1, <3>2, ArtifactStep
    <2> QED
      BY <2>1, <2>2, <2>3
  <1>2. ASSUME phase[r] = "saving"
        PROVE  LET a == current[r][1] IN
               /\ current[r] # <<>> /\ a \in refs[r]
               /\ current[r][2] # {} => ScopeOf(a)' = snapshot'[r].scope /\ stored'[a] \in Verified
               /\ stored'[a] \in Verified /\ a \notin revoked' =>
                    \A k \in ClaimsOf[a] \ current[r][2] :
                      \E c \in receipt' : c.op = ClaimOp(a, k)
    <2> DEFINE a == current[r][1]
    <2>1. /\ current[r] # <<>> /\ a \in refs[r] /\ a \in Artifacts /\ stored[a] # NoContent
          /\ current[r][2] # {} => ScopeOf(a) = snapshot[r].scope /\ stored[a] \in Verified
          /\ stored[a] \in Verified /\ a \notin revoked =>
               \A k \in ClaimsOf[a] \ current[r][2] : ClaimSaved(a, k)
      BY <1>0, <1>2 DEF DeliveryOf
    <2>2. stored'[a] = stored[a] /\ ScopeOf(a)' = ScopeOf(a) /\ (a \in revoked => a \in revoked')
      BY <2>1, ArtifactStep
    <2>3. receipt \subseteq receipt'
      BY RepositoryStep DEF RepositoryGrows
    <2>4. stored[a] \in Verified /\ a \notin revoked =>
            \A k \in ClaimsOf[a] \ current[r][2] : \E c \in receipt' : c.op = ClaimOp(a, k)
      BY <2>1, <2>3 DEF ClaimSaved
    <2> QED
      BY <1>1, <1>2, <2>1, <2>2, <2>4
  <1> QED
    BY <1>1, <1>2 DEF DeliveryOf, ClaimSaved, ClaimOp, ScopeOf

LEMMA SubmitStartDelivers ==
  ASSUME MemoryInvariant, NEW r \in Runs, NEW own \in SUBSET Artifacts, SubmitStart(r, own)
  PROVE  DeliveryOf(r)'
  <1>1. /\ phase'[r] = "submitting" /\ refs'[r] = PendingRefs \cup own
        /\ owed'[r] = {a \in PendingRefs : ScopeOf(a) = snapshot[r].scope}
        /\ UNCHANGED <<snapshot, stored, revoked, outbox>>
        /\ own \subseteq {a \in Artifacts : RunOf[a] = r /\ stored[a] # NoContent}
    BY DEF SubmitStart, ToDeliver, Goto, MemoryInvariant, TypeOK, repositoryVars, artifactVars
  <1>2. \A a \in PendingRefs : stored[a] # NoContent /\ outbox[a] # "none"
    BY ArtifactAssumption DEF PendingRefs, MemoryInvariant, OutboxIsStored
  <1>3. \A a \in refs'[r] : stored'[a] # NoContent
    BY <1>1, <1>2
  <1>4. \A a \in owed'[r] : ScopeOf(a)' = snapshot'[r].scope /\ outbox'[a] # "none" /\ a \in refs'[r]
    BY <1>1, <1>2 DEF ScopeOf
  <1> QED
    BY <1>1, <1>3, <1>4 DEF DeliveryOf

\* An artifact of another scope is not owed.
LEMMA SkipDelivers ==
  ASSUME MemoryInvariant, NEW r \in Runs, NEW a \in Artifacts, Skip(r, a)
  PROVE  DeliveryOf(r)'
  <1>0. DeliveryOf(r)
    BY DEF MemoryInvariant, DeliveryInOrder, DeliveryOf
  <1>1. /\ phase[r] = "submitting" /\ refs'[r] = refs[r] \ {a} /\ phase' = phase
        /\ ScopeOf(a) # snapshot[r].scope
        /\ UNCHANGED <<owed, snapshot, stored, revoked, outbox>>
    BY DEF Skip, MemoryInvariant, TypeOK, repositoryVars, artifactVars
  <1>2. \A b : ScopeOf(b)' = ScopeOf(b)
    BY <1>1 DEF ScopeOf
  <1> QED
    BY <1>0, <1>1, <1>2 DEF DeliveryOf

LEMMA GetDelivers ==
  ASSUME MemoryInvariant, NEW r \in Runs, NEW a \in Artifacts, Get(r, a)
  PROVE  DeliveryOf(r)'
  <1> DEFINE K == IF a \notin revoked /\ stored[a] \in Verified THEN ClaimsOf[a] ELSE {}
  <1>0. DeliveryOf(r)
    BY DEF MemoryInvariant, DeliveryInOrder, DeliveryOf
  <1>1. /\ phase[r] = "submitting" /\ a \in refs[r] /\ phase'[r] = "saving"
        /\ a \in revoked \/ ScopeOf(a) = snapshot[r].scope
        /\ current'[r] = <<a, K>>
        /\ UNCHANGED <<refs, owed, receipt, snapshot, stored, revoked, outbox>>
    BY DEF Get, Goto, MemoryInvariant, TypeOK, TablesTyped, repositoryVars, artifactVars
  <1>2. \A b : ScopeOf(b)' = ScopeOf(b)
    BY <1>1 DEF ScopeOf
  <1>3. current'[r] # <<>> /\ current'[r][1] = a /\ current'[r][2] = K
    <2> HIDE DEF K
    <2> QED
      BY <1>1
  <1>4. \A b \in refs'[r] : stored'[b] # NoContent
    BY <1>0, <1>1 DEF DeliveryOf
  <1>5. \A b \in owed'[r] : /\ ScopeOf(b)' = snapshot'[r].scope /\ outbox'[b] # "none"
                            /\ b \in refs'[r] \/ outbox'[b] = "delivered" \/ b \in revoked'
    BY <1>0, <1>1, <1>2 DEF DeliveryOf
  <1>6. K # {} => ScopeOf(a)' = snapshot'[r].scope /\ stored'[a] \in Verified
    BY <1>1, <1>2
  <1>7. stored'[a] \in Verified /\ a \notin revoked' => ClaimsOf[a] \ K = {}
    BY <1>1
  <1> HIDE DEF K
  <1> QED
    BY <1>1, <1>3, <1>4, <1>5, <1>6, <1>7 DEF DeliveryOf

LEMMA SaveClaimDelivers ==
  ASSUME MemoryInvariant, [Next]_vars, NEW r \in Runs, NEW k, SaveClaim(r, k)
  PROVE  DeliveryOf(r)'
  <1> DEFINE a == current[r][1]
  <1>0. DeliveryOf(r)
    BY DEF MemoryInvariant, DeliveryInOrder, DeliveryOf
  <1>1. phase[r] = "saving" /\ UNCHANGED <<snapshot, stored, revoked, outbox>>
    BY DEF SaveClaim, artifactVars
  <1>2. CASE phase'[r] = "idle"
    BY <1>2 DEF DeliveryOf
  <1>3. CASE phase'[r] # "idle"
    <2>1. /\ UNCHANGED <<phase, refs, owed>>
          /\ current' = [current EXCEPT ![r] = <<a, current[r][2] \ {k}>>]
      BY <1>3 DEF SaveClaim, Goto, MemoryInvariant, TypeOK
    <2>2. current'[r] = <<a, current[r][2] \ {k}>>
      BY <2>1 DEF MemoryInvariant, TablesTyped
    <2>3. current'[r] # <<>> /\ current'[r][1] = a /\ current'[r][2] = current[r][2] \ {k}
      BY <2>2
    <2>4. \A b : ScopeOf(b)' = ScopeOf(b)
      BY <1>1 DEF ScopeOf
    <2>5. (\E c \in receipt' : c.op = ClaimOp(a, k)) /\ receipt \subseteq receipt'
      BY <1>3, DeliveryGrows DEF RepositoryGrows
    <2>6. stored[a] \in Verified /\ a \notin revoked =>
            \A l \in ClaimsOf[a] \ current'[r][2] : \E c \in receipt' : c.op = ClaimOp(a, l)
      BY <1>0, <1>1, <2>3, <2>5 DEF DeliveryOf, ClaimSaved
    <2> HIDE DEF a
    <2>7. a \in refs[r] /\ (current[r][2] # {} => ScopeOf(a) = snapshot[r].scope
                                                  /\ stored[a] \in Verified)
      BY <1>0, <1>1 DEF DeliveryOf, a
    <2> QED
      BY <1>0, <1>1, <2>1, <2>3, <2>4, <2>6, <2>7 DEF DeliveryOf, ClaimSaved, ClaimOp
  <1> QED
    BY <1>2, <1>3

LEMMA MarkDelivers ==
  ASSUME MemoryInvariant, NEW r \in Runs, Mark(r)
  PROVE  DeliveryOf(r)'
  <1> DEFINE a == current[r][1]
  <1>0. DeliveryOf(r) /\ a \in Artifacts
    BY Saving DEF MemoryInvariant, DeliveryInOrder, DeliveryOf, Mark
  <1>1. /\ phase[r] = "saving" /\ phase'[r] = "submitting"
        /\ refs'[r] = refs[r] \ {a}
        /\ outbox' = [outbox EXCEPT ![a] = IF @ = "pending" THEN "delivered" ELSE @]
        /\ UNCHANGED <<owed, snapshot, stored, revoked>>
    BY DEF Mark, Goto, MemoryInvariant, TypeOK, repositoryVars
  <1>2. \A b : ScopeOf(b)' = ScopeOf(b)
    BY <1>1 DEF ScopeOf
  <1>3. \A b \in owed[r] : /\ outbox'[b] # "none"
                           /\ b \in refs'[r] \/ outbox'[b] = "delivered" \/ b \in revoked'
    <2> SUFFICES ASSUME NEW b \in owed[r]
                 PROVE  /\ outbox'[b] # "none"
                        /\ b \in refs'[r] \/ outbox'[b] = "delivered" \/ b \in revoked'
      OBVIOUS
    <2>1. /\ b \in Artifacts /\ outbox[b] \in {"pending", "delivered"}
          /\ b \in refs[r] \/ outbox[b] = "delivered" \/ b \in revoked
      BY <1>0, <1>1 DEF DeliveryOf, MemoryInvariant, TypeOK
    <2>2. outbox'[b] = IF b = a /\ outbox[b] = "pending" THEN "delivered" ELSE outbox[b]
      BY <1>0, <1>1, <2>1 DEF MemoryInvariant, TypeOK
    <2> QED
      BY <1>1, <2>1, <2>2
  <1> QED
    BY <1>0, <1>1, <1>2, <1>3 DEF DeliveryOf

LEMMA DeliveryStep ==
  ASSUME MemoryInvariant, [Next]_vars
  PROVE  DeliveryInOrder'
  <1> SUFFICES ASSUME NEW r \in Runs PROVE DeliveryOf(r)'
    BY DEF DeliveryInOrder, DeliveryOf
  <1>0. /\ phase \in [Runs -> Phases] /\ refs \in [Runs -> SUBSET Artifacts]
        /\ owed \in [Runs -> SUBSET Artifacts] /\ current \in [Runs -> CurrentType]
    BY DEF MemoryInvariant, TypeOK, TablesTyped, CurrentType
  <1>1. CASE phase'[r] \notin {"submitting", "saving"}
    BY <1>1 DEF DeliveryOf
  <1>2. ASSUME RunStep(r), phase'[r] \in {"submitting", "saving"} PROVE DeliveryOf(r)'
    <2>1. ~(\E s \in Scopes : Load(r, s)) /\ ~FinishLoad(r) /\ ~SubmitEnd(r) /\ ~Abandon(r)
      BY <1>0, <1>2 DEF Load, FinishLoad, SubmitEnd, Abandon, Goto
    <2>2. ~\E i \in Ids : CheckItem(r, i)
      BY <1>2 DEF CheckItem
    <2>3. \A own \in SUBSET Artifacts : SubmitStart(r, own) => DeliveryOf(r)'
      BY SubmitStartDelivers
    <2>4. \A a \in Artifacts : Skip(r, a) \/ Get(r, a) => DeliveryOf(r)'
      BY SkipDelivers, GetDelivers
    <2>5. \A k : SaveClaim(r, k) => DeliveryOf(r)'
      BY SaveClaimDelivers
    <2> QED
      BY <1>2, <2>1, <2>2, <2>3, <2>4, <2>5, MarkDelivers DEF RunStep
  <1>3. ASSUME NEW q \in Runs, RunStep(q), q # r
        PROVE  /\ phase'[r] = phase[r] /\ refs'[r] = refs[r] /\ owed'[r] = owed[r]
               /\ current'[r] = current[r]
    <2>1. phase'[r] = phase[r]
      BY <1>0, <1>3 DEF RunStep, Load, CheckItem, FinishLoad, SubmitStart, Skip, Get, SaveClaim,
                        Mark, SubmitEnd, Abandon, Goto
    <2>2. refs'[r] = refs[r] /\ owed'[r] = owed[r]
      BY <1>0, <1>3 DEF RunStep, Load, CheckItem, FinishLoad, SubmitStart, Skip, Get, SaveClaim,
                        Mark, SubmitEnd, Abandon, submitVars
    <2>3. current'[r] = current[r]
      BY <1>0, <1>3 DEF RunStep, Load, CheckItem, FinishLoad, SubmitStart, Skip, Get, SaveClaim,
                        Mark, SubmitEnd, Abandon, submitVars
    <2> QED
      BY <2>1, <2>2, <2>3
  <1>4. ASSUME Crash PROVE phase'[r] = "idle"
    BY <1>4 DEF Crash
  <1>5. ASSUME UNCHANGED <<phase, submitVars>> PROVE DeliveryOf(r)'
    BY <1>5, DeliveryStays DEF submitVars
  <1> QED
    BY <1>1, <1>2, <1>3, <1>4, <1>5, DeliveryStays
    DEF Next, UserStep, Put, Revoke, Remember, UpdateRead, UpdateSave, Forget, vars
-----------------------------------------------------------------------------
(* The theorems. *)

LEMMA InvariantInit ==
  ASSUME Init
  PROVE  MemoryInvariant
  <1> USE DEF Init, RepositoryInit
  <1>1. item \in [Ids -> ItemType] /\ IsFiniteSet(receipt) /\ Cardinality(receipt) = 0
    BY RepositoryAssumption, FS_EmptySet DEF NoItem, ItemType, Status, Places
  <1>2. \A r \in Runs : snapshot[r] = NoSnapshot /\ phase[r] = "idle" /\ shown[r] = {}
    OBVIOUS
  <1>3. NoSnapshot \in SnapshotType
    BY DEF NoSnapshot, SnapshotType
  <1>4. TypeOK
    BY <1>1, ArtifactAssumption DEF TypeOK, Phases, NoSnapshot, NoUpdate
  <1>5. NoUpdate \in UpdateType
    BY RepositoryAssumption DEF NoUpdate, UpdateType
  <1>6. TablesTyped
    BY <1>1, <1>3, <1>5 DEF TablesTyped
  <1>7. \A i \in Ids : item[i] = NoItem /\ i \notin Known
    BY DEF Known, NoItem
  <1>8. ItemsHaveReceipts
    BY <1>1, <1>7 DEF ItemsHaveReceipts, NoItem
  <1>9. UpdatesAreRead
    BY DEF UpdatesAreRead
  <1>10. RunsAreFrozen /\ LoadsFindOut /\ DeliveryInOrder
    BY <1>2 DEF RunsAreFrozen, LoadsFindOut, DeliveryInOrder, NoSnapshot
  <1>11. OutboxIsStored /\ DeliveredOnce /\ (\A c \in receipt : Fits(c))
    BY DEF OutboxIsStored, DeliveredOnce
  <1>12. OnlyApprovedInScope
    BY <1>2 DEF OnlyApprovedInScope, NoSnapshot
  <1> QED
    BY <1>4, <1>6, <1>8, <1>9, <1>10, <1>11, <1>12 DEF MemoryInvariant

\* Items, receipts, snapshots, artifacts and what each run has done and has to do agree
\* at every step of any number of runs and requests.
THEOREM InvariantHolds == Spec => []MemoryInvariant
  <1>1. ASSUME MemoryInvariant, [Next]_vars PROVE MemoryInvariant'
    <2>1. ItemsHaveReceipts'
      BY <1>1, RepositoryStep DEF RepositoryGrows, ItemTables
    <2> QED
      BY <1>1, <2>1, TypeStep, UpdatesStep, FrozenStep, LoadStep, OutboxStep, FitsStep,
         DeliveryStep, DeliveredStep, ApprovedStep DEF MemoryInvariant
  <1>2. MemoryInvariant /\ [Next]_vars => MemoryInvariant'
    BY <1>1
  <1> QED
    BY InvariantInit, <1>2, PTL DEF Spec

\* Tables, runs and requests keep their types, and no item has more versions than the
\* bound on writes.
THEOREM TypeCorrect == Spec => []TypeOK
  <1>1. MemoryInvariant => TypeOK
    BY DEF MemoryInvariant
  <1> QED
    BY InvariantHolds, <1>1, PTL

\* submit_candidates and mark_memory_delivered: one memory per claim, however often and
\* by whichever runs it is delivered, and none marked that is not saved.
THEOREM DeliveriesAreOnce == Spec => []DeliveredOnce
  <1>1. MemoryInvariant => DeliveredOnce
    BY DEF MemoryInvariant
  <1> QED
    BY InvariantHolds, <1>1, PTL

\* snapshot_for_run: nobody is shown what the user has neither written nor activated.
THEOREM SnapshotsAreApproved == Spec => []OnlyApprovedInScope
  <1>1. MemoryInvariant => OnlyApprovedInScope
    BY DEF MemoryInvariant
  <1> QED
    BY InvariantHolds, <1>1, PTL

\* load_snapshot: a run that is resumed is shown what it was shown before.
THEOREM ViewsAreFrozen == Spec => []ViewIsFrozen
  <1>1. ASSUME MemoryInvariant PROVE ViewIsFrozen
    <2> SUFFICES ASSUME NEW r \in Runs PROVE Cardinality(shown[r]) <= 1
      BY DEF ViewIsFrozen
    <2>1. shown[r] \in SUBSET {snapshot[r].refs}
      BY <1>1 DEF MemoryInvariant, RunsAreFrozen
    <2>2. /\ IsFiniteSet({snapshot[r].refs}) /\ Cardinality({snapshot[r].refs}) = 1
      BY FS_Singleton
    <2>3. IsFiniteSet(shown[r]) /\ Cardinality(shown[r]) <= Cardinality({snapshot[r].refs})
      BY <2>1, <2>2, FS_Subset
    <2> QED
      BY <2>2, <2>3
  <1> QED
    BY InvariantHolds, <1>1, PTL

\* submit_candidates: a run that ends its delivery leaves nothing of its scope behind.
THEOREM DeliveriesDrain == Spec => SubmitDrains
  <1> DEFINE A == \A r \in Runs :
               phase[r] = "submitting" /\ phase'[r] = "idle" /\ crashes' = crashes =>
                 \A a \in owed[r] : outbox[a] = "delivered" \/ a \in revoked
  <1>1. ASSUME MemoryInvariant, [Next]_vars PROVE [A]_vars
    <2> SUFFICES ASSUME NEW r \in Runs, phase[r] = "submitting", phase'[r] = "idle",
                        crashes' = crashes
                 PROVE  \A a \in owed[r] : outbox[a] = "delivered" \/ a \in revoked
      BY Zenon
    <2>0. phase \in [Runs -> Phases] /\ crashes \in Nat
      BY <1>1 DEF MemoryInvariant, TypeOK
    <2>1. ASSUME NEW q \in Runs, RunStep(q) PROVE refs[r] = {}
      BY <2>0, <2>1 DEF RunStep, Load, CheckItem, FinishLoad, SubmitStart, Skip, Get, SaveClaim,
                        Mark, SubmitEnd, Abandon, Goto
    <2>2. phase' # phase
      OBVIOUS
    <2>3. ~Crash
      BY <2>0 DEF Crash
    <2>4. refs[r] = {}
      BY <1>1, <2>1, <2>2, <2>3
      DEF Next, UserStep, Put, Revoke, Remember, UpdateRead, UpdateSave, Forget, vars
    <2> QED
      BY <1>1, <2>4 DEF MemoryInvariant, DeliveryInOrder
  <1>2. MemoryInvariant /\ [Next]_vars => [A]_vars
    BY <1>1
  <1> QED
    BY InvariantHolds, <1>2, PTL DEF Spec, SubmitDrains

\* load_snapshot: what was forgotten before the load ends the run, whatever else the
\* load races with.
THEOREM ForgottenIsFound == Spec => ForgottenEndsRun
  <1> DEFINE A == \A r \in Runs : phase[r] = "checking" /\ phase'[r] = "working" =>
               \A ref \in snapshot[r].refs : ref.id \notin forgotten[r]
  <1>1. ASSUME MemoryInvariant, [Next]_vars PROVE [A]_vars
    <2> SUFFICES ASSUME NEW r \in Runs, phase[r] = "checking", phase'[r] = "working"
                 PROVE  \A ref \in snapshot[r].refs : ref.id \notin forgotten[r]
      BY Zenon
    <2>0. phase \in [Runs -> Phases]
      BY <1>1 DEF MemoryInvariant, TypeOK
    <2>1. ASSUME NEW q \in Runs, RunStep(q) PROVE unchecked[r] = {} /\ valid[r]
      BY <2>0, <2>1 DEF RunStep, Load, CheckItem, FinishLoad, SubmitStart, Skip, Get, SaveClaim,
                        Mark, SubmitEnd, Abandon, Goto
    <2>2. phase' # phase /\ ~Crash
      BY DEF Crash
    <2>3. unchecked[r] = {} /\ valid[r]
      BY <1>1, <2>1, <2>2
      DEF Next, UserStep, Put, Revoke, Remember, UpdateRead, UpdateSave, Forget, vars
    <2> QED
      BY <1>1, <2>3 DEF MemoryInvariant, LoadsFindOut
  <1>2. MemoryInvariant /\ [Next]_vars => [A]_vars
    BY <1>1
  <1> QED
    BY InvariantHolds, <1>2, PTL DEF Spec, ForgottenEndsRun

\* save compares versions: no memory is taken back from active to candidate, or from
\* revoked to anything.
THEOREM StatusesAdvance == Spec => StatusOnlyAdvances
  <1> DEFINE A == \A i \in Ids :
               /\ item[i].status = "active" => item'[i].status \in {"active", "revoked"}
               /\ item[i].status = "revoked" => item'[i].status = "revoked"
  <1>1. ASSUME MemoryInvariant, [Next]_vars PROVE [A]_vars
    BY <1>1, RepositoryStep DEF RepositoryGrows, ItemsAdvance, Advances
  <1>2. MemoryInvariant /\ [Next]_vars => [A]_vars
    BY <1>1
  <1> QED
    BY InvariantHolds, <1>2, PTL DEF Spec, StatusOnlyAdvances
=============================================================================
