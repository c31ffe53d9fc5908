-------------------------- MODULE MemoryRepository --------------------------
(***************************************************************************)
(* SQLiteMemoryRepository: memory items with immutable versions, one       *)
(* receipt per operation_id, and the snapshot each run was frozen at.      *)
(* Every operation is one transaction under the repository's lock.  The    *)
(* operations are formulas which the module that uses the repository       *)
(* conjoins into its steps.  Texts are left out: a version is known by its *)
(* number, a payload by what its hash covers and the properties tell apart.*)
(***************************************************************************)
EXTENDS Naturals, FiniteSets

CONSTANTS
  Ids,         \* item ids (uuid4) that may be drawn
  NoId,        \* the empty item_id of a new memory
  Runs,        \* run_id
  Scopes,      \* scope_ref, each with a workspace of its own
  Global,      \* the workspace_id of memories that every scope sees
  NoScope,     \* the scope of a run that has no snapshot
  MaxWrites    \* bound on the writes of memory items

ASSUME RepositoryAssumption ==
  NoId \notin Ids /\ NoScope \notin Scopes \cup {Global} /\ MaxWrites \in Nat \ {0}

VARIABLES
  item,      \* memory_items: status, current_version and workspace_id; version 0 for no row
  receipt,   \* memory_operations, each with the version it wrote
  snapshot   \* memory_snapshots: the versions each run was frozen at

repositoryVars == <<item, receipt, snapshot>>

Status == {"candidate", "active", "revoked"}
Places == Scopes \cup {Global}
ItemType ==
  [status : Status \cup {"none"}, version : 0 .. MaxWrites, scope : Places]
Refs == [id : Ids, version : 1 .. MaxWrites]
NoItem == [status |-> "none", version |-> 0, scope |-> Global]
NoSnapshot == [scope |-> NoScope, refs |-> {}]

RepositoryInit ==
  /\ item = [i \in Ids |-> NoItem]
  /\ receipt = {}
  /\ snapshot = [r \in Runs |-> NoSnapshot]

Known == {i \in Ids : item[i].version > 0}

\* Mutant: a retried operation is not looked up.
UsesNone(op) == {}
Uses(op) == {r \in receipt : r.op = op}

\* Mutant: the version the caller has seen is not compared.
NeverStale(payload) == FALSE
\* Somebody else wrote the item since the caller saw it.
Stale(payload) ==
  payload.item # NoId /\ item[payload.item].version # payload.expected

\* save raises MemoryConflictError: the operation_id was used for another payload, or
\* the item has moved on.
Conflicts(op, payload) ==
  IF Uses(op) # {} THEN \E r \in Uses(op) : r.payload # payload ELSE Stale(payload)

\* A new memory draws a fresh id.
Targets(payload) == IF payload.item = NoId THEN Ids \ Known ELSE {payload.item}

\* Mutant: the receipt names the version that was replaced.
WriteOld(op, payload, i) ==
  LET version == item[i].version + 1 IN
  /\ Cardinality(receipt) < MaxWrites
  /\ item' = [item EXCEPT ![i] = [status |-> payload.status, version |-> version,
                                  scope |-> payload.scope]]
  /\ receipt' = receipt \cup
       {[op |-> op, payload |-> payload, item |-> i, version |-> item[i].version]}
\* Item, version and receipt in one transaction.
Write(op, payload, i) ==
  LET version == item[i].version + 1 IN
  /\ Cardinality(receipt) < MaxWrites
  /\ item' = [item EXCEPT ![i] = [status |-> payload.status, version |-> version,
                                  scope |-> payload.scope]]
  /\ receipt' = receipt \cup
       {[op |-> op, payload |-> payload, item |-> i, version |-> version]}

\* save: a replay or a conflict changes nothing.
Save(op, payload) ==
  IF Uses(op) # {} \/ Conflicts(op, payload)
    THEN UNCHANGED <<item, receipt>>
    ELSE \E i \in Targets(payload) : Write(op, payload, i)

\* Mutant: whatever has a body is listed.
ListActiveAll(s) ==
  {i \in Known : item[i].status # "revoked" /\ item[i].scope \in {Global, s}}
ListActive(s) ==
  {i \in Known : item[i].status = "active" /\ item[i].scope \in {Global, s}}

\* Mutant: the snapshot is taken anew for every call.
FrozenAnew(r, s) ==
  [scope |-> s, refs |-> {[id |-> i, version |-> item[i].version] : i \in ListActive(s)}]
\* snapshot_for_run: a run keeps the versions of its first call.
Frozen(r, s) ==
  IF snapshot[r].scope # NoScope THEN snapshot[r]
  ELSE [scope |-> s, refs |-> {[id |-> i, version |-> item[i].version] : i \in ListActive(s)}]
=============================================================================
