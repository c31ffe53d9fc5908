--------------------------- MODULE CuratorCommit ---------------------------
(***************************************************************************)
(* CuratorCommitService.apply for one operation_id: the approved drafts of *)
(* one knowledge artifact are written, target by target, to the research   *)
(* note database and to the knowledge database, which also holds the       *)
(* operation's receipt and its per-target steps.  Several calls of apply   *)
(* may carry the same operation_id: a double click, a retry after a        *)
(* failure, a resume after a crash.  Each transaction and each read that   *)
(* decides something is an action of its own.                              *)
(***************************************************************************)
EXTENDS Naturals, FiniteSets

CONSTANTS
  Notes, Items, Relations,  \* draft ids of the artifact, numbered in the order apply visits them
  Existing,      \* note and item drafts that revise an object which is already there
  Endpoints,     \* the two drafts each relation proposal joins
  Unauthorized,  \* drafts that never pass validation (sources out of scope, user_note set)
  Calls,         \* calls of apply
  Selection,     \* the draft ids each call selects; with the artifact and scope, its payload_hash
  MaxEdits,      \* bound on user edits
  MaxCrashes     \* bound on process crashes

Drafts == Notes \cup Items \cup Relations

ASSUME DraftsAssumption ==
  /\ Drafts \subseteq Nat /\ IsFiniteSet(Drafts)
  /\ \A d \in Notes, e \in Items \cup Relations : d < e
  /\ \A d \in Items, e \in Relations : d < e
  /\ Existing \subseteq Notes \cup Items /\ Unauthorized \subseteq Drafts
  /\ Endpoints \in [Relations -> SUBSET (Notes \cup Items)]
ASSUME CallsAssumption ==
  /\ Selection \in [Calls -> (SUBSET Drafts) \ {{}}]
  /\ MaxEdits \in Nat /\ MaxCrashes \in Nat

VARIABLES
  receipt,   \* the curator_commit_operations row
  step,      \* curator_commit_steps: the payload each target was committed under, {} for none
  note,      \* research_notes: the note each note draft addresses
  object,    \* knowledge_items and relation suggestions: the object each draft addresses
  pc,        \* where each call of apply is
  previous,  \* the receipt row each call has read, until it decides on it
  result,    \* results_by_key of each call
  edits, crashes

storeVars == <<receipt, step, note, object>>
vars == <<receipt, step, note, object, pc, previous, result, edits, crashes>>

Content == {"absent", "base", "draft", "user"}
ResultStatus == {"none", "committed", "failed"}
Running == {"opened", "starting", "working", "checked", "noted", "recording"}
Ended == {"done", "replayed", "conflict"}
FinalStatus == {"completed", "partial", "failed"}
Receipts == [status : {"none", "in_progress"} \cup FinalStatus,
             selection : SUBSET Drafts, results : [Drafts -> ResultStatus]]
NoResults == [d \in Drafts |-> "none"]
NoReceipt == [status |-> "none", selection |-> {}, results |-> NoResults]

TypeOK ==
  /\ receipt \in Receipts
  /\ step \in [Drafts -> SUBSET Drafts]
  /\ note \in [Notes -> Content] /\ object \in [Drafts -> Content]
  /\ pc \in [Calls -> Running \cup Ended \cup {"idle", "crashed"}]
  /\ previous \in [Calls -> Receipts]
  /\ result \in [Calls -> [Drafts -> ResultStatus]]
  /\ edits \in 0 .. MaxEdits /\ crashes \in 0 .. MaxCrashes

Before(d) == IF d \in Existing THEN "base" ELSE "absent"

Init ==
  /\ receipt = NoReceipt
  /\ step = [d \in Drafts |-> {}]
  /\ note = [d \in Notes |-> Before(d)]
  /\ object = [d \in Drafts |-> IF d \in Items THEN Before(d) ELSE "absent"]
  /\ pc = [c \in Calls |-> "idle"]
  /\ previous = [c \in Calls |-> NoReceipt]
  /\ result = [c \in Calls |-> NoResults]
  /\ edits = 0 /\ crashes = 0

Stepped == {d \in Drafts : step[d] # {}}
Saved(r) == {d \in Drafts : r.results[d] # "none"}
Committed(r) == {d \in Drafts : r.results[d] = "committed"}

\* Mutant: the steps are not merged into the receipt.
ReportedAsSaved(r, S) == r
\* get_receipt: what receipt row r and the steps S are reported as.  The number of
\* selected targets is taken to be the number of results saved so far.
Reported(r, S) ==
  IF r.status = "none" \/ S = {} THEN r
  ELSE [r EXCEPT
    !.results = [d \in Drafts |-> IF d \in S THEN "committed" ELSE @[d]],
    !.status = IF @ = "in_progress" /\ Saved(r) # {} THEN "completed" ELSE @]

Receipt(c, status, results) ==
  [status |-> status, selection |-> Selection[c], results |-> results]
GoTo(c, p) == pc' = [pc EXCEPT ![c] = p]
Todo(c) == {d \in Selection[c] : result[c][d] = "none"}
Current(c) == CHOOSE d \in Todo(c) : \A e \in Todo(c) : d <= e
-----------------------------------------------------------------------------
(* Opening the operation. *)

\* The first of get_receipt's two reads.
ReadReceipt(c) ==
  /\ pc[c] = "idle"
  /\ previous' = [previous EXCEPT ![c] = receipt]
  /\ GoTo(c, "opened")
  /\ UNCHANGED <<storeVars, result, edits, crashes>>

\* The second, and the decision taken on both.
ReadSteps(c) ==
  LET seen == Reported(previous[c], Stepped)
      other == seen.status # "none" /\ seen.selection # Selection[c]
  IN
  /\ pc[c] = "opened"
  /\ GoTo(c, IF other THEN "conflict"
             ELSE IF seen.status = "completed" THEN "replayed" ELSE "starting")
  /\ result' = [result EXCEPT ![c] =
                  [d \in Drafts |-> IF d \in Committed(seen) THEN "committed" ELSE "none"]]
  /\ previous' = [previous EXCEPT ![c] = NoReceipt]
  /\ UNCHANGED <<storeVars, edits, crashes>>

SaveOpening(c) ==
  /\ pc[c] = "starting"
  /\ receipt' = Receipt(c, "in_progress", result[c])
  /\ GoTo(c, "working")
  /\ UNCHANGED <<step, note, object, previous, result, edits, crashes>>
-----------------------------------------------------------------------------
(* One target. *)

Working(c) == pc[c] = "working" /\ Todo(c) # {}
Finished(c, d, status) == result' = [result EXCEPT ![c][d] = status]

\* An existing object must still have the content the draft was prepared from.
Changed(d) ==
  d \in Existing /\ IF d \in Notes THEN note[d] # "base" ELSE object[d] # "base"
\* Mutant: an endpoint is looked for in the artifact, not among what was committed.
EndpointMissing(c, d) ==
  d \in Relations /\ \E e \in Endpoints[d] : e \notin Selection[c]
DanglingEndpoint(c, d) ==
  d \in Relations /\ \E e \in Endpoints[d] :
    e \notin Selection[c] \/ result[c][e] # "committed"

Validate(c) ==
  LET d == Current(c)
      refused == d \in Unauthorized \/ Changed(d) \/ DanglingEndpoint(c, d)
  IN
  /\ Working(c)
  /\ IF refused THEN Finished(c, d, "failed") /\ GoTo(c, "recording")
                ELSE GoTo(c, "checked") /\ UNCHANGED result
  /\ UNCHANGED <<storeVars, previous, edits, crashes>>

\* ResearchNoteService.save: one transaction of the note database, after which
\* attaching the note to its workspace may still raise.
SaveNote(c) ==
  LET d == Current(c) IN
  /\ pc[c] = "checked" /\ d \in Notes
  /\ note' = [note EXCEPT ![d] = "draft"]
  /\ \/ GoTo(c, "noted") /\ UNCHANGED result
     \/ Finished(c, d, "failed") /\ GoTo(c, "recording")
  /\ UNCHANGED <<receipt, step, object, previous, edits, crashes>>

\* Mutant: the object is written outside the transaction of its step.
ObjectFirst(c, d) ==
  /\ object' = [object EXCEPT ![d] = "draft"]
  /\ \/ step' = [step EXCEPT ![d] = Selection[c]]
     \/ UNCHANGED step
\* _save_item_and_step and _save_suggestion_and_step: one transaction.
ObjectAndStep(c, d) ==
  /\ object' = [object EXCEPT ![d] = "draft"]
  /\ step' = [step EXCEPT ![d] = Selection[c]]

SaveObject(c) ==
  LET d == Current(c) IN
  /\ pc[c] = "noted" \/ (pc[c] = "checked" /\ d \notin Notes)
  /\ step[d] \in {{}, Selection[c]}
  /\ ObjectAndStep(c, d)
  /\ Finished(c, d, "committed")
  /\ GoTo(c, "recording")
  /\ UNCHANGED <<receipt, note, previous, edits, crashes>>

\* The step belongs to another payload, or a database raises: rolled back.
RollBack(c) ==
  LET d == Current(c) IN
  /\ pc[c] \in {"checked", "noted"}
  /\ Finished(c, d, "failed")
  /\ GoTo(c, "recording")
  /\ UNCHANGED <<storeVars, previous, edits, crashes>>

Record(c) ==
  /\ pc[c] = "recording"
  /\ receipt' = Receipt(c, "in_progress", result[c])
  /\ GoTo(c, "working")
  /\ UNCHANGED <<step, note, object, previous, result, edits, crashes>>

Failures(c) == {d \in Drafts : result[c][d] = "failed"}
Successes(c) == {d \in Drafts : result[c][d] = "committed"}
\* Mutant: one success is enough.
OutcomeLenient(c) ==
  IF Successes(c) # {} THEN "completed" ELSE IF Failures(c) = {} THEN "partial" ELSE "failed"
Outcome(c) ==
  IF Failures(c) = {} THEN "completed" ELSE IF Successes(c) # {} THEN "partial" ELSE "failed"

Finish(c) ==
  /\ pc[c] = "working" /\ Todo(c) = {}
  /\ receipt' = Receipt(c, Outcome(c), result[c])
  /\ GoTo(c, "done")
  /\ UNCHANGED <<step, note, object, previous, result, edits, crashes>>
-----------------------------------------------------------------------------
(* The environment. *)

\* The user edits an object a draft was prepared from.
UserEdit(d) ==
  /\ d \in Existing /\ edits < MaxEdits
  /\ IF d \in Notes THEN note' = [note EXCEPT ![d] = "user"] /\ UNCHANGED object
                    ELSE object' = [object EXCEPT ![d] = "user"] /\ UNCHANGED note
  /\ edits' = edits + 1
  /\ UNCHANGED <<receipt, step, pc, previous, result, crashes>>

Crash ==
  /\ crashes < MaxCrashes /\ \E c \in Calls : pc[c] \in Running
  /\ pc' = [c \in Calls |-> IF pc[c] \in Running THEN "crashed" ELSE pc[c]]
  /\ previous' = [c \in Calls |-> NoReceipt]
  /\ result' = [c \in Calls |-> IF pc[c] \in Running THEN NoResults ELSE result[c]]
  /\ crashes' = crashes + 1
  /\ UNCHANGED <<storeVars, edits>>
-----------------------------------------------------------------------------
Apply(c) ==
  \/ ReadSteps(c) \/ SaveOpening(c) \/ Validate(c) \/ SaveNote(c) \/ SaveObject(c)
  \/ RollBack(c) \/ Record(c) \/ Finish(c)

Next ==
  \/ Crash
  \/ \E d \in Drafts : UserEdit(d)
  \/ \E c \in Calls : ReadReceipt(c) \/ Apply(c)

Spec == Init /\ [][Next]_vars
-----------------------------------------------------------------------------
(* Properties. *)

InFlight == \E c \in Calls : pc[c] \in Running
Visible == Reported(receipt, Stepped)

\* The knowledge object of a target and its step are one: after any crash, a draft's
\* content is in the knowledge database exactly when a step says which operation put
\* it there (a later user edit aside).
ObjectHasStep ==
  \A d \in Drafts : /\ object[d] = "draft" => d \in Stepped
                    /\ d \in Stepped => object[d] \in {"draft", "user"}

\* What the receipt row claims is backed by steps, however many calls overwrite it:
\* each committed target, and every selected target once it says completed.
ReceiptIsBacked ==
  /\ Committed(receipt) \subseteq Stepped
  /\ receipt.status = "completed" => receipt.selection \subseteq Stepped

\* No relation proposal is stored before both the objects it joins.
ProposalsAfterEndpoints ==
  \A d \in Relations : d \in Stepped => Endpoints[d] \subseteq Stepped

\* A target once reported as committed is never reported otherwise, though receipts
\* are overwritten without being compared.
CommittedNeverTakenBack ==
  [][\A d \in Drafts :
       Visible.results[d] = "committed" => Visible'.results[d] = "committed"]_vars
-----------------------------------------------------------------------------
(* What the documents claim and the code does not keep; the README says which runs  *)
(* refute it.                                                                     *)

\* multi-agent-system-design.md:321: a failure is never shown as saved: a replayed
\* receipt, reported as completed, has every selected target behind it.
ReplayedIsComplete ==
  \A c \in Calls : pc[c] = "replayed" => Selection[c] \subseteq Stepped

\* multi-agent-system-taskbook.md:207: a batch can be retried safely: a revised note
\* that has no step, and that no user touched, is still what the draft expects.
RetryStaysPossible ==
  \A d \in Existing \cap Notes :
    d \notin Stepped /\ ~InFlight /\ edits = 0 => note[d] = "base"
=============================================================================
