------------------------ MODULE CuratorCommitProofs ------------------------
(***************************************************************************)
(* The safety properties of CuratorCommit for every artifact, any number   *)
(* of calls of one operation_id with any selections, any number of crashes *)
(* and edits.                                                              *)
(***************************************************************************)
EXTENDS CuratorCommit, NaturalsInduction, WellFoundedInduction, TLAPS

\* Where a call has looked at a target and not yet decided on it, there is one; past
\* the note it is a note, and a proposal got there over what it joins.
AtTarget ==
  \A c \in Calls :
    /\ pc[c] \in {"checked", "noted"} => Todo(c) # {}
    /\ pc[c] = "checked" => ~DanglingEndpoint(c, Current(c))
    /\ pc[c] = "noted" => Current(c) \in Notes

\* Nobody takes a target for committed that has no step: neither the receipt row, nor
\* a copy of it that a call has read, nor a call's own results.
ClaimsAreBacked ==
  /\ Committed(receipt) \subseteq Stepped
  /\ \A c \in Calls : Committed(previous[c]) \subseteq Stepped
  /\ \A c \in Calls : Successes(c) \subseteq Stepped

\* A row that was never written claims nothing.
NoEmptyClaims == receipt.status = "none" => receipt = NoReceipt

CommitInvariant ==
  /\ TypeOK /\ AtTarget /\ ClaimsAreBacked /\ NoEmptyClaims
  /\ ObjectHasStep /\ ReceiptIsBacked /\ ProposalsAfterEndpoints
-----------------------------------------------------------------------------
(* Operators. *)

\* apply visits a target as long as one is left.
LEMMA CurrentIsTodo ==
  ASSUME NEW c \in Calls, Todo(c) # {}
  PROVE  Current(c) \in Todo(c) /\ Current(c) \in Selection[c] /\ Current(c) \in Drafts
  <1>1. Todo(c) \subseteq Selection[c] /\ Selection[c] \subseteq Drafts /\ Drafts \subseteq Nat
    BY DraftsAssumption, CallsAssumption DEF Todo
  <1>2. \E d \in Todo(c) : \A e \in Todo(c) : ~(<<e, d>> \in OpToRel(<, Nat))
    BY <1>1, WFMin, NatLessThanWellFounded, Zenon
  <1>3. PICK d \in Todo(c) : \A e \in Todo(c) : ~(<<e, d>> \in OpToRel(<, Nat))
    BY <1>2
  <1>4. \A e \in Todo(c) : ~(e < d)
    BY <1>1, <1>3, Zenon DEF OpToRel
  <1>5. ASSUME NEW e \in Todo(c) PROVE d <= e
    <2>1. d \in Nat /\ e \in Nat /\ ~(e < d)
      BY <1>1, <1>4
    <2> QED
      BY <2>1
  <1>6. Current(c) \in Todo(c)
    BY <1>5, Zenon DEF Current
  <1> QED
    BY <1>1, <1>6

LEMMA ReportedType ==
  ASSUME NEW r \in Receipts, NEW S \in SUBSET Drafts
  PROVE  /\ Reported(r, S) \in Receipts
         /\ Committed(Reported(r, S)) \subseteq Committed(r) \cup S
         /\ S = {} => Reported(r, S) = r
         /\ r.status # "none" =>
              \A d \in S : Reported(r, S).results[d] = "committed"
  <1> DEFINE merged == [d \in Drafts |-> IF d \in S THEN "committed" ELSE r.results[d]]
             status == IF r.status = "in_progress" /\ Saved(r) # {} THEN "completed" ELSE r.status
  <1>1. CASE r.status = "none" \/ S = {}
    BY <1>1 DEF Reported
  <1>2. CASE ~(r.status = "none" \/ S = {})
    <2>1. Reported(r, S) = [r EXCEPT !.results = merged, !.status = status]
      BY <1>2 DEF Reported
    <2>2. merged \in [Drafts -> ResultStatus]
      BY DEF Receipts, ResultStatus
    <2>3. status \in {"none", "in_progress"} \cup FinalStatus
      BY DEF Receipts, FinalStatus
    <2>4. Reported(r, S).results = merged /\ Reported(r, S) \in Receipts
      <3> HIDE DEF merged, status
      <3> QED
        BY <2>1, <2>2, <2>3 DEF Receipts
    <2> QED
      BY <1>2, <2>4 DEF Committed
  <1> QED
    BY <1>1, <1>2

\* What the receipt is reported as: every target with a step is committed, no other.
VisibleExact ==
  \A d \in Drafts :
    Visible.results[d] = "committed" <=> receipt.status # "none" /\ d \in Stepped

LEMMA VisibleIsStepped ==
  ASSUME CommitInvariant
  PROVE  VisibleExact
  <1> SUFFICES ASSUME NEW d \in Drafts
               PROVE  Visible.results[d] = "committed" <=> receipt.status # "none" /\ d \in Stepped
    BY DEF VisibleExact
  <1>1. receipt \in Receipts /\ Stepped \in SUBSET Drafts
    BY DEF CommitInvariant, TypeOK, Stepped
  <1>2. CASE receipt.status = "none"
    <2>1. Visible = NoReceipt
      BY <1>2 DEF Visible, Reported, CommitInvariant, NoEmptyClaims
    <2> QED
      BY <1>2, <2>1 DEF NoReceipt, NoResults
  <1>3. CASE receipt.status # "none"
    <2>1. Committed(Visible) \subseteq Stepped
      BY <1>1, ReportedType DEF Visible, CommitInvariant, ClaimsAreBacked
    <2>2. d \in Stepped => Visible.results[d] = "committed"
      BY <1>1, <1>3, ReportedType DEF Visible
    <2> QED
      BY <1>3, <2>1, <2>2 DEF Committed
  <1> QED
    BY <1>2, <1>3

LEMMA ReceiptType ==
  ASSUME TypeOK, NEW c \in Calls, NEW status \in {"in_progress"} \cup FinalStatus
  PROVE  /\ Receipt(c, status, result[c]) \in Receipts
         /\ Receipt(c, status, result[c]).status = status
         /\ Receipt(c, status, result[c]).selection = Selection[c]
         /\ Committed(Receipt(c, status, result[c])) = Successes(c)
  BY CallsAssumption DEF TypeOK, Receipt, Receipts, Committed, Successes

LEMMA OutcomeType ==
  ASSUME NEW c \in Calls
  PROVE  Outcome(c) \in FinalStatus /\ (Outcome(c) = "completed" <=> Failures(c) = {})
  BY DEF Outcome, FinalStatus
-----------------------------------------------------------------------------
(* Steps. *)

\* What a call looks at depends on its own results only.
LEMMA SameResult ==
  ASSUME NEW c \in Calls, result'[c] = result[c]
  PROVE  /\ Todo(c)' = Todo(c) /\ Current(c)' = Current(c) /\ Successes(c)' = Successes(c)
         /\ \A d : DanglingEndpoint(c, d)' <=> DanglingEndpoint(c, d)
  <1>1. Todo(c)' = Todo(c) /\ Successes(c)' = Successes(c)
    BY DEF Todo, Successes
  <1>2. Current(c)' = Current(c)
    BY <1>1, Zenon DEF Current
  <1>3. \A d : DanglingEndpoint(c, d)' <=> DanglingEndpoint(c, d)
    BY DEF DanglingEndpoint
  <1> QED
    BY <1>1, <1>2, <1>3

\* Calls that do not step are where they were, if their results are as they were.
LEMMA OthersAtTarget ==
  ASSUME TypeOK, AtTarget, NEW c \in Calls, NEW p, GoTo(c, p),
         \A b \in Calls \ {c} : result'[b] = result[b],
         /\ p \in {"checked", "noted"} => Todo(c)' # {}
         /\ p = "checked" => ~DanglingEndpoint(c, Current(c))'
         /\ p = "noted" => Current(c)' \in Notes
  PROVE  AtTarget'
  <1>1. pc'[c] = p /\ \A b \in Calls \ {c} : pc'[b] = pc[b]
    BY DEF GoTo, TypeOK
  <1>2. ASSUME NEW b \in Calls \ {c}
        PROVE  /\ pc'[b] \in {"checked", "noted"} => Todo(b)' # {}
               /\ pc'[b] = "checked" => ~DanglingEndpoint(b, Current(b))'
               /\ pc'[b] = "noted" => Current(b)' \in Notes
    <2>1. /\ Todo(b)' = Todo(b) /\ Current(b)' = Current(b)
          /\ DanglingEndpoint(b, Current(b))' <=> DanglingEndpoint(b, Current(b))
      <3>1. /\ Todo(b)' = Todo(b) /\ Current(b)' = Current(b)
            /\ \A d : DanglingEndpoint(b, d)' <=> DanglingEndpoint(b, d)
        BY SameResult
      <3> QED
        BY <3>1 DEF DanglingEndpoint
    <2> QED
      BY <1>1, <2>1 DEF AtTarget
  <1> QED
    BY <1>1, <1>2 DEF AtTarget

LEMMA FinishedTarget ==
  ASSUME TypeOK, NEW c \in Calls, NEW d \in Drafts, NEW status \in {"committed", "failed"},
         Finished(c, d, status)
  PROVE  /\ result' \in [Calls -> [Drafts -> ResultStatus]]
         /\ \A b \in Calls \ {c} : result'[b] = result[b]
         /\ Successes(c)' \subseteq Successes(c) \cup {d}
         /\ status = "failed" => Successes(c)' \subseteq Successes(c)
  BY DEF TypeOK, Finished, Successes, ResultStatus

\* Of the target a call is at.
LEMMA TargetKnown ==
  ASSUME AtTarget, NEW c \in Calls, pc[c] \in {"checked", "noted"}
  PROVE  Current(c) \in Drafts /\ Current(c) \in Todo(c)
  BY CurrentIsTodo DEF AtTarget

LEMMA TypeStep ==
  ASSUME TypeOK, AtTarget, [Next]_vars
  PROVE  TypeOK'
  <1>1. ASSUME NEW c \in Calls, ReadReceipt(c) PROVE TypeOK'
    BY <1>1 DEF ReadReceipt, GoTo, TypeOK, storeVars, Running
  <1>2. ASSUME NEW c \in Calls, ReadSteps(c) PROVE TypeOK'
    <2>1. NoReceipt \in Receipts
      BY DEF NoReceipt, NoResults, Receipts, ResultStatus
    <2>2. result' \in [Calls -> [Drafts -> ResultStatus]]
      BY <1>2 DEF ReadSteps, TypeOK, ResultStatus
    <2> QED
      BY <1>2, <2>1, <2>2 DEF ReadSteps, GoTo, TypeOK, storeVars, Running, Ended
  <1>3. ASSUME NEW c \in Calls, SaveOpening(c) \/ Record(c) PROVE TypeOK'
    <2>1. receipt' \in Receipts
      BY <1>3, ReceiptType DEF SaveOpening, Record
    <2> QED
      BY <1>3, <2>1 DEF SaveOpening, Record, GoTo, TypeOK, Running
  <1>4. ASSUME NEW c \in Calls, Validate(c) PROVE TypeOK'
    <2>1. Current(c) \in Drafts
      BY <1>4, CurrentIsTodo DEF Validate, Working
    <2>2. result' \in [Calls -> [Drafts -> ResultStatus]]
      BY <1>4, <2>1, FinishedTarget DEF Validate, TypeOK
    <2> QED
      BY <1>4, <2>2 DEF Validate, GoTo, TypeOK, storeVars, Running
  <1>5. ASSUME NEW c \in Calls, SaveNote(c) PROVE TypeOK'
    <2>1. Current(c) \in Drafts
      BY <1>5, TargetKnown DEF SaveNote
    <2>2. result' \in [Calls -> [Drafts -> ResultStatus]]
      BY <1>5, <2>1, FinishedTarget DEF SaveNote, TypeOK
    <2>3. note' \in [Notes -> Content]
      BY <1>5 DEF SaveNote, TypeOK, Content
    <2> QED
      BY <1>5, <2>2, <2>3 DEF SaveNote, GoTo, TypeOK, Running
  <1>6. ASSUME NEW c \in Calls, SaveObject(c) PROVE TypeOK'
    <2>1. Current(c) \in Drafts /\ Selection[c] \subseteq Drafts
      BY <1>6, TargetKnown, CallsAssumption DEF SaveObject
    <2>2. result' \in [Calls -> [Drafts -> ResultStatus]]
      BY <1>6, <2>1, FinishedTarget DEF SaveObject
    <2>3. object' \in [Drafts -> Content] /\ step' \in [Drafts -> SUBSET Drafts]
      BY <1>6, <2>1 DEF SaveObject, ObjectAndStep, TypeOK, Content
    <2> QED
      BY <1>6, <2>2, <2>3 DEF SaveObject, GoTo, TypeOK, Running
  <1>7. ASSUME NEW c \in Calls, RollBack(c) PROVE TypeOK'
    <2>1. Current(c) \in Drafts
      BY <1>7, TargetKnown DEF RollBack
    <2>2. result' \in [Calls -> [Drafts -> ResultStatus]]
      BY <1>7, <2>1, FinishedTarget DEF RollBack
    <2> QED
      BY <1>7, <2>2 DEF RollBack, GoTo, TypeOK, storeVars, Running
  <1>8. ASSUME NEW c \in Calls, Finish(c) PROVE TypeOK'
    <2>1. receipt' \in Receipts
      BY <1>8, ReceiptType, OutcomeType DEF Finish
    <2> QED
      BY <1>8, <2>1 DEF Finish, GoTo, TypeOK, Ended
  <1>9. ASSUME NEW d \in Drafts, UserEdit(d) PROVE TypeOK'
    <2>1. note' \in [Notes -> Content] /\ object' \in [Drafts -> Content]
      BY <1>9 DEF UserEdit, TypeOK, Content
    <2>2. edits' \in 0 .. MaxEdits
      BY <1>9, CallsAssumption DEF UserEdit, TypeOK
    <2> QED
      BY <1>9, <2>1, <2>2 DEF UserEdit, TypeOK
  <1>10. CASE Crash
    <2>1. NoReceipt \in Receipts /\ NoResults \in [Drafts -> ResultStatus]
      BY DEF NoReceipt, NoResults, Receipts, ResultStatus
    <2>2. crashes' \in 0 .. MaxCrashes
      BY <1>10, CallsAssumption DEF Crash, TypeOK
    <2> QED
      BY <1>10, <2>1, <2>2 DEF Crash, TypeOK, storeVars
  <1>11. CASE UNCHANGED vars
    BY <1>11 DEF vars, TypeOK
  <1> QED
    BY <1>1, <1>2, <1>3, <1>4, <1>5, <1>6, <1>7, <1>8, <1>9, <1>10, <1>11 DEF Next, Apply
-----------------------------------------------------------------------------
(* The invariant. *)

LEMMA StepsUntouched ==
  ASSUME ObjectHasStep, ProposalsAfterEndpoints, UNCHANGED <<step, object>>
  PROVE  Stepped' = Stepped /\ ObjectHasStep' /\ ProposalsAfterEndpoints'
  <1>1. Stepped' = Stepped
    BY DEF Stepped
  <1> QED
    BY <1>1 DEF ObjectHasStep, ProposalsAfterEndpoints

LEMMA InvReadReceipt ==
  ASSUME CommitInvariant, TypeOK', NEW c \in Calls, ReadReceipt(c)
  PROVE  CommitInvariant'
  <1>1. Stepped' = Stepped /\ ObjectHasStep' /\ ProposalsAfterEndpoints'
    BY StepsUntouched DEF CommitInvariant, ReadReceipt, storeVars
  <1>2. AtTarget'
    BY OthersAtTarget DEF CommitInvariant, ReadReceipt
  <1>3. ClaimsAreBacked'
    BY <1>1 DEF CommitInvariant, ReadReceipt, storeVars, TypeOK, ClaimsAreBacked, Committed,
                Successes
  <1>4. NoEmptyClaims' /\ ReceiptIsBacked'
    BY <1>1 DEF CommitInvariant, ReadReceipt, storeVars, NoEmptyClaims, ReceiptIsBacked, Committed
  <1> QED
    BY <1>1, <1>2, <1>3, <1>4 DEF CommitInvariant

LEMMA InvReadSteps ==
  ASSUME CommitInvariant, TypeOK', NEW c \in Calls, ReadSteps(c)
  PROVE  CommitInvariant'
  <1> DEFINE seen == Reported(previous[c], Stepped)
  <1>1. Stepped' = Stepped /\ ObjectHasStep' /\ ProposalsAfterEndpoints'
    BY StepsUntouched DEF CommitInvariant, ReadSteps, storeVars
  <1>2. AtTarget'
    <2>1. PICK p \in {"conflict", "replayed", "starting"} : GoTo(c, p)
      BY DEF ReadSteps
    <2>2. \A b \in Calls \ {c} : result'[b] = result[b]
      BY DEF ReadSteps, CommitInvariant, TypeOK
    <2> QED
      BY <2>1, <2>2, OthersAtTarget DEF CommitInvariant
  <1>3. ClaimsAreBacked'
    <2>1. Committed(seen) \subseteq Stepped
      <3>1. previous[c] \in Receipts /\ Stepped \in SUBSET Drafts
        BY DEF CommitInvariant, TypeOK, Stepped
      <3> QED
        BY <3>1, ReportedType DEF CommitInvariant, ClaimsAreBacked
    <2>2. result' = [result EXCEPT ![c] =
                       [d \in Drafts |-> IF d \in Committed(seen) THEN "committed" ELSE "none"]]
      BY DEF ReadSteps
    <2>3. Successes(c)' \subseteq Committed(seen)
      <3> HIDE DEF seen
      <3> QED
        BY <2>2 DEF Successes, CommitInvariant, TypeOK
    <2>4. \A b \in Calls \ {c} : Successes(b)' = Successes(b)
      <3> HIDE DEF seen
      <3> QED
        BY <2>2 DEF Successes, CommitInvariant, TypeOK
    <2>5. Committed(NoReceipt) = {}
      BY DEF Committed, NoReceipt, NoResults
    <2>6. \A b \in Calls : Committed(previous'[b]) \subseteq Stepped
      BY <2>5 DEF ReadSteps, CommitInvariant, TypeOK, ClaimsAreBacked
    <2>7. Committed(receipt') \subseteq Stepped
      BY DEF ReadSteps, storeVars, CommitInvariant, ClaimsAreBacked
    <2>8. \A b \in Calls : Successes(b)' \subseteq Stepped
      BY <2>1, <2>3, <2>4 DEF CommitInvariant, ClaimsAreBacked
    <2> QED
      BY <1>1, <2>6, <2>7, <2>8 DEF ClaimsAreBacked, Committed
  <1>4. NoEmptyClaims' /\ ReceiptIsBacked'
    BY <1>1 DEF CommitInvariant, ReadSteps, storeVars, NoEmptyClaims, ReceiptIsBacked, Committed
  <1> QED
    BY <1>1, <1>2, <1>3, <1>4 DEF CommitInvariant

\* The three writes of the receipt: on opening, after each target, at the end.
LEMMA InvReceipt ==
  ASSUME CommitInvariant, TypeOK', NEW c \in Calls,
         NEW status \in {"in_progress"} \cup FinalStatus,
         receipt' = Receipt(c, status, result[c]),
         status = "completed" => Selection[c] \subseteq Successes(c),
         NEW p \in {"working", "done"}, GoTo(c, p),
         UNCHANGED <<step, object, previous, result>>
  PROVE  CommitInvariant'
  <1>1. Stepped' = Stepped /\ ObjectHasStep' /\ ProposalsAfterEndpoints'
    BY StepsUntouched DEF CommitInvariant
  <1>2. AtTarget'
    BY OthersAtTarget DEF CommitInvariant
  <1>3. /\ Committed(receipt') = Successes(c) /\ receipt'.status = status
        /\ receipt'.selection = Selection[c]
    BY ReceiptType DEF CommitInvariant
  <1>4. Successes(c) \subseteq Stepped
    BY DEF CommitInvariant, ClaimsAreBacked
  <1>5. ClaimsAreBacked'
    <2>1. \A b \in Calls : Successes(b)' = Successes(b)
      BY DEF Successes
    <2> QED
      BY <1>1, <1>3, <1>4, <2>1 DEF CommitInvariant, ClaimsAreBacked, Committed
  <1>6. NoEmptyClaims'
    BY <1>3 DEF NoEmptyClaims, FinalStatus
  <1>7. ReceiptIsBacked'
    BY <1>1, <1>3, <1>4 DEF ReceiptIsBacked, Committed
  <1> QED
    BY <1>1, <1>2, <1>5, <1>6, <1>7 DEF CommitInvariant

\* A target is given up: nothing claims more than before.
LEMMA InvFailed ==
  ASSUME CommitInvariant, TypeOK', NEW c \in Calls, NEW d \in Drafts, Finished(c, d, "failed"),
         GoTo(c, "recording"), UNCHANGED <<receipt, step, object, previous>>
  PROVE  CommitInvariant'
  <1>1. Stepped' = Stepped /\ ObjectHasStep' /\ ProposalsAfterEndpoints'
    BY StepsUntouched DEF CommitInvariant
  <1>2. /\ \A b \in Calls \ {c} : result'[b] = result[b]
        /\ Successes(c)' \subseteq Successes(c)
    BY FinishedTarget DEF CommitInvariant
  <1>3. AtTarget'
    BY <1>2, OthersAtTarget DEF CommitInvariant
  <1>4. ClaimsAreBacked'
    <2>1. \A b \in Calls \ {c} : Successes(b)' = Successes(b)
      BY <1>2 DEF Successes
    <2> QED
      BY <1>1, <1>2, <2>1 DEF CommitInvariant, ClaimsAreBacked, Committed
  <1>5. NoEmptyClaims' /\ ReceiptIsBacked'
    BY <1>1 DEF CommitInvariant, NoEmptyClaims, ReceiptIsBacked, Committed
  <1> QED
    BY <1>1, <1>3, <1>4, <1>5 DEF CommitInvariant

\* A call goes on with its target.
LEMMA InvGoOn ==
  ASSUME CommitInvariant, TypeOK', NEW c \in Calls, NEW p \in {"checked", "noted"}, GoTo(c, p),
         Todo(c) # {}, p = "checked" => ~DanglingEndpoint(c, Current(c)),
         p = "noted" => Current(c) \in Notes,
         UNCHANGED <<receipt, step, object, previous, result>>
  PROVE  CommitInvariant'
  <1>1. Stepped' = Stepped /\ ObjectHasStep' /\ ProposalsAfterEndpoints'
    BY StepsUntouched DEF CommitInvariant
  <1>2. AtTarget'
    <2>1. /\ Todo(c)' = Todo(c) /\ Current(c)' = Current(c)
          /\ DanglingEndpoint(c, Current(c))' <=> DanglingEndpoint(c, Current(c))
      <3>1. Todo(c)' = Todo(c) /\ Current(c)' = Current(c)
        BY SameResult
      <3> QED
        BY <3>1 DEF DanglingEndpoint
    <2> QED
      BY <2>1, OthersAtTarget DEF CommitInvariant
  <1>3. ClaimsAreBacked'
    BY <1>1 DEF CommitInvariant, ClaimsAreBacked, Committed, Successes
  <1>4. NoEmptyClaims' /\ ReceiptIsBacked'
    BY <1>1 DEF CommitInvariant, NoEmptyClaims, ReceiptIsBacked, Committed
  <1> QED
    BY <1>1, <1>2, <1>3, <1>4 DEF CommitInvariant

LEMMA InvSaveObject ==
  ASSUME CommitInvariant, TypeOK', NEW c \in Calls, SaveObject(c)
  PROVE  CommitInvariant'
  <1> DEFINE d == Current(c)
  <1>1. d \in Drafts /\ d \in Selection[c] /\ Selection[c] # {}
    BY CurrentIsTodo, CallsAssumption DEF SaveObject, CommitInvariant, AtTarget
  <1>2. /\ step' = [step EXCEPT ![d] = Selection[c]]
        /\ object' = [object EXCEPT ![d] = "draft"]
    BY DEF SaveObject, ObjectAndStep
  <1>3. /\ \A b \in Calls \ {c} : result'[b] = result[b]
        /\ Successes(c)' \subseteq Successes(c) \cup {d}
    BY <1>1, FinishedTarget DEF SaveObject, CommitInvariant
  <1>4. d \in Relations => Endpoints[d] \subseteq Successes(c)
    <2>1. ASSUME d \in Relations PROVE Endpoints[d] \subseteq Successes(c)
      <3>1. pc[c] = "checked"
        <4>1. d \notin Notes
          BY <2>1, DraftsAssumption DEF Drafts
        <4> QED
          BY <4>1 DEF SaveObject, CommitInvariant, AtTarget
      <3>2. ~DanglingEndpoint(c, d)
        BY <3>1 DEF CommitInvariant, AtTarget
      <3> QED
        BY <2>1, <3>2, DraftsAssumption DEF DanglingEndpoint, Successes, Drafts
    <2> QED
      BY <2>1
  <1> HIDE DEF d
  <1>5. Stepped' = Stepped \cup {d}
    BY <1>1, <1>2 DEF Stepped, CommitInvariant, TypeOK
  <1>6. ObjectHasStep'
    BY <1>1, <1>2, <1>5 DEF CommitInvariant, TypeOK, ObjectHasStep
  <1>7. ProposalsAfterEndpoints'
    BY <1>4, <1>5 DEF CommitInvariant, ProposalsAfterEndpoints, ClaimsAreBacked
  <1>8. AtTarget'
    BY <1>3, OthersAtTarget DEF SaveObject, CommitInvariant
  <1>9. ClaimsAreBacked'
    <2>1. \A b \in Calls \ {c} : Successes(b)' = Successes(b)
      BY <1>3 DEF Successes
    <2>2. /\ Committed(receipt') = Committed(receipt)
          /\ \A b \in Calls : Committed(previous'[b]) = Committed(previous[b])
      BY DEF SaveObject
    <2>3. \A b \in Calls : Successes(b)' \subseteq Stepped'
      BY <1>3, <1>5, <2>1 DEF CommitInvariant, ClaimsAreBacked
    <2> QED
      BY <1>5, <2>2, <2>3 DEF CommitInvariant, ClaimsAreBacked, Committed
  <1>10. NoEmptyClaims' /\ ReceiptIsBacked'
    BY <1>5 DEF SaveObject, CommitInvariant, NoEmptyClaims, ReceiptIsBacked, Committed
  <1> QED
    BY <1>6, <1>7, <1>8, <1>9, <1>10 DEF CommitInvariant

LEMMA InvariantStep ==
  ASSUME CommitInvariant, [Next]_vars
  PROVE  CommitInvariant'
  <1>1. TypeOK'
    BY TypeStep DEF CommitInvariant
  <1>2. ASSUME NEW c \in Calls, ReadReceipt(c) \/ ReadSteps(c) PROVE CommitInvariant'
    BY <1>1, <1>2, InvReadReceipt, InvReadSteps
  <1>3. ASSUME NEW c \in Calls, SaveOpening(c) \/ Record(c) PROVE CommitInvariant'
    BY <1>1, <1>3, InvReceipt DEF SaveOpening, Record
  <1>4. ASSUME NEW c \in Calls, Finish(c) PROVE CommitInvariant'
    <2>1. Outcome(c) = "completed" => Selection[c] \subseteq Successes(c)
      <3>1. \A d \in Selection[c] : result[c][d] \in {"committed", "failed"} /\ d \in Drafts
        BY <1>4, CallsAssumption DEF Finish, Todo, CommitInvariant, TypeOK, ResultStatus
      <3> QED
        BY <3>1, OutcomeType DEF Failures, Successes
    <2> QED
      BY <1>1, <1>4, <2>1, OutcomeType, InvReceipt DEF Finish
  <1>5. ASSUME NEW c \in Calls, Validate(c) PROVE CommitInvariant'
    <2>1. Todo(c) # {} /\ Current(c) \in Drafts
      BY <1>5, CurrentIsTodo DEF Validate, Working
    <2>2. CASE Finished(c, Current(c), "failed") /\ GoTo(c, "recording")
      BY <1>1, <1>5, <2>1, <2>2, InvFailed DEF Validate, storeVars
    <2>3. CASE GoTo(c, "checked") /\ UNCHANGED result /\ ~DanglingEndpoint(c, Current(c))
      BY <1>1, <1>5, <2>1, <2>3, InvGoOn DEF Validate, storeVars
    <2> QED
      BY <1>5, <2>2, <2>3 DEF Validate
  <1>6. ASSUME NEW c \in Calls, SaveNote(c) PROVE CommitInvariant'
    <2>1. Todo(c) # {} /\ Current(c) \in Drafts /\ Current(c) \in Notes
      BY <1>6, CurrentIsTodo DEF SaveNote, CommitInvariant, AtTarget
    <2> QED
      BY <1>1, <1>6, <2>1, InvFailed, InvGoOn DEF SaveNote
  <1>7. ASSUME NEW c \in Calls, SaveObject(c) PROVE CommitInvariant'
    BY <1>1, <1>7, InvSaveObject
  <1>8. ASSUME NEW c \in Calls, RollBack(c) PROVE CommitInvariant'
    <2>1. Current(c) \in Drafts
      BY <1>8, TargetKnown DEF RollBack, CommitInvariant
    <2> QED
      BY <1>1, <1>8, <2>1, InvFailed DEF RollBack, storeVars
  <1>9. ASSUME NEW d \in Drafts, UserEdit(d) PROVE CommitInvariant'
    <2>1. Stepped' = Stepped
      BY <1>9 DEF UserEdit, Stepped
    <2>2. AtTarget'
      <3>1. \A c \in Calls : /\ Todo(c)' = Todo(c) /\ Current(c)' = Current(c)
                             /\ \A e : DanglingEndpoint(c, e)' <=> DanglingEndpoint(c, e)
        BY <1>9, SameResult DEF UserEdit
      <3>2. \A c \in Calls : DanglingEndpoint(c, Current(c))' <=> DanglingEndpoint(c, Current(c))
        BY <1>9, <3>1 DEF UserEdit, DanglingEndpoint
      <3> QED
        BY <1>9, <3>1, <3>2 DEF UserEdit, CommitInvariant, AtTarget
    <2>3. ClaimsAreBacked' /\ NoEmptyClaims' /\ ReceiptIsBacked' /\ ProposalsAfterEndpoints'
      BY <1>9, <2>1 DEF UserEdit, CommitInvariant, ClaimsAreBacked, NoEmptyClaims, ReceiptIsBacked,
                        ProposalsAfterEndpoints, Committed, Successes
    <2>4. ObjectHasStep'
      BY <1>9, <2>1 DEF UserEdit, CommitInvariant, TypeOK, ObjectHasStep
    <2> QED
      BY <1>1, <2>2, <2>3, <2>4 DEF CommitInvariant
  <1>10. CASE Crash
    <2>1. Stepped' = Stepped /\ ObjectHasStep' /\ ProposalsAfterEndpoints'
      BY <1>10, StepsUntouched DEF CommitInvariant, Crash, storeVars
    <2>2. AtTarget'
      BY <1>10 DEF Crash, CommitInvariant, TypeOK, AtTarget, Running
    <2>3. ClaimsAreBacked'
      <3>1. \A c \in Calls : Successes(c)' \subseteq Successes(c)
        BY <1>10 DEF Crash, Successes, NoResults, CommitInvariant, TypeOK
      <3>2. \A c \in Calls : Committed(previous'[c]) = {}
        BY <1>10 DEF Crash, Committed, NoReceipt, NoResults
      <3>3. Committed(receipt') = Committed(receipt)
        BY <1>10 DEF Crash, storeVars
      <3> QED
        BY <2>1, <3>1, <3>2, <3>3 DEF CommitInvariant, ClaimsAreBacked, Committed
    <2>4. NoEmptyClaims' /\ ReceiptIsBacked'
      BY <1>10, <2>1 DEF Crash, storeVars, CommitInvariant, NoEmptyClaims, ReceiptIsBacked, Committed
    <2> QED
      BY <1>1, <2>1, <2>2, <2>3, <2>4 DEF CommitInvariant
  <1>11. CASE UNCHANGED vars
    <2>1. Stepped' = Stepped /\ ObjectHasStep' /\ ProposalsAfterEndpoints'
      BY <1>11, StepsUntouched DEF CommitInvariant, vars
    <2>2. AtTarget'
      <3>1. \A c \in Calls : /\ Todo(c)' = Todo(c) /\ Current(c)' = Current(c)
        BY <1>11, SameResult DEF vars
      <3>2. \A c \in Calls : DanglingEndpoint(c, Current(c))' <=> DanglingEndpoint(c, Current(c))
        BY <1>11, <3>1 DEF vars, DanglingEndpoint
      <3> QED
        BY <1>11, <3>1, <3>2 DEF vars, CommitInvariant, AtTarget
    <2>3. ClaimsAreBacked' /\ NoEmptyClaims' /\ ReceiptIsBacked'
      BY <1>11, <2>1 DEF vars, CommitInvariant, ClaimsAreBacked, NoEmptyClaims, ReceiptIsBacked,
                         Committed, Successes
    <2> QED
      BY <1>1, <2>1, <2>2, <2>3 DEF CommitInvariant
  <1> QED
    BY <1>2, <1>3, <1>4, <1>5, <1>6, <1>7, <1>8, <1>9, <1>10, <1>11 DEF Next, Apply

LEMMA InvariantInit == Init => CommitInvariant
  <1> SUFFICES ASSUME Init PROVE CommitInvariant
    OBVIOUS
  <1>1. NoResults \in [Drafts -> ResultStatus] /\ NoReceipt \in Receipts
    BY DEF NoReceipt, NoResults, Receipts, ResultStatus
  <1>2. TypeOK
    BY <1>1, CallsAssumption DEF Init, TypeOK, Content, Before, Drafts
  <1>3. Stepped = {}
    BY DEF Init, Stepped
  <1>4. AtTarget
    BY DEF Init, AtTarget
  <1>5. ClaimsAreBacked
    <2>1. Committed(NoReceipt) = {}
      BY DEF Committed, NoReceipt, NoResults
    <2>2. \A c \in Calls : Successes(c) = {}
      BY DEF Init, Successes, NoResults
    <2> QED
      BY <2>1, <2>2 DEF Init, ClaimsAreBacked
  <1>6. NoEmptyClaims /\ ReceiptIsBacked
    BY <1>5 DEF Init, NoEmptyClaims, ReceiptIsBacked, NoReceipt, ClaimsAreBacked
  <1>7. ObjectHasStep /\ ProposalsAfterEndpoints
    BY <1>3 DEF Init, ObjectHasStep, ProposalsAfterEndpoints, Before
  <1> QED
    BY <1>2, <1>4, <1>5, <1>6, <1>7 DEF CommitInvariant

LEMMA StepsGrow ==
  ASSUME TypeOK, AtTarget, [Next]_vars
  PROVE  Stepped \subseteq Stepped'
  <1>1. ASSUME NEW c \in Calls, SaveObject(c) PROVE Stepped \subseteq Stepped'
    <2>1. Selection[c] # {}
      BY CallsAssumption
    <2> QED
      BY <1>1, <2>1 DEF SaveObject, ObjectAndStep, Stepped, TypeOK
  <1>2. CASE UNCHANGED step
    BY <1>2 DEF Stepped
  <1> QED
    BY <1>1, <1>2 DEF Next, Apply, ReadReceipt, ReadSteps, SaveOpening, Validate, SaveNote, RollBack,
                      Record, Finish, UserEdit, Crash, storeVars, vars

LEMMA ReceiptsStay ==
  ASSUME TypeOK, [Next]_vars, receipt.status # "none"
  PROVE  receipt'.status # "none"
  <1>1. ASSUME NEW c \in Calls, SaveOpening(c) \/ Record(c) \/ Finish(c)
        PROVE  receipt'.status # "none"
    BY <1>1, ReceiptType, OutcomeType DEF SaveOpening, Record, Finish, FinalStatus
  <1>2. CASE UNCHANGED receipt
    BY <1>2
  <1> QED
    BY <1>1, <1>2 DEF Next, Apply, ReadReceipt, ReadSteps, Validate, SaveNote, SaveObject, RollBack,
                      UserEdit, Crash, storeVars, vars
-----------------------------------------------------------------------------
(* The theorems. *)

\* Receipt, steps, objects and what every call believes agree at every step of any
\* number of calls of apply.
THEOREM InvariantHolds == Spec => []CommitInvariant
  <1>1. CommitInvariant /\ [Next]_vars => CommitInvariant'
    BY InvariantStep
  <1> QED
    BY InvariantInit, <1>1, PTL DEF Spec

\* Tables, calls and receipts keep their types.
THEOREM TypeCorrect == Spec => []TypeOK
  <1>1. CommitInvariant => TypeOK
    BY DEF CommitInvariant
  <1> QED
    BY InvariantHolds, <1>1, PTL

\* _save_item_and_step and _save_suggestion_and_step: object and step stand or fall
\* together, whatever crashes, fails or is edited.
THEOREM ObjectsHaveSteps == Spec => []ObjectHasStep
  <1>1. CommitInvariant => ObjectHasStep
    BY DEF CommitInvariant
  <1> QED
    BY InvariantHolds, <1>1, PTL

\* What the receipt row claims has a step, though calls overwrite it uncompared.
THEOREM ReceiptsAreBacked == Spec => []ReceiptIsBacked
  <1>1. CommitInvariant => ReceiptIsBacked
    BY DEF CommitInvariant
  <1> QED
    BY InvariantHolds, <1>1, PTL

\* No relation proposal is stored before what it joins, in whichever call of apply.
THEOREM ProposalsComeLast == Spec => []ProposalsAfterEndpoints
  <1>1. CommitInvariant => ProposalsAfterEndpoints
    BY DEF CommitInvariant
  <1> QED
    BY InvariantHolds, <1>1, PTL

\* What get_receipt has once reported as committed it reports so ever after.
THEOREM CommittedStays == Spec => CommittedNeverTakenBack
  <1> DEFINE A == \A d \in Drafts :
               Visible.results[d] = "committed" => Visible'.results[d] = "committed"
  <1>1. ASSUME CommitInvariant, VisibleExact, VisibleExact', [Next]_vars PROVE [A]_vars
    <2>1. Stepped \subseteq Stepped'
      BY <1>1, StepsGrow DEF CommitInvariant
    <2>2. receipt.status # "none" => receipt'.status # "none"
      BY <1>1, ReceiptsStay DEF CommitInvariant
    <2> QED
      BY <1>1, <2>1, <2>2 DEF VisibleExact
  <1>2. CommitInvariant /\ VisibleExact /\ VisibleExact' /\ [Next]_vars => [A]_vars
    BY <1>1
  <1>3. CommitInvariant => VisibleExact
    BY VisibleIsStepped
  <1> QED
    BY InvariantHolds, <1>2, <1>3, PTL DEF Spec, CommittedNeverTakenBack
=============================================================================
