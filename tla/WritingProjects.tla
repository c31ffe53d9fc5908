--------------------------- MODULE WritingProjects ---------------------------
(***************************************************************************)
(* Writing projects: WritingProjectService over the artifact store, called *)
(* by the writing panels of several windows.  A panel asks for a preview   *)
(* of one changed paragraph, shows it, and applies it on request; an agent *)
(* wrote the drafts that are attached.                                     *)
(*                                                                         *)
(* Tables are sets of rows.  One section per project is modelled (sections *)
(* share nothing but their project), one changed paragraph per revision    *)
(* (what the panel sends), and manuscripts as functions from paragraphs to *)
(* texts.  A text is Broken when it does not come back as one paragraph    *)
(* from the joined markdown: it is empty, or holds a blank line.  Evidence *)
(* and verification status are left out.                                   *)
(***************************************************************************)
EXTENDS Naturals

CONSTANTS
  Windows, Threads,
  Projects, Drafts, Paragraphs,
  Citing,        \* drafts whose content refers to a memory
  Cancelled,     \* drafts whose attempt may yet be cancelled
  Replacements,  \* texts an author may type
  Broken,        \* those that do not come back as one paragraph
  None,
  MaxVersion,    \* bound on the versions of a section
  MaxOps,        \* bound on operation ids ever issued
  MaxGestures,   \* bound on what the users of the panels do
  MaxFaults      \* bound on restarts, revocations and forgotten memories

ASSUME WritingAssumption ==
  /\ Citing \subseteq Drafts /\ Cancelled \subseteq Drafts /\ Broken \subseteq Replacements
  /\ Drafts \cap Replacements = {}
  /\ MaxVersion \in Nat \ {0} /\ MaxOps \in Nat
  /\ MaxGestures \in Nat /\ MaxFaults \in Nat

VARIABLES
  created,    \* writing_projects
  outline,    \* outline_version of each project
  sections,   \* writing_section_versions
  receipts,   \* writing_operations
  artifacts,  \* artifact_versions: manuscripts
  revoked,    \* drafts of the agent that were revoked
  forgotten,  \* the memory that Citing drafts refer to is no longer active
  call,       \* the request each server thread works on
  panel,      \* the preview a panel shows, and its operation id
  issued, gestures, faults

store == <<created, outline, sections, receipts>>
world == <<revoked, forgotten>>
client == <<panel, issued>>
vars == <<created, outline, sections, receipts, artifacts, revoked, forgotten,
          call, panel, issued, gestures, faults>>

-----------------------------------------------------------------------------
(* Types. *)

Operations == 1 .. MaxOps
Versions == 1 .. MaxVersion
BaseVersions == 1 .. MaxVersion - 1
Texts == Drafts \cup Replacements
Manuscripts == [Paragraphs -> Texts]

\* The digest that names a revision covers these fields and follows from them;
\* the draft it was made on gives it its memory references.
Revisions == [project : Projects, draft : Drafts, base : BaseVersions,
              para : Paragraphs, before : Texts, after : Replacements]

Rows == [version : Versions, draft : Drafts, text : Manuscripts]
Receipts == [op : Operations, project : Projects, revision : Revisions, version : Versions]
Artifacts == [draft : Drafts, version : Versions, text : Manuscripts,
              by : Revisions \cup {None}]

Requests ==
  [kind : {"attach"}, project : Projects, draft : Drafts, version : Versions,
   expected : 0 .. MaxVersion]
  \cup [kind : {"preview"}, project : Projects, expected : BaseVersions,
        para : Paragraphs, after : Replacements, op : Operations]
  \cup [kind : {"apply"}, project : Projects, revision : Revisions, op : Operations]

Codes == {"saved", "replayed", "conflict", "refused", "taken"}
Stages == {"asked", "checked", "stored", "answered"}
Calls ==
  {c \in [stage : Stages, window : Windows \cup {None}, request : Requests,
           code : Codes \cup {None}, preview : Revisions \cup {None}] :
     c.preview # None => c.request.kind = "preview"}

NoPreview == [preview |-> None, op |-> 0]

TypeOK ==
  /\ created \subseteq Projects
  /\ outline \in [Projects -> Nat]
  /\ sections \in [Projects -> SUBSET Rows] /\ receipts \subseteq Receipts
  /\ artifacts \subseteq Artifacts
  /\ revoked \subseteq Cancelled /\ forgotten \in BOOLEAN
  /\ call \in [Threads -> Calls \cup {None}]
  /\ panel \in [Windows -> [preview : Revisions, op : Operations] \cup {NoPreview}]
  /\ issued \in 0 .. MaxOps /\ gestures \in 0 .. MaxGestures /\ faults \in 0 .. MaxFaults

Init ==
  /\ created = {}
  /\ outline = [p \in Projects |-> 0]
  /\ sections = [p \in Projects |-> {}] /\ receipts = {}
  /\ artifacts = {[draft |-> d, version |-> 1, text |-> [x \in Paragraphs |-> d], by |-> None] :
                    d \in Drafts}
  /\ revoked = {} /\ forgotten = FALSE
  /\ call = [t \in Threads |-> None]
  /\ panel = [w \in Windows |-> NoPreview]
  /\ issued = 0 /\ gestures = 0 /\ faults = 0

-----------------------------------------------------------------------------
(* Reads. *)

\* _current_section: ORDER BY version DESC LIMIT 1.
Current(p) == CHOOSE s \in sections[p] : \A q \in sections[p] : q.version <= s.version
CurrentVersion(p) == IF sections[p] = {} THEN 0 ELSE Current(p).version

\* Only what the agent wrote, the first version of a draft, is ever revoked.
Available(d, v) == v > 1 \/ d \notin revoked
StoredAt(d, v) == {a \in artifacts : a.draft = d /\ a.version = v}
\* _validate_memory_references.
MemoryAllows(d) == d \in Citing => ~forgotten
\* _paragraphs: as many paragraphs come out of the markdown as went into it.
Splits(m) == \A x \in Paragraphs : m[x] \notin Broken

ReceiptsOf(o) == {k \in receipts : k.op = o}
\* The checks of apply_revision against the section as it is.
Fits(p, r) ==
  /\ sections[p] # {}
  /\ Current(p).version = r.base
  /\ Current(p).text[r.para] = r.before
\* Mutant: the version the revision was made on is not looked at.
ApplicableToAny(p, r) ==
  sections[p] # {} /\ Available(Current(p).draft, r.base) /\ Current(p).text[r.para] = r.before
Applicable(p, r) == Fits(p, r) /\ Available(Current(p).draft, r.base)
\* The manuscript apply_revision builds: the next version of the row's artifact.
Result(p, r) ==
  [draft |-> Current(p).draft, version |-> Current(p).version + 1,
   text |-> [Current(p).text EXCEPT ![r.para] = r.after], by |-> r]

-----------------------------------------------------------------------------
(* The panel. *)

Busy(w, kind) ==
  \E t \in Threads : call[t] # None /\ call[t].window = w /\ call[t].request.kind = kind

Gesture == gestures < MaxGestures /\ gestures' = gestures + 1

Ask(t, w, request) ==
  /\ call[t] = None /\ ~Busy(w, request.kind)
  /\ Gesture
  /\ call' = [call EXCEPT ![t] = [stage |-> "asked", window |-> w, request |-> request,
                                  code |-> None, preview |-> None]]
  /\ UNCHANGED <<store, artifacts, world, panel, faults>>

\* The id, version and expected version of an artifact are typed by hand: one that
\* exists (any other is refused), and any version before it.
AskAttach(t, w) ==
  \E p \in created, a \in artifacts : \E e \in 0 .. a.version - 1 :
    /\ Ask(t, w, [kind |-> "attach", project |-> p, draft |-> a.draft,
                  version |-> a.version, expected |-> e])
    /\ UNCHANGED issued

\* The panel shows some version the section has had, and offers a preview when
\* the text typed differs from that version's.  The operation id is drawn when the
\* preview answers: one for each, so it is counted here.
AskPreview(t, w) ==
  /\ issued < MaxOps /\ issued' = issued + 1
  /\ \E p \in created, x \in Paragraphs, after \in Replacements : \E s \in sections[p] :
       /\ s.version \in BaseVersions /\ s.text[x] # after
       /\ Ask(t, w, [kind |-> "preview", project |-> p, expected |-> s.version,
                     para |-> x, after |-> after, op |-> issued + 1])

\* The project is the one the panel shows now: the list is ordered by updated_at and
\* a preview may answer after another project was selected, so it need not be the
\* project of the preview.
AskApply(t, w) ==
  /\ panel[w].preview # None
  /\ \E p \in created :
       Ask(t, w, [kind |-> "apply", project |-> p, revision |-> panel[w].preview,
                  op |-> panel[w].op])
  /\ UNCHANGED issued

\* The draft is cancelled, or the paragraph, the section or the text changed.
Cancel(w) ==
  /\ panel[w] # NoPreview
  /\ Gesture
  /\ panel' = [panel EXCEPT ![w] = NoPreview]
  /\ UNCHANGED <<store, artifacts, world, call, issued, faults>>

Detached(w) ==
  [t \in Threads |-> IF call[t] # None /\ call[t].window = w
                       THEN [call[t] EXCEPT !.window = None] ELSE call[t]]
\* The page is closed; its requests go on.
Leave(w) ==
  /\ panel[w] # NoPreview \/ Detached(w) # call
  /\ Gesture
  /\ panel' = [panel EXCEPT ![w] = NoPreview]
  /\ call' = Detached(w)
  /\ UNCHANGED <<store, artifacts, world, issued, faults>>

\* What the panel does with an answer; an error leaves the preview and its id.
ShowAnswer(t) ==
  LET c == call[t]
      shown == c.window # None
      previewed == shown /\ c.preview # None
      applied == shown /\ c.request.kind = "apply" /\ c.code \in {"saved", "replayed"}
  IN /\ c # None /\ c.stage = "answered"
     /\ call' = [call EXCEPT ![t] = None]
     /\ panel' = IF previewed
                   THEN [panel EXCEPT ![c.window] = [preview |-> c.preview, op |-> c.request.op]]
                 ELSE IF applied THEN [panel EXCEPT ![c.window] = NoPreview]
                 ELSE panel
     /\ UNCHANGED <<store, artifacts, world, issued, gestures, faults>>

-----------------------------------------------------------------------------
(* The service.  A call at "stored" holds the service's lock across its *)
(* commit to the artifact store; every other step below takes and releases it. *)

At(t, kind, stage) == call[t] # None /\ call[t].request.kind = kind /\ call[t].stage = stage
Unlocked == \A t \in Threads : call[t] # None => call[t].stage # "stored"
Moved(t, stage) == call' = [call EXCEPT ![t].stage = stage]
\* The panel does nothing with the answer to an attachment but fetch the list again.
Answered(t, code) ==
  call' = IF call[t].request.kind = "attach" THEN [call EXCEPT ![t] = None]
          ELSE [call EXCEPT ![t].stage = "answered", ![t].code = code]

Create(p) ==
  /\ p \notin created /\ Unlocked
  /\ created' = created \cup {p}
  /\ UNCHANGED <<outline, sections, receipts, artifacts, world, client, call, gestures, faults>>

\* The artifact and its memory are looked at before the lock is taken.
CheckArtifact(t) ==
  LET q == call[t].request
      usable == \/ At(t, "attach", "asked") /\ Available(q.draft, q.version) /\ MemoryAllows(q.draft)
                \/ At(t, "apply", "asked") /\ MemoryAllows(q.revision.draft)
  IN /\ At(t, "attach", "asked") \/ At(t, "apply", "asked")
     /\ IF usable THEN Moved(t, "checked") ELSE Answered(t, "refused")
     /\ UNCHANGED <<store, artifacts, world, client, gestures, faults>>

\* save_outline replaces the outline of the version it expects, or changes nothing;
\* nothing else reads or writes it, so asking and saving are one step.
SaveOutline(p) ==
  /\ p \in created /\ Unlocked
  /\ \E d \in Drafts : MemoryAllows(d)
  /\ Gesture
  /\ outline' = [outline EXCEPT ![p] = outline[p] + 1]
  /\ UNCHANGED <<created, sections, receipts, artifacts, world, client, call, faults>>

\* _insert_section: the row takes its version from the artifact.
RowFor(a) == [version |-> a.version, draft |-> a.draft, text |-> a.text]

\* Mutant: any later version may follow the current one.
MayFollowLater(q) == q.expected = CurrentVersion(q.project) /\ q.version > q.expected
MayFollow(q) == q.expected = CurrentVersion(q.project) /\ q.version = q.expected + 1

SaveSection(t) ==
  LET q == call[t].request
      saved == MayFollow(q) /\ \A a \in StoredAt(q.draft, q.version) : Splits(a.text)
  IN /\ At(t, "attach", "checked") /\ Unlocked
     /\ IF saved
          THEN /\ sections' = [sections EXCEPT ![q.project] = sections[q.project]
                                 \cup {RowFor(a) : a \in StoredAt(q.draft, q.version)}]
               /\ Answered(t, "saved")
          ELSE Answered(t, IF MayFollow(q) THEN "refused" ELSE "conflict") /\ UNCHANGED sections
     /\ UNCHANGED <<created, outline, receipts, artifacts, world, client, gestures, faults>>

\* prepare_revision: all that follows the read of the section depends on that read,
\* the revision's name included, so storing it is idempotent and the step is one.
PrepareRevision(t) ==
  LET q == call[t].request
      now == Current(q.project)
      ready == CurrentVersion(q.project) = q.expected /\ Available(now.draft, now.version)
      revision == [project |-> q.project, draft |-> now.draft, base |-> now.version,
                   para |-> q.para, before |-> now.text[q.para], after |-> q.after]
  IN /\ At(t, "preview", "asked") /\ Unlocked
     /\ call' = [call EXCEPT ![t].stage = "answered",
                             ![t].code = IF ready THEN "saved" ELSE "conflict",
                             ![t].preview = IF ready THEN revision ELSE None]
     /\ UNCHANGED <<store, artifacts, world, client, gestures, faults>>

\* apply_revision, when the operation has its receipt: the payload decides.
ReplayReceipt(t) ==
  LET q == call[t].request
      same == \A k \in ReceiptsOf(q.op) : k.project = q.project /\ k.revision = q.revision
  IN /\ At(t, "apply", "checked") /\ Unlocked
     /\ ReceiptsOf(q.op) # {}
     /\ Answered(t, IF same THEN "replayed" ELSE "conflict")
     /\ UNCHANGED <<store, artifacts, world, client, gestures, faults>>

RefuseRevision(t) ==
  LET q == call[t].request
  IN /\ At(t, "apply", "checked") /\ Unlocked
     /\ ReceiptsOf(q.op) = {}
     /\ ~Applicable(q.project, q.revision)
     /\ Answered(t, "conflict")
     /\ UNCHANGED <<store, artifacts, world, client, gestures, faults>>

\* Mutant: a version that exists is refused whatever it holds.
AcceptsNew(a) == StoredAt(a.draft, a.version) = {}
\* put: a version that exists is accepted when its content hash is the same.
Accepts(a) == \A b \in StoredAt(a.draft, a.version) : b = a

\* The result is committed to the artifact store, on a connection of its own.
PutResult(t) ==
  LET q == call[t].request
      result == Result(q.project, q.revision)
  IN /\ At(t, "apply", "checked") /\ Unlocked
     /\ ReceiptsOf(q.op) = {}
     /\ Applicable(q.project, q.revision)
     /\ IF Accepts(result)
          THEN artifacts' = artifacts \cup {result} /\ Moved(t, "stored")
          ELSE Answered(t, "taken") /\ UNCHANGED artifacts
     /\ UNCHANGED <<store, world, client, gestures, faults>>

\* The section and the receipt are committed together, or the section does not come
\* apart into its paragraphs again and nothing is.
CommitRevision(t) ==
  LET q == call[t].request
      result == Result(q.project, q.revision)
  IN /\ At(t, "apply", "stored")
     /\ IF Splits(result.text)
          THEN /\ sections' = [sections EXCEPT ![q.project] = sections[q.project] \cup {RowFor(result)}]
               /\ receipts' = receipts \cup {[op |-> q.op, project |-> q.project,
                                              revision |-> q.revision,
                                              version |-> result.version]}
               /\ Answered(t, "saved")
          ELSE Answered(t, "refused") /\ UNCHANGED <<sections, receipts>>
     /\ UNCHANGED <<created, outline, artifacts, world, client, gestures, faults>>

-----------------------------------------------------------------------------
(* What happens around it. *)

Fault == faults < MaxFaults /\ faults' = faults + 1

\* The memory is deleted or disabled in the memory page.
Forget ==
  /\ ~forgotten /\ forgotten' = TRUE
  /\ Fault
  /\ UNCHANGED <<store, artifacts, revoked, client, call, gestures>>
\* The scheduler revokes what a cancelled attempt of the agent wrote.
Revoke(d) ==
  /\ d \in Cancelled \ revoked /\ revoked' = revoked \cup {d}
  /\ Fault
  /\ UNCHANGED <<store, artifacts, forgotten, client, call, gestures>>
\* The service stops and starts again: calls fail, panels keep their previews.
Crash ==
  /\ Fault
  /\ \E t \in Threads : call[t] # None
  /\ call' = [t \in Threads |-> None]
  /\ UNCHANGED <<store, artifacts, world, client, gestures>>

Next ==
  \/ \E t \in Threads, w \in Windows :
       AskAttach(t, w) \/ AskPreview(t, w) \/ AskApply(t, w)
  \/ \E w \in Windows : Cancel(w) \/ Leave(w)
  \/ \E t \in Threads :
       \/ CheckArtifact(t) \/ SaveSection(t) \/ PrepareRevision(t)
       \/ ReplayReceipt(t) \/ RefuseRevision(t) \/ PutResult(t) \/ CommitRevision(t)
       \/ ShowAnswer(t)
  \/ \E p \in Projects : Create(p) \/ SaveOutline(p)
  \/ Forget \/ (\E d \in Drafts : Revoke(d)) \/ Crash

Spec == Init /\ [][Next]_vars

-----------------------------------------------------------------------------
(* Properties. *)

TextAt(p, v) ==
  IF \E s \in sections[p] : s.version = v
    THEN (CHOOSE s \in sections[p] : s.version = v).text ELSE None
History == [p \in Projects |-> [v \in 1 .. CurrentVersion(p) |-> TextAt(p, v)]]
Done == [o \in Operations |-> {<<k.project, k.version>> : k \in ReceiptsOf(o)}]

Promise == INSTANCE ManuscriptHistory WITH history <- History, done <- Done
\* The service keeps the history it promises: versions follow one another without a
\* gap, none is ever rewritten, an operation brings about one version and its receipt
\* in one step, whatever two windows, retries and restarts do.
ImplementsHistory == Promise!Spec

\* What was applied is what was reviewed: the version an operation brought about
\* is the version its preview was made on, with the paragraph shown before replaced by
\* the text shown after, even where the panel sent the preview to another project.
ReviewedIsWhatApplies ==
  \A k \in receipts :
    LET r == k.revision
    IN /\ k.version = r.base + 1
       /\ k.version \in 2 .. CurrentVersion(k.project)
       /\ TextAt(k.project, r.base)[r.para] = r.before
       /\ TextAt(k.project, k.version) = [TextAt(k.project, r.base) EXCEPT ![r.para] = r.after]

\* What an apply that finds the next version of its artifact taken has met.
MeetsAnotherRevision ==
  \A t \in Threads :
    (At(t, "apply", "checked") /\ At(t, "apply", "answered")' /\ call'[t].code = "taken") =>
      \E a \in artifacts :
        /\ a.draft = Current(call[t].request.project).draft
        /\ a.version = call[t].request.revision.base + 1
        /\ a.by # call[t].request.revision
\* An apply that finds the next version of its artifact taken meets the result of
\* another revision: what an earlier attempt of the same revision left behind, when the
\* service stopped before the receipt, never blocks the retry.
OwnOrphanNeverBlocks == [][MeetsAnotherRevision]_vars

\* An apply whose version, paragraph and memory are current is given its receipt.
CurrentRevisionApplies ==
  [][\A t \in Threads :
       LET q == call[t].request
       IN (/\ At(t, "apply", "checked") \/ At(t, "apply", "stored")
           /\ ReceiptsOf(q.op) = {} /\ Applicable(q.project, q.revision)
           /\ call'[t] # None /\ call'[t].stage = "answered")
          => \E k \in receipts' : k.op = q.op]_vars
=============================================================================
