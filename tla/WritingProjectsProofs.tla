------------------------ MODULE WritingProjectsProofs ------------------------
(***************************************************************************)
(* ReviewedIsWhatApplies, OwnOrphanNeverBlocks and ImplementsHistory of    *)
(* WritingProjects, for every set of windows, threads, projects and drafts,*)
(* and for any number of versions and operations.  The invariant adds      *)
(* what the service's lock and the artifact store's key give: the versions *)
(* of a section are 1 .. n, keys are unique, and the one call that holds   *)
(* the lock still meets the section it checked.                            *)
(***************************************************************************)
EXTENDS WritingProjects, SequenceTheorems, TLAPS

\* The rows of a section with the versions 1 .. n.
Numbered(S, n) ==
  /\ S \subseteq Rows
  /\ \A s \in S : s.version \in 1 .. n
  /\ \A v \in 1 .. n : \E s \in S : s.version = v
  /\ \A s, q \in S : s.version = q.version => s = q

Top(S) == CHOOSE s \in S : \A q \in S : q.version <= s.version
Size(S) == IF S = {} THEN 0 ELSE Top(S).version
Text(S, v) ==
  IF \E s \in S : s.version = v THEN (CHOOSE s \in S : s.version = v).text ELSE None

SectionsNumbered == \A p \in Projects : \E n \in 0 .. MaxVersion : Numbered(sections[p], n)

\* A version of an artifact has one content, and an operation one receipt.
KeysAreUnique ==
  /\ \A a, b \in artifacts : a.draft = b.draft /\ a.version = b.version => a = b
  /\ \A j, k \in receipts : j.op = k.op => j = k

\* The call that holds the lock still meets what it checked.
Holds(t) == At(t, "apply", "stored")
LockHolds ==
  /\ \A t, u \in Threads : Holds(t) /\ Holds(u) => t = u
  /\ \A t \in Threads : Holds(t) =>
       /\ ReceiptsOf(call[t].request.op) = {}
       /\ Fits(call[t].request.project, call[t].request.revision)
       /\ Result(call[t].request.project, call[t].request.revision) \in artifacts

\* Rows are copies of artifacts, and an artifact past the first version is the one
\* before it with the paragraph of its revision replaced.
Copies(s) ==
  \E a \in artifacts : a.draft = s.draft /\ a.version = s.version /\ a.text = s.text
Derived(a) ==
  \E b \in artifacts : /\ b.draft = a.draft /\ b.version + 1 = a.version
                      /\ a.text = [b.text EXCEPT ![a.by.para] = a.by.after]
Provenance ==
  /\ \A p \in Projects : \A s \in sections[p] : Copies(s)
  /\ \A a \in artifacts : a.version # 1 => Derived(a)

WritingInvariant ==
  /\ TypeOK /\ SectionsNumbered /\ KeysAreUnique /\ LockHolds /\ Provenance
  /\ ReviewedIsWhatApplies

-----------------------------------------------------------------------------
(* Sections. *)

LEMMA TopOf ==
  ASSUME NEW S, NEW n \in Nat, Numbered(S, n)
  PROVE  /\ Size(S) = n
         /\ S = {} <=> n = 0
         /\ S # {} => Top(S) \in S /\ Top(S).version = n
  <1>1. CASE n = 0
    BY <1>1 DEF Numbered, Size
  <1>2. CASE n # 0
    <2>1. n \in 1 .. n
      BY <1>2
    <2>2. PICK s \in S : s.version = n
      BY <2>1 DEF Numbered
    <2>3. \A q \in S : q.version <= s.version
      BY <2>2 DEF Numbered
    <2>4. Top(S) \in S /\ \A q \in S : q.version <= Top(S).version
      BY <2>2, <2>3 DEF Top
    <2>5. Top(S).version \in 1 .. n
      BY <2>4 DEF Numbered
    <2>6. n <= Top(S).version
      BY <2>2, <2>4
    <2>7. Top(S).version = n
      BY <2>5, <2>6
    <2> QED
      BY <1>2, <2>2, <2>4, <2>7 DEF Size
  <1> QED
    BY <1>1, <1>2

LEMMA TextOfRow ==
  ASSUME NEW S, NEW n \in Nat, Numbered(S, n), NEW s \in S
  PROVE  Text(S, s.version) = s.text
  BY DEF Numbered, Text

LEMMA TextIsManuscript ==
  ASSUME NEW S, NEW n \in Nat, Numbered(S, n), NEW v \in 1 .. n
  PROVE  Text(S, v) \in Manuscripts
  <1>1. PICK s \in S : s.version = v
    BY DEF Numbered
  <1>2. Text(S, v) = s.text
    BY <1>1, TextOfRow
  <1> QED
    BY <1>2 DEF Numbered, Rows

\* A row that continues a section changes nothing of what it held.
LEMMA RowContinues ==
  ASSUME NEW S, NEW n \in Nat, Numbered(S, n), NEW row \in Rows, row.version = n + 1
  PROVE  /\ Numbered(S \cup {row}, n + 1)
         /\ Text(S \cup {row}, n + 1) = row.text
         /\ \A v \in 1 .. n : Text(S \cup {row}, v) = Text(S, v)
  <1>1. Numbered(S \cup {row}, n + 1)
    <2>1. \A s \in S \cup {row} : s.version \in 1 .. n + 1
      BY DEF Numbered
    <2>2. \A v \in 1 .. n + 1 : \E s \in S \cup {row} : s.version = v
      <3>1. \A v \in 1 .. n + 1 : v \in 1 .. n \/ v = n + 1
        OBVIOUS
      <3> QED
        BY <3>1 DEF Numbered
    <2>3. \A s, q \in S \cup {row} : s.version = q.version => s = q
      <3>1. \A s \in S : s.version # row.version
        BY DEF Numbered
      <3> QED
        BY <3>1 DEF Numbered
    <2> QED
      BY <2>1, <2>2, <2>3 DEF Numbered
  <1>2. Text(S \cup {row}, n + 1) = row.text
    BY <1>1, TextOfRow
  <1>3. ASSUME NEW v \in 1 .. n
        PROVE  Text(S \cup {row}, v) = Text(S, v)
    <2>1. PICK s \in S : s.version = v
      BY DEF Numbered
    <2>2. Text(S \cup {row}, v) = s.text
      BY <1>1, <2>1, TextOfRow
    <2>3. Text(S, v) = s.text
      BY <2>1, TextOfRow
    <2> QED
      BY <2>2, <2>3
  <1> QED
    BY <1>1, <1>2, <1>3

-----------------------------------------------------------------------------
(* Types. *)

ApplyRequests == [kind : {"apply"}, project : Projects, revision : Revisions, op : Operations]
AttachRequests == [kind : {"attach"}, project : Projects, draft : Drafts, version : Versions,
                   expected : 0 .. MaxVersion]
PreviewRequests == [kind : {"preview"}, project : Projects, expected : BaseVersions,
                    para : Paragraphs, after : Replacements, op : Operations]

LEMMA RequestKinds ==
  /\ Requests = AttachRequests \cup PreviewRequests \cup ApplyRequests
  /\ \A q \in Requests : q.kind = "apply" => q \in ApplyRequests
  /\ \A q \in Requests : q.kind = "attach" => q \in AttachRequests
  /\ \A q \in Requests : q.kind = "preview" => q \in PreviewRequests
  BY DEF Requests, AttachRequests, PreviewRequests, ApplyRequests

LEMMA RequestAt ==
  ASSUME TypeOK, NEW t \in Threads, NEW kind, NEW stage, At(t, kind, stage)
  PROVE  /\ call[t] \in Calls /\ call[t].request \in Requests
         /\ kind = "apply" => call[t].request \in ApplyRequests
         /\ kind = "attach" => call[t].request \in AttachRequests
         /\ kind = "preview" => call[t].request \in PreviewRequests
  <1>1. call[t] \in Calls
    BY DEF TypeOK, At
  <1>2. call[t].request \in Requests
    BY <1>1 DEF Calls
  <1> QED
    BY <1>1, <1>2, RequestKinds DEF At

\* What a call may become.
LEMMA MovedIsCall ==
  ASSUME TypeOK, NEW t \in Threads, call[t] # None, NEW stage \in Stages, Moved(t, stage)
  PROVE  call' \in [Threads -> Calls \cup {None}]
  <1>1. call[t] \in Calls
    BY DEF TypeOK
  <1>2. [call[t] EXCEPT !.stage = stage] \in Calls
    BY <1>1 DEF Calls
  <1> QED
    BY <1>2 DEF TypeOK, Moved

LEMMA AnsweredIsCall ==
  ASSUME TypeOK, NEW t \in Threads, call[t] # None, NEW code \in Codes, Answered(t, code)
  PROVE  call' \in [Threads -> Calls \cup {None}]
  <1>1. call[t] \in Calls
    BY DEF TypeOK
  <1>2. [call[t] EXCEPT !.stage = "answered", !.code = code] \in Calls
    BY <1>1 DEF Calls, Stages
  <1>3. call' = [call EXCEPT ![t] = None]
        \/ call' = [call EXCEPT ![t] = [call[t] EXCEPT !.stage = "answered", !.code = code]]
    BY DEF Answered, TypeOK
  <1> QED
    BY <1>2, <1>3 DEF TypeOK

LEMMA CurrentIs ==
  ASSUME TypeOK, SectionsNumbered, NEW p \in Projects
  PROVE  /\ CurrentVersion(p) \in 0 .. MaxVersion
         /\ Numbered(sections[p], CurrentVersion(p))
         /\ sections[p] = {} <=> CurrentVersion(p) = 0
         /\ sections[p] # {} => /\ Current(p) \in sections[p] /\ Current(p) \in Rows
                               /\ Current(p).version = CurrentVersion(p)
  <1>1. PICK n \in 0 .. MaxVersion : Numbered(sections[p], n)
    BY DEF SectionsNumbered
  <1>2. n \in Nat
    BY <1>1
  <1>3. Current(p) = Top(sections[p]) /\ CurrentVersion(p) = Size(sections[p])
    BY DEF Current, Top, CurrentVersion, Size
  <1>4. sections[p] \subseteq Rows
    BY DEF TypeOK
  <1> QED
    BY <1>1, <1>2, <1>3, <1>4, TopOf

LEMMA ResultIsArtifact ==
  ASSUME TypeOK, SectionsNumbered, NEW p \in Projects, NEW r \in Revisions, Fits(p, r)
  PROVE  /\ Result(p, r) \in Artifacts /\ Result(p, r).version = CurrentVersion(p) + 1
         /\ Result(p, r).version \in Versions
         /\ RowFor(Result(p, r)) \in Rows /\ RowFor(Result(p, r)).version = CurrentVersion(p) + 1
         /\ r.base = CurrentVersion(p)
         /\ RowFor(Result(p, r)).text = [Current(p).text EXCEPT ![r.para] = r.after]
  <1>1. /\ Current(p) \in Rows /\ Current(p).version = CurrentVersion(p)
        /\ CurrentVersion(p) = r.base
    BY CurrentIs DEF Fits
  <1>2. /\ Current(p).draft \in Drafts /\ Current(p).text \in Manuscripts
        /\ r.para \in Paragraphs /\ r.after \in Texts /\ r.base \in BaseVersions
    BY <1>1 DEF Rows, Revisions, Texts
  <1>3. [Current(p).text EXCEPT ![r.para] = r.after] \in Manuscripts
    BY <1>2 DEF Manuscripts
  <1>4. r.base + 1 \in Versions
    BY <1>2, WritingAssumption DEF BaseVersions, Versions
  <1> QED
    BY <1>1, <1>2, <1>3, <1>4 DEF Result, RowFor, Artifacts, Rows

LEMMA InitTyped == Init => TypeOK
  <1> SUFFICES ASSUME Init PROVE TypeOK
    OBVIOUS
  <1>1. artifacts \subseteq Artifacts
    <2>1. 1 \in Versions
      BY WritingAssumption DEF Versions
    <2>2. ASSUME NEW d \in Drafts
          PROVE  [draft |-> d, version |-> 1, text |-> [x \in Paragraphs |-> d], by |-> None]
                   \in Artifacts
      <3>1. d \in Texts
        BY DEF Texts
      <3>2. [x \in Paragraphs |-> d] \in [Paragraphs -> Texts]
        BY <3>1
      <3> QED
        BY <2>1, <3>2 DEF Artifacts, Manuscripts
    <2>3. ASSUME NEW a \in artifacts
          PROVE  a \in Artifacts
      <3>1. PICK d \in Drafts : a = [draft |-> d, version |-> 1,
                                    text |-> [x \in Paragraphs |-> d], by |-> None]
        BY DEF Init
      <3> QED
        BY <2>2, <3>1
    <2> QED
      BY <2>3
  <1>2. /\ created \subseteq Projects /\ outline \in [Projects -> Nat]
        /\ sections \in [Projects -> SUBSET Rows] /\ receipts \subseteq Receipts
        /\ revoked \subseteq Cancelled /\ forgotten \in BOOLEAN
    BY DEF Init
  <1>3. call \in [Threads -> Calls \cup {None}]
    BY DEF Init
  <1>4. panel \in [Windows -> [preview : Revisions, op : Operations] \cup {NoPreview}]
    BY DEF Init
  <1>5. issued \in 0 .. MaxOps /\ gestures \in 0 .. MaxGestures /\ faults \in 0 .. MaxFaults
    BY WritingAssumption DEF Init
  <1> QED
    BY <1>1, <1>2, <1>3, <1>4, <1>5 DEF TypeOK

LEMMA AskedIsCall ==
  ASSUME TypeOK, NEW t \in Threads, NEW w \in Windows, NEW request \in Requests,
         Ask(t, w, request)
  PROVE  /\ call' \in [Threads -> Calls \cup {None}]
         /\ gestures' \in 0 .. MaxGestures
  <1>1. [stage |-> "asked", window |-> w, request |-> request, code |-> None, preview |-> None]
          \in Calls
    BY DEF Calls, Stages
  <1> QED
    BY <1>1, WritingAssumption DEF Ask, Gesture, TypeOK

LEMMA AskTyped ==
  ASSUME TypeOK, NEW t \in Threads, NEW w \in Windows,
         AskAttach(t, w) \/ AskPreview(t, w) \/ AskApply(t, w)
  PROVE  TypeOK'
  <1>1. CASE AskAttach(t, w)
    <2>1. PICK p \in created, a \in artifacts : \E e \in 0 .. a.version - 1 :
            Ask(t, w, [kind |-> "attach", project |-> p, draft |-> a.draft,
                       version |-> a.version, expected |-> e])
      BY <1>1 DEF AskAttach
    <2>2. PICK e \in 0 .. a.version - 1 :
            Ask(t, w, [kind |-> "attach", project |-> p, draft |-> a.draft,
                       version |-> a.version, expected |-> e])
      BY <2>1
    <2>3. p \in Projects /\ a.draft \in Drafts /\ a.version \in Versions
      BY DEF TypeOK, Artifacts
    <2>4. e \in 0 .. MaxVersion
      BY <2>2, <2>3, WritingAssumption DEF Versions
    <2>5. [kind |-> "attach", project |-> p, draft |-> a.draft,
           version |-> a.version, expected |-> e] \in Requests
      BY <2>3, <2>4 DEF Requests
    <2>6. call' \in [Threads -> Calls \cup {None}] /\ gestures' \in 0 .. MaxGestures
      BY <2>2, <2>5, AskedIsCall
    <2> QED
      BY <1>1, <2>2, <2>6 DEF AskAttach, Ask, TypeOK, store, world
  <1>2. CASE AskPreview(t, w)
    <2>1. PICK p \in created, x \in Paragraphs, after \in Replacements : \E s \in sections[p] :
            /\ s.version \in BaseVersions
            /\ Ask(t, w, [kind |-> "preview", project |-> p, expected |-> s.version,
                          para |-> x, after |-> after, op |-> issued + 1])
      BY <1>2 DEF AskPreview
    <2>2. PICK s \in sections[p] :
            /\ s.version \in BaseVersions
            /\ Ask(t, w, [kind |-> "preview", project |-> p, expected |-> s.version,
                          para |-> x, after |-> after, op |-> issued + 1])
      BY <2>1
    <2>3. p \in Projects /\ issued + 1 \in Operations /\ issued' \in 0 .. MaxOps
      BY <1>2, WritingAssumption DEF AskPreview, TypeOK, Operations
    <2>4. [kind |-> "preview", project |-> p, expected |-> s.version,
           para |-> x, after |-> after, op |-> issued + 1] \in Requests
      BY <2>2, <2>3 DEF Requests
    <2>5. call' \in [Threads -> Calls \cup {None}] /\ gestures' \in 0 .. MaxGestures
      BY <2>2, <2>4, AskedIsCall
    <2> QED
      BY <2>2, <2>3, <2>5 DEF Ask, TypeOK, store, world
  <1>3. CASE AskApply(t, w)
    <2>1. PICK p \in created :
            Ask(t, w, [kind |-> "apply", project |-> p, revision |-> panel[w].preview,
                       op |-> panel[w].op])
      BY <1>3 DEF AskApply
    <2>2. p \in Projects /\ panel[w].preview \in Revisions /\ panel[w].op \in Operations
      BY <1>3 DEF AskApply, TypeOK, NoPreview
    <2>3. [kind |-> "apply", project |-> p, revision |-> panel[w].preview,
           op |-> panel[w].op] \in Requests
      BY <2>2 DEF Requests
    <2>4. call' \in [Threads -> Calls \cup {None}] /\ gestures' \in 0 .. MaxGestures
      BY <2>1, <2>3, AskedIsCall
    <2> QED
      BY <1>3, <2>1, <2>4 DEF AskApply, Ask, TypeOK, store, world
  <1> QED
    BY <1>1, <1>2, <1>3

LEMMA LeaveTyped ==
  ASSUME TypeOK, NEW w \in Windows, Cancel(w) \/ Leave(w)
  PROVE  TypeOK'
  <1>1. panel' \in [Windows -> [preview : Revisions, op : Operations] \cup {NoPreview}]
    BY DEF TypeOK, Cancel, Leave
  <1>2. gestures' \in 0 .. MaxGestures
    BY WritingAssumption DEF TypeOK, Cancel, Leave, Gesture
  <1>3. call' \in [Threads -> Calls \cup {None}]
    <2>1. ASSUME NEW t \in Threads, call[t] # None
          PROVE  [call[t] EXCEPT !.window = None] \in Calls
      <3>1. call[t] \in Calls
        BY <2>1 DEF TypeOK
      <3> QED
        BY <3>1 DEF Calls
    <2>2. Detached(w) \in [Threads -> Calls \cup {None}]
      BY <2>1 DEF Detached, TypeOK
    <2> QED
      BY <2>2 DEF Cancel, Leave, TypeOK
  <1> QED
    BY <1>1, <1>2, <1>3 DEF TypeOK, Cancel, Leave, store, world

LEMMA ShowAnswerTyped ==
  ASSUME TypeOK, NEW t \in Threads, ShowAnswer(t)
  PROVE  TypeOK'
  <1>1. call[t] \in Calls
    BY DEF ShowAnswer, TypeOK
  <1>2. ASSUME call[t].window # None, call[t].preview # None
        PROVE  /\ call[t].window \in Windows /\ call[t].preview \in Revisions
               /\ call[t].request.op \in Operations
    <2>1. call[t].request \in PreviewRequests
      BY <1>1, <1>2, RequestKinds DEF Calls
    <2> QED
      BY <1>1, <1>2, <2>1 DEF Calls, PreviewRequests
  <1>3. panel' \in [Windows -> [preview : Revisions, op : Operations] \cup {NoPreview}]
    BY <1>2 DEF ShowAnswer, TypeOK
  <1>4. call' \in [Threads -> Calls \cup {None}]
    BY DEF ShowAnswer, TypeOK
  <1> QED
    BY <1>3, <1>4 DEF ShowAnswer, TypeOK, store, world

LEMMA SmallStepsTyped ==
  ASSUME TypeOK,
         \/ \E p \in Projects : Create(p) \/ SaveOutline(p)
         \/ Forget \/ (\E d \in Drafts : Revoke(d)) \/ Crash
  PROVE  TypeOK'
  <1>1. ASSUME NEW p \in Projects, Create(p)
        PROVE  TypeOK'
    BY <1>1 DEF Create, TypeOK, world, client
  <1>2. ASSUME NEW p \in Projects, SaveOutline(p)
        PROVE  TypeOK'
    <2>2. outline' \in [Projects -> Nat] /\ gestures' \in 0 .. MaxGestures
      BY <1>2, WritingAssumption DEF SaveOutline, Gesture, TypeOK
    <2> QED
      BY <1>2, <2>2 DEF SaveOutline, TypeOK, world, client
  <1>3. CASE Forget \/ Crash \/ \E d \in Drafts : Revoke(d)
    <2>1. faults' \in 0 .. MaxFaults
      BY <1>3, WritingAssumption DEF Forget, Crash, Revoke, Fault, TypeOK
    <2> QED
      BY <1>3, <2>1 DEF Forget, Crash, Revoke, TypeOK, store, world, client
  <1> QED
    BY <1>1, <1>2, <1>3

\* Steps of a call that leave the store alone.
LEMMA CheckTyped ==
  ASSUME TypeOK, NEW t \in Threads,
         CheckArtifact(t) \/ ReplayReceipt(t) \/ RefuseRevision(t)
  PROVE  TypeOK'
  <1>1. call[t] # None
    BY DEF CheckArtifact, ReplayReceipt, RefuseRevision, At
  <1>2. \/ Moved(t, "checked")
        \/ \E code \in Codes : Answered(t, code)
    BY DEF CheckArtifact, ReplayReceipt, RefuseRevision, Codes
  <1>3. call' \in [Threads -> Calls \cup {None}]
    BY <1>1, <1>2, MovedIsCall, AnsweredIsCall DEF Stages
  <1> QED
    BY <1>3 DEF CheckArtifact, ReplayReceipt, RefuseRevision, TypeOK, store, world, client

LEMMA PrepareTyped ==
  ASSUME TypeOK, SectionsNumbered, NEW t \in Threads, PrepareRevision(t)
  PROVE  TypeOK'
  <1> DEFINE q == call[t].request
             now == Current(q.project)
             revision == [project |-> q.project, draft |-> now.draft, base |-> now.version,
                          para |-> q.para, before |-> now.text[q.para], after |-> q.after]
  <1>1. /\ call[t] \in Calls /\ call[t].request \in PreviewRequests
        /\ call[t] # None /\ call[t].request.kind = "preview"
    BY RequestAt DEF PrepareRevision, At
  <1>2. ASSUME CurrentVersion(q.project) = q.expected
        PROVE  revision \in Revisions
    <2>1. /\ q.project \in Projects /\ q.expected \in BaseVersions /\ q.para \in Paragraphs
          /\ q.after \in Replacements
      BY <1>1 DEF PreviewRequests
    <2>2. sections[q.project] # {} /\ now \in Rows /\ now.version = q.expected
      BY <1>2, <2>1, CurrentIs DEF BaseVersions
    <2>3. now.draft \in Drafts /\ now.text[q.para] \in Texts
      BY <2>1, <2>2 DEF Rows, Manuscripts
    <2> QED
      BY <2>1, <2>2, <2>3 DEF Revisions
  <1>3. PICK preview \in Revisions \cup {None}, code \in Codes :
          call' = [call EXCEPT ![t] = [call[t] EXCEPT !.stage = "answered", !.code = code,
                                                      !.preview = preview]]
    <2>1. CASE CurrentVersion(q.project) = q.expected /\ Available(now.draft, now.version)
      BY <1>2, <2>1 DEF PrepareRevision, Codes, TypeOK
    <2>2. CASE ~(CurrentVersion(q.project) = q.expected /\ Available(now.draft, now.version))
      BY <2>2 DEF PrepareRevision, Codes, TypeOK
    <2> QED
      BY <2>1, <2>2
  <1>4. [call[t] EXCEPT !.stage = "answered", !.code = code, !.preview = preview] \in Calls
    BY <1>1, <1>3 DEF Calls, Stages
  <1>5. call' \in [Threads -> Calls \cup {None}]
    BY <1>3, <1>4 DEF TypeOK
  <1> QED
    BY <1>5 DEF PrepareRevision, TypeOK, store, world, client

-----------------------------------------------------------------------------
(* Rows. *)

Continues(p, row) ==
  /\ row \in Rows /\ row.version = CurrentVersion(p) + 1
  /\ sections' = [sections EXCEPT ![p] = sections[p] \cup {row}]

LEMMA RowAdded ==
  ASSUME TypeOK, SectionsNumbered, NEW p \in Projects, NEW row, Continues(p, row)
  PROVE  /\ sections' \in [Projects -> SUBSET Rows] /\ SectionsNumbered'
         /\ CurrentVersion(p)' = CurrentVersion(p) + 1
         /\ TextAt(p, row.version)' = row.text
         /\ \A v \in 1 .. CurrentVersion(p) : TextAt(p, v)' = TextAt(p, v)
         /\ \A o \in Projects \ {p} : /\ CurrentVersion(o)' = CurrentVersion(o)
                                     /\ \A v : TextAt(o, v)' = TextAt(o, v)
  <1> DEFINE n == CurrentVersion(p)
             S == sections[p]
  <1>1. /\ n \in Nat /\ Numbered(S, n) /\ row \in Rows /\ row.version = n + 1
        /\ n + 1 \in 0 .. MaxVersion
    <2>1. n \in 0 .. MaxVersion /\ Numbered(S, n)
      BY CurrentIs
    <2>2. row \in Rows /\ row.version = n + 1 /\ row.version \in Versions
      BY DEF Continues, Rows
    <2> QED
      BY <2>1, <2>2, WritingAssumption DEF Versions
  <1>2. sections'[p] = S \cup {row} /\ \A o \in Projects \ {p} : sections'[o] = sections[o]
    BY DEF Continues, TypeOK
  <1>3. sections' \in [Projects -> SUBSET Rows]
    BY DEF Continues, TypeOK
  <1>4. /\ Numbered(S \cup {row}, n + 1) /\ Text(S \cup {row}, n + 1) = row.text
        /\ \A v \in 1 .. n : Text(S \cup {row}, v) = Text(S, v)
    BY <1>1, RowContinues
  <1>5. Size(S \cup {row}) = n + 1
    BY <1>1, <1>4, TopOf
  <1>6. CurrentVersion(p)' = n + 1
    BY <1>2, <1>5 DEF CurrentVersion, Current, Size, Top
  <1>7. /\ TextAt(p, row.version)' = row.text
        /\ \A v \in 1 .. n : TextAt(p, v)' = TextAt(p, v)
    BY <1>1, <1>2, <1>4 DEF TextAt, Text
  <1>8. ASSUME NEW o \in Projects \ {p}
        PROVE  /\ CurrentVersion(o)' = CurrentVersion(o)
               /\ \A v : TextAt(o, v)' = TextAt(o, v)
    <2>1. sections'[o] = sections[o]
      BY <1>2
    <2>2. CurrentVersion(o)' = CurrentVersion(o)
      BY <2>1 DEF CurrentVersion, Current
    <2>3. ASSUME NEW v
          PROVE  TextAt(o, v)' = TextAt(o, v)
      BY <2>1 DEF TextAt
    <2> QED
      BY <2>2, <2>3
  <1>9. SectionsNumbered'
    <2> SUFFICES ASSUME NEW o \in Projects
                 PROVE  \E m \in 0 .. MaxVersion : Numbered(sections'[o], m)
      BY DEF SectionsNumbered, Numbered
    <2>1. CASE o = p
      <3>1. n + 1 \in 0 .. MaxVersion
        BY <1>1
      <3> QED
        BY <1>2, <1>4, <2>1, <3>1
    <2>2. CASE o # p
      BY <1>2, <2>2 DEF SectionsNumbered
    <2> QED
      BY <2>1, <2>2
  <1> QED
    BY <1>3, <1>6, <1>7, <1>8, <1>9

LEMMA SaveSectionAdds ==
  ASSUME TypeOK, SectionsNumbered, KeysAreUnique, NEW t \in Threads, SaveSection(t)
  PROVE  \/ UNCHANGED sections
         \/ \E p \in Projects, row \in Rows : Continues(p, row) /\ Copies(row)
  <1> DEFINE q == call[t].request
  <1>1. q \in AttachRequests
    BY RequestAt DEF SaveSection
  <1>2. q.project \in Projects /\ q.version \in Versions
    BY <1>1 DEF AttachRequests
  <1>3. CASE StoredAt(q.draft, q.version) = {}
    <2>1. {RowFor(a) : a \in StoredAt(q.draft, q.version)} = {}
      BY <1>3
    <2>2. [sections EXCEPT ![q.project] = sections[q.project] \cup {}] = sections
      BY <1>2 DEF TypeOK
    <2> QED
      BY <2>1, <2>2 DEF SaveSection
  <1>4. CASE StoredAt(q.draft, q.version) # {}
    <2>1. PICK a \in StoredAt(q.draft, q.version) : TRUE
      BY <1>4
    <2>2. StoredAt(q.draft, q.version) = {a}
      BY <2>1 DEF StoredAt, KeysAreUnique
    <2>3. {RowFor(b) : b \in StoredAt(q.draft, q.version)} = {RowFor(a)}
      BY <2>2
    <2>4. a \in Artifacts /\ a.version = q.version
      BY <2>1 DEF StoredAt, TypeOK
    <2>5. RowFor(a) \in Rows /\ RowFor(a).version = q.version
      BY <2>4 DEF RowFor, Rows, Artifacts
    <2>8. Copies(RowFor(a))
      BY <2>1 DEF RowFor, Copies, StoredAt
    <2>6. CASE MayFollow(q) /\ \A b \in StoredAt(q.draft, q.version) : Splits(b.text)
      <3>1. Continues(q.project, RowFor(a))
        BY <2>3, <2>5, <2>6 DEF SaveSection, Continues, MayFollow
      <3> QED
        BY <1>2, <2>5, <2>8, <3>1
    <2>7. CASE ~(MayFollow(q) /\ \A b \in StoredAt(q.draft, q.version) : Splits(b.text))
      BY <2>7 DEF SaveSection
    <2> QED
      BY <2>6, <2>7
  <1> QED
    BY <1>3, <1>4

\* What a commit writes, when it writes.
Commits(t) ==
  LET q == call[t].request
      result == Result(q.project, q.revision)
  IN /\ Continues(q.project, RowFor(result))
     /\ receipts' = receipts \cup {[op |-> q.op, project |-> q.project,
                                    revision |-> q.revision, version |-> result.version]}

LEMMA CommitAdds ==
  ASSUME TypeOK, SectionsNumbered, LockHolds, NEW t \in Threads, CommitRevision(t)
  PROVE  /\ call[t].request \in ApplyRequests
         /\ ReceiptsOf(call[t].request.op) = {}
         /\ Fits(call[t].request.project, call[t].request.revision)
         /\ UNCHANGED <<sections, receipts>> \/ Commits(t)
  <1> DEFINE q == call[t].request
             result == Result(q.project, q.revision)
  <1>1. /\ q \in ApplyRequests /\ Holds(t)
        /\ ReceiptsOf(q.op) = {} /\ Fits(q.project, q.revision)
    BY RequestAt DEF CommitRevision, LockHolds, Holds
  <1>2. q.project \in Projects /\ q.revision \in Revisions
    BY <1>1 DEF ApplyRequests
  <1>3. /\ RowFor(result) \in Rows
        /\ RowFor(result).version = CurrentVersion(q.project) + 1
    BY <1>1, <1>2, ResultIsArtifact
  <1>4. UNCHANGED <<sections, receipts>> \/ Commits(t)
    BY <1>3 DEF CommitRevision, Commits, Continues
  <1> QED
    BY <1>1, <1>4

LEMMA SaveSectionTyped ==
  ASSUME TypeOK, SectionsNumbered, KeysAreUnique, NEW t \in Threads, SaveSection(t)
  PROVE  TypeOK'
  <1>1. sections' \in [Projects -> SUBSET Rows]
    BY SaveSectionAdds, RowAdded DEF TypeOK
  <1>2. call[t] # None /\ \E code \in Codes : Answered(t, code)
    BY DEF SaveSection, At, Codes
  <1>3. call' \in [Threads -> Calls \cup {None}]
    BY <1>2, AnsweredIsCall
  <1> QED
    BY <1>1, <1>3 DEF SaveSection, TypeOK, world, client

LEMMA PutTyped ==
  ASSUME TypeOK, SectionsNumbered, NEW t \in Threads, PutResult(t)
  PROVE  TypeOK'
  <1> DEFINE q == call[t].request
  <1>1. q \in ApplyRequests /\ call[t] # None
    BY RequestAt DEF PutResult, At
  <1>2. Result(q.project, q.revision) \in Artifacts
    BY <1>1, ResultIsArtifact DEF PutResult, Applicable, ApplyRequests
  <1>3. artifacts' \subseteq Artifacts
    BY <1>2 DEF PutResult, TypeOK
  <1>4. Moved(t, "stored") \/ \E code \in Codes : Answered(t, code)
    BY DEF PutResult, Codes
  <1>5. call' \in [Threads -> Calls \cup {None}]
    BY <1>1, <1>4, MovedIsCall, AnsweredIsCall DEF Stages
  <1> QED
    BY <1>3, <1>5 DEF PutResult, TypeOK, store, world, client

LEMMA CommitTyped ==
  ASSUME TypeOK, SectionsNumbered, LockHolds, NEW t \in Threads, CommitRevision(t)
  PROVE  TypeOK'
  <1> DEFINE q == call[t].request
  <1>1. /\ q \in ApplyRequests /\ Fits(q.project, q.revision)
        /\ UNCHANGED <<sections, receipts>> \/ Commits(t)
    BY CommitAdds
  <1>2. /\ q.project \in Projects /\ q.revision \in Revisions /\ q.op \in Operations
    BY <1>1 DEF ApplyRequests
  <1>3. Result(q.project, q.revision).version \in Versions
    BY <1>1, <1>2, ResultIsArtifact
  <1>4. sections' \in [Projects -> SUBSET Rows]
    BY <1>1, <1>2, RowAdded DEF Commits, TypeOK
  <1>5. receipts' \subseteq Receipts
    BY <1>1, <1>2, <1>3 DEF Commits, Receipts, TypeOK
  <1>6. call[t] # None /\ \E code \in Codes : Answered(t, code)
    BY DEF CommitRevision, At, Codes
  <1>7. call' \in [Threads -> Calls \cup {None}]
    BY <1>6, AnsweredIsCall
  <1> QED
    BY <1>4, <1>5, <1>7 DEF CommitRevision, TypeOK, world, client

LEMMA TypeStep ==
  ASSUME WritingInvariant, [Next]_vars
  PROVE  TypeOK'
  <1> USE DEF WritingInvariant
  <1>1. ASSUME NEW t \in Threads, NEW w \in Windows,
               AskAttach(t, w) \/ AskPreview(t, w) \/ AskApply(t, w)
        PROVE  TypeOK'
    BY <1>1, AskTyped
  <1>2. ASSUME NEW w \in Windows, Cancel(w) \/ Leave(w)
        PROVE  TypeOK'
    BY <1>2, LeaveTyped
  <1>3. ASSUME NEW t \in Threads,
               CheckArtifact(t) \/ ReplayReceipt(t) \/ RefuseRevision(t)
        PROVE  TypeOK'
    BY <1>3, CheckTyped
  <1>4. ASSUME NEW t \in Threads,
               SaveSection(t) \/ PrepareRevision(t) \/ PutResult(t) \/ CommitRevision(t)
        PROVE  TypeOK'
    BY <1>4, SaveSectionTyped, PrepareTyped, PutTyped, CommitTyped
  <1>5. ASSUME NEW t \in Threads, ShowAnswer(t)
        PROVE  TypeOK'
    BY <1>5, ShowAnswerTyped
  <1>6. CASE \/ \E p \in Projects : Create(p) \/ SaveOutline(p)
             \/ Forget \/ (\E d \in Drafts : Revoke(d)) \/ Crash
    BY <1>6, SmallStepsTyped
  <1>7. CASE UNCHANGED vars
    BY <1>7 DEF vars, TypeOK
  <1> QED
    BY <1>1, <1>2, <1>3, <1>4, <1>5, <1>6, <1>7 DEF Next

-----------------------------------------------------------------------------
(* Steps by what they may change of the tables. *)

\* A call that holds the lock held it before, for the same request.
HoldersKept ==
  \A u \in Threads : Holds(u)' => Holds(u) /\ call'[u].request = call[u].request

LEMMA OtherSteps ==
  ASSUME WritingInvariant, [Next]_vars,
         \A t \in Threads : ~SaveSection(t) /\ ~PutResult(t) /\ ~CommitRevision(t)
  PROVE  UNCHANGED <<sections, receipts, artifacts>> /\ HoldersKept
  <1> USE DEF WritingInvariant
  <1>1. ASSUME NEW t \in Threads, NEW w \in Windows, NEW request, Ask(t, w, request)
        PROVE  UNCHANGED <<sections, receipts, artifacts>> /\ HoldersKept
    BY <1>1 DEF Ask, store, TypeOK, HoldersKept, Holds, At
  <1>2. ASSUME NEW t \in Threads, NEW w \in Windows,
               AskAttach(t, w) \/ AskPreview(t, w) \/ AskApply(t, w)
        PROVE  UNCHANGED <<sections, receipts, artifacts>> /\ HoldersKept
    BY <1>1, <1>2 DEF AskAttach, AskPreview, AskApply
  <1>3. ASSUME NEW w \in Windows, Cancel(w) \/ Leave(w)
        PROVE  UNCHANGED <<sections, receipts, artifacts>> /\ HoldersKept
    <2>1. ASSUME NEW u \in Threads
          PROVE  /\ Detached(w)[u] # None => call[u] # None
                 /\ call[u] # None => /\ Detached(w)[u].stage = call[u].stage
                                     /\ Detached(w)[u].request = call[u].request
      <3>1. call[u] # None => call[u] \in Calls
        BY DEF TypeOK
      <3> QED
        BY <3>1 DEF Detached, Calls
    <2> QED
      BY <1>3, <2>1 DEF Cancel, Leave, store, HoldersKept, Holds, At
  <1>4. ASSUME NEW t \in Threads,
               CheckArtifact(t) \/ ReplayReceipt(t) \/ RefuseRevision(t) \/ PrepareRevision(t)
               \/ ShowAnswer(t)
        PROVE  UNCHANGED <<sections, receipts, artifacts>> /\ HoldersKept
    <2>1. UNCHANGED <<sections, receipts, artifacts>>
      BY <1>4 DEF CheckArtifact, ReplayReceipt, RefuseRevision, PrepareRevision, ShowAnswer, store
    <2>2. ~Holds(t)'
      <3>1. call[t] \in Calls
        BY <1>4 DEF CheckArtifact, ReplayReceipt, RefuseRevision, PrepareRevision, ShowAnswer,
                    At, TypeOK
      <3> QED
        BY <1>4, <3>1 DEF CheckArtifact, ReplayReceipt, RefuseRevision, PrepareRevision,
                    ShowAnswer, Moved, Answered, Holds, At, TypeOK, Calls
    <2>3. \A u \in Threads : u # t => call'[u] = call[u]
      BY <1>4 DEF CheckArtifact, ReplayReceipt, RefuseRevision, PrepareRevision,
                  ShowAnswer, Moved, Answered, TypeOK
    <2> QED
      BY <2>1, <2>2, <2>3 DEF HoldersKept, Holds, At
  <1>5. CASE \/ \E p \in Projects : Create(p) \/ SaveOutline(p)
             \/ Forget \/ (\E d \in Drafts : Revoke(d)) \/ Crash
    BY <1>5 DEF Create, SaveOutline, Forget, Revoke, Crash, store, HoldersKept, Holds, At
  <1>6. CASE UNCHANGED vars
    BY <1>6 DEF vars, HoldersKept, Holds, At
  <1> QED
    BY <1>2, <1>3, <1>4, <1>5, <1>6 DEF Next

LEMMA SaveSectionKeeps ==
  ASSUME TypeOK, NEW t \in Threads, SaveSection(t)
  PROVE  UNCHANGED <<receipts, artifacts>> /\ \A u \in Threads : ~Holds(u) /\ ~Holds(u)'
  <1>1. UNCHANGED <<receipts, artifacts>> /\ Unlocked
    BY DEF SaveSection
  <1>2. \A u \in Threads : ~Holds(u)
    BY <1>1 DEF Unlocked, Holds, At
  <1>3. call[t] \in Calls
    BY DEF SaveSection, At, TypeOK
  <1>4. ~Holds(t)' /\ \A u \in Threads : u # t => call'[u] = call[u]
    BY <1>3 DEF SaveSection, Answered, Holds, At, TypeOK, Calls
  <1> QED
    BY <1>1, <1>2, <1>4 DEF Holds, At

LEMMA PutKeeps ==
  ASSUME TypeOK, NEW t \in Threads, PutResult(t)
  PROVE  /\ UNCHANGED <<sections, receipts>>
         /\ \A u \in Threads : ~Holds(u) /\ (u # t => ~Holds(u)')
         /\ call'[t].request = call[t].request
         /\ ReceiptsOf(call[t].request.op) = {}
         /\ Fits(call[t].request.project, call[t].request.revision)
         /\ Holds(t)' => /\ Accepts(Result(call[t].request.project, call[t].request.revision))
                         /\ artifacts' = artifacts
                              \cup {Result(call[t].request.project, call[t].request.revision)}
         /\ artifacts \subseteq artifacts'
  <1>1. /\ UNCHANGED <<sections, receipts>> /\ Unlocked
        /\ artifacts \subseteq artifacts'
    BY DEF PutResult, store
  <1>2. \A u \in Threads : ~Holds(u)
    BY <1>1 DEF Unlocked, Holds, At
  <1>3. call[t] \in Calls /\ call[t].request.kind = "apply"
    BY DEF PutResult, At, TypeOK
  <1>4. /\ call'[t].request = call[t].request
        /\ \A u \in Threads : u # t => call'[u] = call[u]
        /\ \A code : Answered(t, code) => ~Holds(t)'
    BY <1>3 DEF PutResult, Moved, Answered, Holds, At, TypeOK, Calls
  <1>5. Holds(t)' => /\ Accepts(Result(call[t].request.project, call[t].request.revision))
                     /\ artifacts' = artifacts
                          \cup {Result(call[t].request.project, call[t].request.revision)}
    BY <1>4 DEF PutResult
  <1> QED
    BY <1>1, <1>2, <1>4, <1>5 DEF PutResult, Applicable, Holds, At

LEMMA CommitKeeps ==
  ASSUME TypeOK, LockHolds, NEW t \in Threads, CommitRevision(t)
  PROVE  UNCHANGED artifacts /\ \A u \in Threads : ~Holds(u)'
  <1>1. Holds(t) /\ UNCHANGED artifacts
    BY DEF CommitRevision, Holds
  <1>2. \A u \in Threads : u # t => ~Holds(u)
    BY <1>1 DEF LockHolds
  <1>3. call[t] \in Calls
    BY DEF CommitRevision, At, TypeOK
  <1>4. ~Holds(t)' /\ \A u \in Threads : u # t => call'[u] = call[u]
    BY <1>3 DEF CommitRevision, Answered, Holds, At, TypeOK, Calls
  <1> QED
    BY <1>1, <1>2, <1>4 DEF Holds, At

-----------------------------------------------------------------------------
(* The invariant. *)

LEMMA KeysStep ==
  ASSUME WritingInvariant, [Next]_vars
  PROVE  KeysAreUnique'
  <1> USE DEF WritingInvariant
  <1>1. ASSUME NEW t \in Threads, SaveSection(t)
        PROVE  KeysAreUnique'
    BY <1>1, SaveSectionKeeps DEF KeysAreUnique
  <1>2. ASSUME NEW t \in Threads, PutResult(t)
        PROVE  KeysAreUnique'
    <2> DEFINE q == call[t].request
               result == Result(q.project, q.revision)
    <2>1. UNCHANGED receipts
      BY <1>2, PutKeeps
    <2>2. CASE artifacts' = artifacts
      BY <2>1, <2>2 DEF KeysAreUnique
    <2>3. CASE artifacts' = artifacts \cup {result} /\ Accepts(result)
      <3>1. \A a \in artifacts :
              a.draft = result.draft /\ a.version = result.version => a = result
        BY <2>3 DEF Accepts, StoredAt
      <3> QED
        BY <2>1, <2>3, <3>1 DEF KeysAreUnique
    <2> QED
      BY <1>2, <2>2, <2>3 DEF PutResult
  <1>3. ASSUME NEW t \in Threads, CommitRevision(t)
        PROVE  KeysAreUnique'
    <2>1. UNCHANGED artifacts
      BY <1>3, CommitKeeps
    <2>2. CASE UNCHANGED receipts
      BY <2>1, <2>2 DEF KeysAreUnique
    <2>3. CASE Commits(t)
      <3>1. \A k \in receipts : k.op # call[t].request.op
        BY <1>3, CommitAdds DEF ReceiptsOf
      <3> QED
        BY <2>1, <2>3, <3>1 DEF Commits, KeysAreUnique
    <2> QED
      BY <1>3, <2>2, <2>3, CommitAdds
  <1>4. CASE \A t \in Threads : ~SaveSection(t) /\ ~PutResult(t) /\ ~CommitRevision(t)
    BY <1>4, OtherSteps DEF KeysAreUnique
  <1> QED
    BY <1>1, <1>2, <1>3, <1>4

LEMMA LockStep ==
  ASSUME WritingInvariant, [Next]_vars
  PROVE  LockHolds'
  <1> USE DEF WritingInvariant
  <1>1. ASSUME NEW t \in Threads, SaveSection(t)
        PROVE  LockHolds'
    BY <1>1, SaveSectionKeeps DEF LockHolds
  <1>2. ASSUME NEW t \in Threads, PutResult(t)
        PROVE  LockHolds'
    <2>1. ASSUME NEW u \in Threads, Holds(u)'
          PROVE  u = t
      BY <1>2, <2>1, PutKeeps
    <2>2. /\ ReceiptsOf(call[t].request.op)' = {}
          /\ Fits(call[t].request.project, call[t].request.revision)'
      BY <1>2, PutKeeps DEF ReceiptsOf, Fits, Current
    <2>3. Holds(t)' => Result(call[t].request.project, call[t].request.revision)' \in artifacts'
      BY <1>2, PutKeeps DEF Result, Current
    <2> QED
      BY <2>1, <2>2, <2>3 DEF LockHolds
  <1>3. ASSUME NEW t \in Threads, CommitRevision(t)
        PROVE  LockHolds'
    BY <1>3, CommitKeeps DEF LockHolds
  <1>4. CASE \A t \in Threads : ~SaveSection(t) /\ ~PutResult(t) /\ ~CommitRevision(t)
    <2>1. HoldersKept /\ UNCHANGED <<sections, receipts, artifacts>>
      BY <1>4, OtherSteps
    <2>3. ASSUME NEW u \in Threads, Holds(u)'
          PROVE  /\ ReceiptsOf(call[u].request.op)' = {}
                 /\ Fits(call[u].request.project, call[u].request.revision)'
                 /\ Result(call[u].request.project, call[u].request.revision)' \in artifacts'
      <3>1. Holds(u) /\ call'[u].request = call[u].request
        BY <2>1, <2>3 DEF HoldersKept
      <3>2. /\ ReceiptsOf(call[u].request.op)' = {}
            /\ Fits(call[u].request.project, call[u].request.revision)'
        BY <2>1, <3>1 DEF LockHolds, ReceiptsOf, Fits, Current
      <3>3. Result(call[u].request.project, call[u].request.revision)'
              = Result(call[u].request.project, call[u].request.revision)
        BY <2>1, <3>1 DEF Result, Current
      <3>4. Result(call[u].request.project, call[u].request.revision) \in artifacts
        BY <3>1 DEF LockHolds
      <3> QED
        BY <2>1, <3>2, <3>3, <3>4
    <2>4. \A t, u \in Threads : Holds(t)' /\ Holds(u)' => t = u
      BY <2>1 DEF HoldersKept, LockHolds
    <2> QED
      BY <2>3, <2>4 DEF LockHolds
  <1> QED
    BY <1>1, <1>2, <1>3, <1>4

LEMMA SectionsStep ==
  ASSUME WritingInvariant, [Next]_vars
  PROVE  SectionsNumbered'
  <1> USE DEF WritingInvariant
  <1>1. CASE UNCHANGED sections
    BY <1>1 DEF SectionsNumbered, Numbered
  <1>2. ASSUME NEW p \in Projects, NEW row, Continues(p, row)
        PROVE  SectionsNumbered'
    BY <1>2, RowAdded
  <1>3. ASSUME NEW t \in Threads, SaveSection(t)
        PROVE  SectionsNumbered'
    BY <1>1, <1>2, <1>3, SaveSectionAdds
  <1>4. ASSUME NEW t \in Threads, CommitRevision(t)
        PROVE  SectionsNumbered'
    BY <1>1, <1>2, <1>4, CommitAdds DEF Commits, ApplyRequests
  <1>5. ASSUME NEW t \in Threads, PutResult(t)
        PROVE  SectionsNumbered'
    BY <1>1, <1>5, PutKeeps
  <1> QED
    BY <1>1, <1>3, <1>4, <1>5, OtherSteps

\* What a receipt says of its section, which later versions leave true.
Reviewed(k) ==
  LET r == k.revision
  IN /\ k.version = r.base + 1
     /\ k.version \in 2 .. CurrentVersion(k.project)
     /\ TextAt(k.project, r.base)[r.para] = r.before
     /\ TextAt(k.project, k.version) = [TextAt(k.project, r.base) EXCEPT ![r.para] = r.after]

LEMMA ReviewedKept ==
  ASSUME TypeOK, SectionsNumbered, ReviewedIsWhatApplies, NEW k \in receipts,
         UNCHANGED sections \/ \E p \in Projects, row \in Rows : Continues(p, row)
  PROVE  Reviewed(k)'
  <1>1. /\ Reviewed(k) /\ k.project \in Projects /\ k.revision.base \in Nat
        /\ CurrentVersion(k.project) \in Nat
    <2>1. k.project \in Projects /\ k.revision \in Revisions
      BY DEF TypeOK, Receipts
    <2> QED
      BY <2>1, CurrentIs, WritingAssumption
         DEF ReviewedIsWhatApplies, Reviewed, Revisions, BaseVersions
  <1>2. CASE UNCHANGED sections
    BY <1>1, <1>2 DEF Reviewed, CurrentVersion, Current, TextAt
  <1>3. ASSUME NEW p \in Projects, NEW row, Continues(p, row)
        PROVE  Reviewed(k)'
    <2> DEFINE n == CurrentVersion(k.project)
               r == k.revision
    <2>1. n \in Nat /\ k.version \in 1 .. n /\ r.base \in 1 .. n /\ k.version = r.base + 1
      BY <1>1 DEF Reviewed
    <2>2. /\ CurrentVersion(k.project)' \in {n, n + 1}
          /\ \A v \in 1 .. n : TextAt(k.project, v)' = TextAt(k.project, v)
      BY <1>1, <1>3, RowAdded
    <2>3. /\ TextAt(k.project, r.base)' = TextAt(k.project, r.base)
          /\ TextAt(k.project, k.version)' = TextAt(k.project, k.version)
      BY <2>1, <2>2
    <2>4. k.version \in 2 .. CurrentVersion(k.project)'
      BY <1>1, <2>1, <2>2 DEF Reviewed
    <2> QED
      BY <1>1, <2>3, <2>4 DEF Reviewed
  <1> QED
    BY <1>2, <1>3

LEMMA ReviewedStep ==
  ASSUME WritingInvariant, [Next]_vars
  PROVE  ReviewedIsWhatApplies'
  <1> USE DEF WritingInvariant
  <1> SUFFICES ASSUME NEW k \in receipts' PROVE Reviewed(k)'
    BY DEF ReviewedIsWhatApplies, Reviewed
  <1>1. \/ UNCHANGED sections
        \/ \E p \in Projects, row \in Rows : Continues(p, row)
    <2>1. ASSUME NEW t \in Threads, CommitRevision(t)
          PROVE  UNCHANGED sections \/ \E p \in Projects, row \in Rows : Continues(p, row)
      BY <2>1, CommitAdds DEF Commits, Continues, ApplyRequests
    <2> QED
      BY <2>1, SaveSectionAdds, PutKeeps, OtherSteps
  <1>2. CASE k \in receipts
    BY <1>1, <1>2, ReviewedKept
  <1>3. CASE k \notin receipts
    <2>1. PICK t \in Threads : CommitRevision(t) /\ Commits(t)
      BY <1>3, SaveSectionKeeps, PutKeeps, OtherSteps, CommitAdds
    <2>2. /\ call[t].request \in ApplyRequests
          /\ Fits(call[t].request.project, call[t].request.revision)
      BY <2>1, CommitAdds
    <2>3. PICK p \in Projects, r \in Revisions, n \in Nat, row \in Rows, text \in Manuscripts :
            /\ p = call[t].request.project /\ r = call[t].request.revision
            /\ n = CurrentVersion(p) /\ row = RowFor(Result(p, r))
            /\ text = Current(p).text
      <3>1. PICK p \in Projects, r \in Revisions :
              p = call[t].request.project /\ r = call[t].request.revision
        BY <2>2 DEF ApplyRequests
      <3>2. /\ Current(p) \in Rows /\ CurrentVersion(p) \in Nat
            /\ RowFor(Result(p, r)) \in Rows
        <4>1. Fits(p, r)
          BY <2>2, <3>1
        <4>2. sections[p] # {}
          BY <4>1 DEF Fits
        <4>3. Current(p) \in Rows /\ CurrentVersion(p) \in Nat
          BY <4>2, CurrentIs
        <4>4. RowFor(Result(p, r)) \in Rows
          BY <4>1, ResultIsArtifact
        <4> QED
          BY <4>3, <4>4
      <3>3. Current(p).text \in Manuscripts
        BY <3>2 DEF Rows
      <3> QED
        BY <3>1, <3>2, <3>3
    <2>4. /\ Continues(p, row) /\ k.project = p /\ k.revision = r
          /\ k.version = Result(p, r).version
      BY <1>3, <2>1, <2>3 DEF Commits
    <2>5. /\ k.version = n + 1 /\ r.base = n /\ row.version = n + 1
          /\ row.text = [text EXCEPT ![r.para] = r.after]
      BY <2>2, <2>3, <2>4, ResultIsArtifact
    <2>6. /\ Current(p) \in sections[p] /\ Current(p).version = n
          /\ Numbered(sections[p], n) /\ n # 0
      BY <2>2, <2>3, CurrentIs DEF Fits
    <2>7. TextAt(p, n) = text
      BY <2>3, <2>6, TextOfRow DEF TextAt, Text
    <2>8. /\ CurrentVersion(p)' = n + 1 /\ TextAt(p, n + 1)' = row.text
          /\ TextAt(p, n)' = text
      BY <2>3, <2>4, <2>5, <2>6, <2>7, RowAdded
    <2>9. text[r.para] = r.before
      BY <2>2, <2>3 DEF Fits
    <2> QED
      BY <2>4, <2>5, <2>6, <2>8, <2>9 DEF Reviewed
  <1> QED
    BY <1>2, <1>3

LEMMA ProvenanceStep ==
  ASSUME WritingInvariant, [Next]_vars
  PROVE  Provenance'
  <1> USE DEF WritingInvariant
  <1>1. CASE UNCHANGED <<sections, artifacts>>
    BY <1>1 DEF Provenance, Copies, Derived
  <1>2. ASSUME NEW p \in Projects, NEW row, Continues(p, row), Copies(row), UNCHANGED artifacts
        PROVE  Provenance'
    <2>1. /\ sections'[p] = sections[p] \cup {row}
          /\ \A o \in Projects \ {p} : sections'[o] = sections[o]
      BY <1>2 DEF Continues, TypeOK
    <2>2. \A o \in Projects : \A s \in sections'[o] : Copies(s)
      BY <1>2, <2>1 DEF Provenance
    <2> QED
      BY <1>2, <2>2 DEF Provenance, Copies, Derived
  <1>3. ASSUME NEW t \in Threads, SaveSection(t)
        PROVE  Provenance'
    <2>1. UNCHANGED artifacts
      BY <1>3, SaveSectionKeeps
    <2>2. \/ UNCHANGED sections
          \/ \E p \in Projects, row \in Rows : Continues(p, row) /\ Copies(row)
      BY <1>3, SaveSectionAdds
    <2> QED
      BY <1>1, <1>2, <2>1, <2>2
  <1>4. ASSUME NEW t \in Threads, CommitRevision(t)
        PROVE  Provenance'
    <2>1. UNCHANGED artifacts
      BY <1>4, CommitKeeps
    <2>2. CASE UNCHANGED sections
      BY <1>1, <2>1, <2>2
    <2>3. CASE Commits(t)
      <3>1. /\ call[t].request.project \in Projects
            /\ Result(call[t].request.project, call[t].request.revision) \in artifacts
        BY <1>4, CommitAdds DEF ApplyRequests, CommitRevision, LockHolds, Holds
      <3>2. Copies(RowFor(Result(call[t].request.project, call[t].request.revision)))
        BY <3>1 DEF Copies, RowFor
      <3> QED
        BY <1>2, <2>1, <2>3, <3>1, <3>2 DEF Commits
    <2> QED
      BY <1>4, <2>2, <2>3, CommitAdds
  <1>5. ASSUME NEW t \in Threads, PutResult(t)
        PROVE  Provenance'
    <2>1. PICK p \in Projects, r \in Revisions :
            p = call[t].request.project /\ r = call[t].request.revision
      BY <1>5, RequestAt DEF PutResult, ApplyRequests
    <2>2. UNCHANGED sections /\ Fits(p, r)
      BY <1>5, <2>1, PutKeeps
    <2>3. CASE artifacts' = artifacts
      BY <1>1, <2>2, <2>3
    <2>4. CASE artifacts' = artifacts \cup {Result(p, r)}
      <3>1. PICK b \in artifacts : /\ b.draft = Current(p).draft /\ b.version = Current(p).version
                                  /\ b.text = Current(p).text
        <4>1. Current(p) \in sections[p]
          BY <2>1, <2>2, CurrentIs DEF Fits
        <4>2. Copies(Current(p))
          BY <2>1, <4>1 DEF Provenance
        <4> QED
          BY <4>2 DEF Copies
      <3>2. /\ b.draft = Result(p, r).draft /\ b.version + 1 = Result(p, r).version
            /\ Result(p, r).text = [b.text EXCEPT ![Result(p, r).by.para] = Result(p, r).by.after]
        BY <3>1 DEF Result
      <3>3. \A a : a = Result(p, r) => Derived(a)'
        BY <2>4, <3>2 DEF Derived
      <3>4. \A a \in artifacts : a.version # 1 => Derived(a)'
        BY <2>4 DEF Provenance, Derived
      <3>5. \A o \in Projects : \A s \in sections[o] : Copies(s)'
        BY <2>4 DEF Provenance, Copies
      <3> QED
        BY <2>2, <2>4, <3>3, <3>4, <3>5 DEF Provenance
    <2> QED
      BY <1>5, <2>1, <2>3, <2>4 DEF PutResult
  <1>6. CASE \A t \in Threads : ~SaveSection(t) /\ ~PutResult(t) /\ ~CommitRevision(t)
    BY <1>1, <1>6, OtherSteps
  <1> QED
    BY <1>3, <1>4, <1>5, <1>6

LEMMA InitHolds == Init => WritingInvariant
  <1> SUFFICES ASSUME Init PROVE WritingInvariant
    OBVIOUS
  <1>1. TypeOK
    BY InitTyped
  <1>2. SectionsNumbered
    <2>1. 0 \in 0 .. MaxVersion /\ Numbered({}, 0)
      BY WritingAssumption DEF Numbered
    <2> QED
      BY <2>1 DEF Init, SectionsNumbered
  <1>3. \A a \in artifacts :
          \E d \in Drafts : a = [draft |-> d, version |-> 1,
                                text |-> [x \in Paragraphs |-> d], by |-> None]
    BY DEF Init
  <1>4. KeysAreUnique
    BY <1>3 DEF Init, KeysAreUnique
  <1>5. Provenance
    BY <1>3 DEF Init, Provenance
  <1>6. LockHolds /\ ReviewedIsWhatApplies
    BY DEF Init, LockHolds, Holds, At, ReviewedIsWhatApplies
  <1> QED
    BY <1>1, <1>2, <1>4, <1>5, <1>6 DEF WritingInvariant

\* Sections, receipts, artifacts and the lock stay consistent with one another.
THEOREM InvariantHolds == Spec => []WritingInvariant
  <1>1. WritingInvariant /\ [Next]_vars => WritingInvariant'
    BY TypeStep, SectionsStep, KeysStep, LockStep, ProvenanceStep, ReviewedStep
       DEF WritingInvariant
  <1> QED
    BY InitHolds, <1>1, PTL DEF Spec

\* Every variable keeps to its type.
THEOREM TypeCorrect == Spec => []TypeOK
  <1>1. WritingInvariant => TypeOK
    BY DEF WritingInvariant
  <1> QED
    BY InvariantHolds, <1>1, PTL

\* What an operation brought about is what its author reviewed, in the version it
\* was made on, for every number of windows, threads and projects.
THEOREM ReviewedApplies == Spec => []ReviewedIsWhatApplies
  <1>1. WritingInvariant => ReviewedIsWhatApplies
    BY DEF WritingInvariant
  <1> QED
    BY InvariantHolds, <1>1, PTL

-----------------------------------------------------------------------------
(* Orphans. *)

\* An artifact of the same revision over the same base is the same artifact.
LEMMA SameRevisionSameResult ==
  ASSUME WritingInvariant, NEW p \in Projects, NEW r \in Revisions, Fits(p, r),
         NEW b \in StoredAt(Result(p, r).draft, Result(p, r).version), b.by = r
  PROVE  b = Result(p, r)
  <1> USE DEF WritingInvariant
  <1>1. /\ b \in artifacts /\ b.draft = Current(p).draft /\ b.version = Current(p).version + 1
        /\ Current(p) \in sections[p] /\ Current(p).version \in Nat \ {0}
    BY CurrentIs DEF StoredAt, Result, Fits, Rows, Versions
  <1>2. PICK c \in artifacts : /\ c.draft = Current(p).draft /\ c.version = Current(p).version
                              /\ c.text = Current(p).text
    BY <1>1 DEF Provenance, Copies
  <1>3. PICK a \in artifacts : /\ a.draft = b.draft /\ a.version + 1 = b.version
                              /\ b.text = [a.text EXCEPT ![r.para] = r.after]
    <2>1. Derived(b)
      BY <1>1 DEF Provenance
    <2> QED
      BY <2>1 DEF Derived
  <1>4. a = c
    <2>1. a.version \in Nat /\ c.version \in Nat
      BY DEF TypeOK, Artifacts, Versions
    <2> QED
      BY <1>1, <1>2, <1>3, <2>1 DEF KeysAreUnique
  <1>5. b.text = Result(p, r).text
    BY <1>2, <1>3, <1>4 DEF Result
  <1>6. b = [draft |-> b.draft, version |-> b.version, text |-> b.text, by |-> b.by]
    BY <1>1 DEF TypeOK, Artifacts
  <1> QED
    BY <1>1, <1>5, <1>6 DEF Result

\* Only the step that meets a taken version answers so.
LEMMA OnlyPutTakes ==
  ASSUME TypeOK, [Next]_vars, NEW t \in Threads,
         At(t, "apply", "checked"), At(t, "apply", "answered")', call'[t].code = "taken"
  PROVE  PutResult(t)
  <1>1. /\ call[t] \in Calls /\ call[t] # None
        /\ call[t].stage = "checked" /\ call[t].request.kind = "apply"
        /\ call'[t] # None /\ call'[t].stage = "answered"
    BY DEF TypeOK, At
  <1>2. ASSUME NEW code, Answered(t, code)
        PROVE  code = "taken"
    <2>1. call'[t] = [call[t] EXCEPT !.stage = "answered", !.code = code]
      BY <1>1, <1>2 DEF Answered, TypeOK
    <2> QED
      BY <1>1, <2>1 DEF Calls
  <1>3. call'[t] # call[t]
    BY <1>1
  <1>4. ASSUME NEW u \in Threads, NEW w \in Windows,
               AskAttach(u, w) \/ AskPreview(u, w) \/ AskApply(u, w)
        PROVE  FALSE
    <2>1. PICK request : Ask(u, w, request)
      BY <1>4 DEF AskAttach, AskPreview, AskApply
    <2> QED
      BY <1>1, <1>3, <2>1 DEF Ask, TypeOK
  <1>5. ASSUME NEW w \in Windows, Cancel(w) \/ Leave(w)
        PROVE  FALSE
    <2>1. call' = Detached(w)
      BY <1>3, <1>5 DEF Cancel, Leave
    <2> QED
      BY <1>1, <2>1 DEF Detached, Calls
  <1>6. ASSUME NEW u \in Threads,
               \/ CheckArtifact(u) \/ SaveSection(u) \/ PrepareRevision(u) \/ ReplayReceipt(u)
               \/ RefuseRevision(u) \/ CommitRevision(u) \/ ShowAnswer(u)
        PROVE  FALSE
    <2>1. \A v \in Threads : v # u => call'[v] = call[v]
      BY <1>6 DEF CheckArtifact, SaveSection, PrepareRevision, ReplayReceipt, RefuseRevision,
                  CommitRevision, ShowAnswer, Answered, Moved, TypeOK
    <2>2. u = t
      BY <1>3, <2>1
    <2>3. ReplayReceipt(t) \/ RefuseRevision(t)
      BY <1>1, <1>6, <2>2 DEF CheckArtifact, SaveSection, PrepareRevision, CommitRevision,
                              ShowAnswer, At
    <2>4. Answered(t, "replayed") \/ Answered(t, "conflict")
      BY <2>3 DEF ReplayReceipt, RefuseRevision
    <2> QED
      BY <1>2, <2>4
  <1>7. ASSUME NEW u \in Threads, PutResult(u)
        PROVE  u = t
    <2>1. \A v \in Threads : v # u => call'[v] = call[v]
      BY <1>7 DEF PutResult, Answered, Moved, TypeOK
    <2> QED
      BY <1>3, <2>1
  <1>8. ASSUME \/ \E p \in Projects : Create(p) \/ SaveOutline(p)
               \/ Forget \/ (\E d \in Drafts : Revoke(d)) \/ Crash
               \/ UNCHANGED vars
        PROVE  FALSE
    <2>1. UNCHANGED call \/ Crash
      BY <1>8 DEF Create, SaveOutline, Forget, Revoke, vars
    <2> QED
      BY <1>1, <1>3, <2>1 DEF Crash
  <1> QED
    BY <1>4, <1>5, <1>6, <1>7, <1>8 DEF Next

\* A retry after a restart is never blocked by what its own first attempt left in
\* the artifact store.
THEOREM OrphansNeverBlock == Spec => OwnOrphanNeverBlocks
  <1>1. ASSUME WritingInvariant, [Next]_vars, NEW t \in Threads,
               At(t, "apply", "checked"), At(t, "apply", "answered")', call'[t].code = "taken"
        PROVE  \E a \in artifacts :
                 /\ a.draft = Current(call[t].request.project).draft
                 /\ a.version = call[t].request.revision.base + 1
                 /\ a.by # call[t].request.revision
    <2> DEFINE p == call[t].request.project
               r == call[t].request.revision
    <2>1. PutResult(t) /\ call[t] \in Calls
      BY <1>1, OnlyPutTakes DEF WritingInvariant, TypeOK, At
    <2>2. /\ p \in Projects /\ r \in Revisions /\ Fits(p, r)
      BY <1>1, <2>1, RequestAt DEF WritingInvariant, PutResult, Applicable, ApplyRequests
    <2>3. ~Accepts(Result(p, r))
      <3>1. call'[t].stage = "answered" /\ call \in [Threads -> Calls \cup {None}]
        BY <1>1 DEF At, WritingInvariant, TypeOK
      <3>2. Moved(t, "stored") => call'[t].stage = "stored"
        BY <2>1, <3>1 DEF Moved, Calls
      <3> QED
        BY <2>1, <3>1, <3>2 DEF PutResult
    <2>4. PICK b \in StoredAt(Result(p, r).draft, Result(p, r).version) : b # Result(p, r)
      BY <2>3 DEF Accepts
    <2>5. b.by # r
      BY <1>1, <2>2, <2>4, SameRevisionSameResult
    <2>6. b \in artifacts /\ b.draft = Current(p).draft /\ b.version = r.base + 1
      BY <2>2, <2>4 DEF StoredAt, Result, Fits
    <2> QED
      BY <2>5, <2>6
  <1>2. WritingInvariant /\ [Next]_vars => [MeetsAnotherRevision]_vars
    BY <1>1 DEF MeetsAnotherRevision
  <1> QED
    BY <1>2, InvariantHolds, PTL DEF Spec, OwnOrphanNeverBlocks

-----------------------------------------------------------------------------
(* The history. *)

LEMMA LengthOf ==
  ASSUME NEW S, NEW n \in Nat, NEW f \in [1 .. n -> S]
  PROVE  f \in Seq(S) /\ Len(f) = n
  <1>1. f \in Seq(S)
    BY SeqDef
  <1>2. Len(f) \in Nat /\ DOMAIN f = 1 .. Len(f)
    BY <1>1, LenProperties
  <1>3. \A i \in Nat : i \in 1 .. n <=> i \in 1 .. Len(f)
    BY <1>2
  <1>4. n <= Len(f) /\ Len(f) <= n
    BY <1>2, <1>3
  <1> QED
    BY <1>1, <1>2, <1>4

LEMMA OneMore ==
  ASSUME NEW S, NEW n \in Nat, NEW f \in [1 .. n -> S], NEW g \in [1 .. n + 1 -> S],
         \A i \in 1 .. n : g[i] = f[i]
  PROVE  g = Append(f, g[n + 1])
  <1>1. /\ f \in Seq(S) /\ Len(f) = n /\ g \in Seq(S) /\ Len(g) = n + 1 /\ g[n + 1] \in S
    BY LengthOf
  <1>2. /\ Append(f, g[n + 1]) \in Seq(S) /\ Len(Append(f, g[n + 1])) = n + 1
        /\ \A i \in 1 .. n : Append(f, g[n + 1])[i] = f[i]
        /\ Append(f, g[n + 1])[n + 1] = g[n + 1]
    BY <1>1, AppendProperties
  <1>3. \A i \in 1 .. n + 1 : i \in 1 .. n \/ i = n + 1
    OBVIOUS
  <1>4. \A i \in 1 .. n + 1 : g[i] = Append(f, g[n + 1])[i]
    BY <1>2, <1>3
  <1> QED
    BY <1>1, <1>2, <1>4, SeqEqual

LEMMA HistoryTyped ==
  ASSUME TypeOK, SectionsNumbered, NEW p \in Projects
  PROVE  /\ CurrentVersion(p) \in Nat
         /\ History[p] \in [1 .. CurrentVersion(p) -> Manuscripts]
         /\ Len(History[p]) = CurrentVersion(p)
         /\ sections[p] # {} => /\ History[p] # <<>>
                               /\ History[p][Len(History[p])] = Current(p).text
  <1> DEFINE n == CurrentVersion(p)
  <1>1. n \in Nat /\ Numbered(sections[p], n)
    BY CurrentIs
  <1>2. \A v \in 1 .. n : TextAt(p, v) \in Manuscripts
    BY <1>1, TextIsManuscript DEF TextAt, Text
  <1>3. History[p] = [v \in 1 .. n |-> TextAt(p, v)]
    BY DEF History
  <1>4. History[p] \in [1 .. n -> Manuscripts]
    BY <1>2, <1>3
  <1>5. Len(History[p]) = n
    BY <1>1, <1>4, LengthOf
  <1>6. ASSUME sections[p] # {}
        PROVE  History[p] # <<>> /\ History[p][n] = Current(p).text
    <2>1. n # 0 /\ Current(p) \in sections[p] /\ Current(p).version = n
      BY <1>6, CurrentIs
    <2>2. History[p] # <<>>
      BY <1>5, <2>1, EmptySeq
    <2>3. TextAt(p, n) = Current(p).text
      BY <1>1, <2>1, TextOfRow DEF TextAt, Text
    <2> QED
      BY <1>1, <1>3, <2>1, <2>2, <2>3
  <1> QED
    BY <1>1, <1>4, <1>5, <1>6

\* A row that continues a section continues the history.
LEMMA HistoryGrows ==
  ASSUME TypeOK, SectionsNumbered, TypeOK', SectionsNumbered',
         NEW p \in Projects, NEW row, Continues(p, row)
  PROVE  /\ History' = [History EXCEPT ![p] = Append(History[p], row.text)]
         /\ History'[p] # <<>> /\ History'[p][Len(History'[p])] = row.text
  <1>1. PICK n \in Nat : /\ n = CurrentVersion(p) /\ CurrentVersion(p)' = n + 1
                        /\ row.version = n + 1
    BY HistoryTyped, RowAdded DEF Continues
  <1>2. PICK f \in [1 .. n -> Manuscripts] : f = History[p] /\ f = [v \in 1 .. n |-> TextAt(p, v)]
    BY <1>1, HistoryTyped DEF History
  <1>3. PICK g : g = History'[p] /\ g = [v \in 1 .. n + 1 |-> TextAt(p, v)']
    BY <1>1 DEF History
  <1>4. g[n + 1] = row.text /\ \A v \in 1 .. n : g[v] = f[v]
    BY <1>1, <1>2, <1>3, RowAdded
  <1>5. g \in [1 .. n + 1 -> Manuscripts]
    <2>1. row.text \in Manuscripts
      BY DEF Continues, Rows
    <2>2. \A v \in 1 .. n + 1 : v \in 1 .. n \/ v = n + 1
      OBVIOUS
    <2>3. \A v \in 1 .. n + 1 : g[v] \in Manuscripts
      BY <1>2, <1>4, <2>1, <2>2
    <2> QED
      BY <1>3, <2>3
  <1>6. g = Append(f, row.text) /\ Len(g) = n + 1 /\ g # <<>>
    BY <1>4, <1>5, OneMore, LengthOf, EmptySeq
  <1>7. \A o \in Projects \ {p} : History'[o] = History[o]
    BY RowAdded DEF History
  <1>8. History' = [History EXCEPT ![p] = Append(History[p], row.text)]
    BY <1>2, <1>3, <1>6, <1>7 DEF History
  <1> QED
    BY <1>3, <1>4, <1>6, <1>8

LEMMA AttachMaps ==
  ASSUME TypeOK, SectionsNumbered, TypeOK', SectionsNumbered',
         NEW p \in Projects, NEW row, Continues(p, row), UNCHANGED <<receipts, outline>>
  PROVE  Promise!Attach(p)
  <1>1. row.text \in Manuscripts
    BY DEF Continues, Rows
  <1>2. /\ History' = [History EXCEPT ![p] = Append(History[p], row.text)]
        /\ History'[p] # <<>> /\ History'[p][Len(History'[p])] = row.text
    BY HistoryGrows
  <1>3. Done' = Done
    BY DEF Done, ReceiptsOf
  <1> QED
    BY <1>1, <1>2, <1>3 DEF Promise!Attach, Promise!Newest, Promise!Manuscripts, Manuscripts

LEMMA ReviseMaps ==
  ASSUME WritingInvariant, WritingInvariant', NEW t \in Threads, CommitRevision(t), Commits(t)
  PROVE  Promise!Revise(call[t].request.project, call[t].request.op)
  <1> USE DEF WritingInvariant
  <1>1. PICK p \in Projects, r \in Revisions, o \in Operations, result \in Artifacts :
          /\ p = call[t].request.project /\ r = call[t].request.revision
          /\ o = call[t].request.op /\ result = Result(p, r)
    BY CommitAdds, ResultIsArtifact DEF ApplyRequests
  <1>2. ReceiptsOf(o) = {} /\ Fits(p, r)
    BY <1>1, CommitAdds
  <1>3. /\ Continues(p, RowFor(result)) /\ RowFor(result).text = [Current(p).text EXCEPT ![r.para] = r.after]
        /\ result.version = CurrentVersion(p) + 1
        /\ receipts' = receipts \cup {[op |-> o, project |-> p, revision |-> r,
                                       version |-> result.version]}
    BY <1>1, <1>2, ResultIsArtifact DEF Commits
  <1>4. /\ Len(History[p]) + 1 = result.version
        /\ History[p] # <<>> /\ History[p][Len(History[p])] = Current(p).text
    BY <1>2, <1>3, HistoryTyped DEF Fits
  <1>5. History' = [History EXCEPT ![p] =
                      Append(History[p], [History[p][Len(History[p])] EXCEPT ![r.para] = r.after])]
    BY <1>3, <1>4, HistoryGrows
  <1>6. Done[o] = {} /\ Done' = [Done EXCEPT ![o] = {<<p, result.version>>}]
    <2>1. Done[o] = {}
      BY <1>2 DEF Done
    <2>2. \A u \in Operations \ {o} : ReceiptsOf(u)' = ReceiptsOf(u)
      BY <1>3 DEF ReceiptsOf
    <2>3. PICK k : k = [op |-> o, project |-> p, revision |-> r, version |-> result.version]
      OBVIOUS
    <2>4. Done'[o] = {<<p, result.version>>}
      <3>1. ReceiptsOf(o)' = {k}
        BY <1>2, <1>3, <2>3 DEF ReceiptsOf
      <3>2. Done'[o] = {<<j.project, j.version>> : j \in {k}}
        BY <3>1 DEF Done
      <3>3. k.project = p /\ k.version = result.version
        BY <2>3
      <3> QED
        BY <3>2, <3>3
    <2>5. \A u \in Operations \ {o} : Done'[u] = Done[u]
      BY <2>2 DEF Done
    <2> QED
      BY <2>1, <2>4, <2>5 DEF Done
  <1>7. r.para \in Paragraphs /\ r.after \in Texts /\ UNCHANGED outline
    BY DEF Revisions, Texts, CommitRevision
  <1>8. Promise!Revise(p, o)
    BY <1>4, <1>5, <1>6, <1>7 DEF Promise!Revise, Promise!Newest
  <1> QED
    BY <1>1, <1>8

\* Sections, receipts, artifact store and panels implement the history an author is
\* promised: it only grows, a version at a time, and an operation adds one at most.
THEOREM ServiceImplementsHistory == Spec => ImplementsHistory
  <1>1. Init => Promise!Init
    <2> SUFFICES ASSUME Init PROVE Promise!Init
      OBVIOUS
    <2>1. TypeOK /\ SectionsNumbered
      BY InitHolds DEF WritingInvariant
    <2>2. ASSUME NEW p \in Projects
          PROVE  History[p] = <<>>
      <3>1. CurrentVersion(p) = 0
        BY DEF Init, CurrentVersion
      <3>2. History[p] \in Seq(Manuscripts) /\ Len(History[p]) = 0
        BY <2>1, <3>1, HistoryTyped, LengthOf
      <3> QED
        BY <3>2, EmptySeq
    <2>3. History = [p \in Projects |-> <<>>]
      BY <2>2 DEF History
    <2>4. Done = [o \in Operations |-> {}]
      BY DEF Init, Done, ReceiptsOf
    <2> QED
      BY <2>3, <2>4 DEF Init, Promise!Init
  <1>2. WritingInvariant /\ WritingInvariant' /\ [Next]_vars
          => [Promise!Next]_<<History, outline, Done>>
    <2> SUFFICES ASSUME WritingInvariant, WritingInvariant', [Next]_vars
                 PROVE  Promise!Next \/ UNCHANGED <<History, outline, Done>>
      OBVIOUS
    <2> USE DEF WritingInvariant
    <2>1. UNCHANGED sections => UNCHANGED History
      BY DEF History, CurrentVersion, Current, TextAt
    <2>2. UNCHANGED receipts => UNCHANGED Done
      BY DEF Done, ReceiptsOf
    <2>3. ASSUME NEW t \in Threads, SaveSection(t)
          PROVE  Promise!Next \/ UNCHANGED <<History, outline, Done>>
      <3>1. UNCHANGED <<receipts, outline>>
        BY <2>3 DEF SaveSection
      <3>2. CASE UNCHANGED sections
        BY <2>1, <2>2, <3>1, <3>2
      <3>3. CASE \E p \in Projects, row \in Rows : Continues(p, row)
        BY <3>1, <3>3, AttachMaps DEF Promise!Next
      <3> QED
        BY <2>3, <3>2, <3>3, SaveSectionAdds
    <2>4. ASSUME NEW t \in Threads, CommitRevision(t)
          PROVE  Promise!Next \/ UNCHANGED <<History, outline, Done>>
      <3>1. CASE Commits(t)
        <4>1. /\ call[t].request.project \in Projects /\ call[t].request.op \in Operations
              /\ Promise!Revise(call[t].request.project, call[t].request.op)
          BY <2>4, <3>1, CommitAdds, ReviseMaps DEF ApplyRequests
        <4> QED
          BY <4>1 DEF Promise!Next
      <3>2. CASE UNCHANGED <<sections, receipts>>
        BY <2>1, <2>2, <2>4, <3>2 DEF CommitRevision
      <3> QED
        BY <2>4, <3>1, <3>2, CommitAdds
    <2>5. ASSUME NEW p \in Projects, SaveOutline(p)
          PROVE  Promise!Next
      <3>1. UNCHANGED <<sections, receipts>> /\ outline' = [outline EXCEPT ![p] = outline[p] + 1]
        BY <2>5 DEF SaveOutline
      <3> QED
        BY <2>1, <2>2, <3>1 DEF Promise!Publish, Promise!Next
    <2>6. CASE \A t \in Threads : ~SaveSection(t) /\ ~CommitRevision(t)
      <3>1. UNCHANGED <<sections, receipts>>
        BY <2>6, PutKeeps, OtherSteps
      <3>2. UNCHANGED outline \/ \E p \in Projects : SaveOutline(p)
        <4>1. ASSUME NEW t \in Threads, NEW w \in Windows,
                     AskAttach(t, w) \/ AskPreview(t, w) \/ AskApply(t, w)
              PROVE  UNCHANGED outline
          BY <4>1 DEF AskAttach, AskPreview, AskApply, Ask, store
        <4>2. ASSUME NEW w \in Windows, Cancel(w) \/ Leave(w)
              PROVE  UNCHANGED outline
          BY <4>2 DEF Cancel, Leave, store
        <4>3. ASSUME NEW t \in Threads,
                     \/ CheckArtifact(t) \/ PrepareRevision(t) \/ ReplayReceipt(t)
                     \/ RefuseRevision(t) \/ PutResult(t) \/ ShowAnswer(t)
              PROVE  UNCHANGED outline
          BY <4>3 DEF CheckArtifact, PrepareRevision, ReplayReceipt, RefuseRevision, PutResult,
                      ShowAnswer, store
        <4>4. ASSUME \/ \E p \in Projects : Create(p)
                     \/ Forget \/ (\E d \in Drafts : Revoke(d)) \/ Crash \/ UNCHANGED vars
              PROVE  UNCHANGED outline
          BY <4>4 DEF Create, Forget, Revoke, Crash, vars, store
        <4> QED
          BY <2>6, <4>1, <4>2, <4>3, <4>4 DEF Next
      <3> QED
        BY <2>1, <2>2, <2>5, <3>1, <3>2
    <2> QED
      BY <2>3, <2>4, <2>6
  <1> QED
    BY <1>1, <1>2, InvariantHolds, PTL DEF Spec, ImplementsHistory, Promise!Spec, Promise!vars
=============================================================================
