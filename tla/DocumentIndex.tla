---------------------------- MODULE DocumentIndex ----------------------------
(***************************************************************************)
(* One document of the knowledge library: its file, its record in the      *)
(* index manifest, and its chunks in the vector store and in the BM25      *)
(* index, under the requests to import, reindex and delete it.  The        *)
(* endpoints run in a thread pool and no lock covers more than one store,  *)
(* so a request is one step per store it reads or writes.  Embedding,      *)
(* parsing or a store may fail at any step, the process may stop between   *)
(* any two, and the file may change at any time (a missing file is refused *)
(* at once, or fails the parse).                                           *)
(*                                                                         *)
(* The chunks of a content are stored and removed together and share none  *)
(* with another content (their ids hash it), so the content stands for     *)
(* them.  The versions of parser, chunker and embedding model are constant.*)
(***************************************************************************)
CONSTANTS
  Contents,   \* what the file may hold
  Nothing,    \* no content
  Requests    \* the threads that serve requests

ASSUME IndexAssumption == Nothing \notin Contents

VARIABLES
  file,       \* the content of the file
  manifest,   \* the document's IndexManifestRecord
  vector,     \* its chunks in the vector store
  sparse,     \* its chunks in the BM25 index
  request,    \* what each thread does
  \* history, read by properties only
  solo,       \* no two requests for the document were ever alive at once
  cut         \* a deletion has removed chunks and not (yet) the record

stores == <<manifest, vector, sparse>>
vars == <<file, stores, request, solo, cut>>

NoRecord == [status |-> "none", uri |-> FALSE, hash |-> Nothing, chunks |-> {}]
ReadyRecord(content) ==
  [status |-> "ready", uri |-> TRUE, hash |-> content, chunks |-> {content}]
\* The four statuses of a running import are one here.
RecordType == [status : {"none", "active", "failed"}, uri : BOOLEAN,
               hash : Contents \cup {Nothing}, chunks : SUBSET Contents]
              \cup {ReadyRecord(content) : content \in Contents}
Indexing == {"parsing", "parsed", "chunked", "stored", "cleared", "listed", "swept"}
Deleting == {"doomed", "unstored", "unlisted"}
RequestType == [pc : {"idle", "found"} \cup Indexing \cup Deleting, force : BOOLEAN,
                existing : RecordType, content : Contents \cup {Nothing}]
Idle == [pc |-> "idle", force |-> FALSE, existing |-> NoRecord, content |-> Nothing]

TypeOK ==
  /\ file \in Contents
  /\ manifest \in RecordType
  /\ vector \subseteq Contents /\ sparse \subseteq Contents
  /\ request \in [Requests -> RequestType]
  /\ solo \in BOOLEAN /\ cut \in BOOLEAN

Init ==
  /\ file \in Contents /\ manifest = NoRecord /\ vector = {} /\ sparse = {}
  /\ request = [r \in Requests |-> Idle]
  /\ solo = TRUE /\ cut = FALSE

At(r, pc) == request[r].pc = pc
GoTo(r, pc) == request' = [request EXCEPT ![r].pc = pc]
End(r) == request' = [request EXCEPT ![r] = Idle]

\* mark_status makes a record where there is none.
Marked(status, uri) ==
  IF manifest.status = "none" THEN [NoRecord EXCEPT !.status = status, !.uri = uri]
  ELSE [manifest EXCEPT !.status = status, !.uri = @ \/ uri]
\* find_by_source_uri.
Found == IF manifest.uri THEN manifest ELSE NoRecord

-----------------------------------------------------------------------------
(* Requests. *)

Begin(r, pc, force, existing) ==
  /\ At(r, "idle")
  /\ request' = [request EXCEPT ![r] = [pc |-> pc, force |-> force, existing |-> existing,
                                        content |-> Nothing]]
  /\ solo' = (solo /\ \A s \in Requests : At(s, "idle"))
  /\ UNCHANGED <<file, stores, cut>>

Import(r) == Begin(r, "found", FALSE, Found)
Reindex(r) == manifest.uri /\ Begin(r, "found", TRUE, Found)
Delete(r) == manifest.status # "none" /\ Begin(r, "doomed", FALSE, NoRecord)

-----------------------------------------------------------------------------
(* _index_document. *)

MarkParsing(r) ==
  /\ At(r, "found") /\ GoTo(r, "parsing") /\ manifest' = Marked("active", TRUE)
  /\ UNCHANGED <<file, vector, sparse, solo, cut>>

Parse(r) ==
  /\ At(r, "parsing")
  /\ request' = [request EXCEPT ![r].pc = "parsed", ![r].content = file]
  /\ UNCHANGED <<file, stores, solo, cut>>

CanReuse(r) ==
  /\ ~request[r].force /\ request[r].existing.status = "ready"
  /\ request[r].existing.hash = request[r].content
\* The record is put back as it was found, whatever has happened to it since.
Restored(r) == request[r].existing
Reuse(r) ==
  /\ At(r, "parsed") /\ CanReuse(r) /\ End(r) /\ manifest' = Restored(r)
  /\ UNCHANGED <<file, vector, sparse, solo, cut>>

\* Chunking and embedding, each marked in the manifest before it starts.  Of the
\* record that was found only the chunks are looked at again.
Prepare(r) ==
  /\ At(r, "parsed") /\ ~CanReuse(r)
  /\ request' = [request EXCEPT ![r].pc = "chunked", ![r].force = FALSE,
                   ![r].existing = [NoRecord EXCEPT !.chunks = request[r].existing.chunks]]
  /\ manifest' = Marked("active", FALSE)
  /\ UNCHANGED <<file, vector, sparse, solo, cut>>
StoreChunks(r) ==
  /\ At(r, "chunked") /\ GoTo(r, "stored") /\ vector' = vector \cup {request[r].content}
  /\ UNCHANGED <<file, manifest, sparse, solo, cut>>
ClearSparse(r) ==
  /\ At(r, "stored") /\ GoTo(r, "cleared") /\ sparse' = {}
  /\ UNCHANGED <<file, manifest, vector, solo, cut>>
ListSparse(r) ==
  /\ At(r, "cleared") /\ GoTo(r, "listed") /\ sparse' = sparse \cup {request[r].content}
  /\ UNCHANGED <<file, manifest, vector, solo, cut>>

\* Mutant: what is stored again is not taken out of what is stale.
AllExisting(r) == request[r].existing.chunks
Stale(r) == request[r].existing.chunks \ {request[r].content}
DropStale(r) ==
  /\ At(r, "listed") /\ GoTo(r, "swept") /\ vector' = vector \ Stale(r)
  /\ UNCHANGED <<file, manifest, sparse, solo, cut>>

Publish(r) ==
  /\ At(r, "swept") /\ End(r)
  /\ manifest' = ReadyRecord(request[r].content)
  /\ cut' = FALSE
  /\ UNCHANGED <<file, vector, sparse, solo>>

\* Any exception once the import is marked.
IndexFails(r) ==
  /\ request[r].pc \in Indexing /\ End(r) /\ manifest' = Marked("failed", TRUE)
  /\ UNCHANGED <<file, vector, sparse, solo, cut>>

-----------------------------------------------------------------------------
(* delete_document. *)

DropVectors(r) ==
  /\ At(r, "doomed") /\ GoTo(r, "unstored") /\ vector' = {} /\ cut' = TRUE
  /\ UNCHANGED <<file, manifest, sparse, solo>>
DropSparse(r) ==
  /\ At(r, "unstored") /\ GoTo(r, "unlisted") /\ sparse' = {}
  /\ UNCHANGED <<file, manifest, vector, solo, cut>>
ForgetRecord(r) ==
  /\ At(r, "unlisted") /\ End(r) /\ manifest' = NoRecord /\ cut' = FALSE
  /\ UNCHANGED <<file, vector, sparse, solo>>
\* A store refuses: what was removed stays removed.
DeleteFails(r) ==
  /\ request[r].pc \in Deleting /\ End(r)
  /\ UNCHANGED <<file, stores, solo, cut>>

-----------------------------------------------------------------------------
(* The file, and the process. *)

Edit ==
  /\ file' \in Contents \ {file}
  /\ UNCHANGED <<stores, request, solo, cut>>

\* Mutant: the next process leaves the statuses as they were.
Unrecovered == manifest
\* recover_interrupted_operations, before the first request of the next process.
Recovered ==
  IF manifest.status = "active" THEN [manifest EXCEPT !.status = "failed"] ELSE manifest
Restart ==
  /\ \E r \in Requests : ~At(r, "idle")
  /\ request' = [r \in Requests |-> Idle] /\ manifest' = Recovered
  /\ UNCHANGED <<file, vector, sparse, solo, cut>>

Step(r) ==
  \/ MarkParsing(r) \/ Parse(r) \/ Reuse(r) \/ Prepare(r) \/ StoreChunks(r)
  \/ ClearSparse(r) \/ ListSparse(r) \/ DropStale(r) \/ Publish(r) \/ IndexFails(r)
  \/ DropVectors(r) \/ DropSparse(r) \/ ForgetRecord(r) \/ DeleteFails(r)

Next ==
  \/ \E r \in Requests : Import(r) \/ Reindex(r) \/ Delete(r) \/ Step(r)
  \/ Edit \/ Restart

Spec == Init /\ [][Next]_vars
\* A thread that serves a request goes on until it has answered.
FairSpec == Spec /\ \A r \in Requests : WF_vars(Step(r))

-----------------------------------------------------------------------------
(* Properties. *)

\* What the manifest says of a document is what searching finds.  A ready document
\* has all its chunks in the vector store and, in the BM25 index, those and no
\* others, however many imports failed or were interrupted before; a document
\* without a record has left nothing behind in either.  Two requests for one
\* document at once break this, and so does a deletion that stopped halfway: solo
\* and cut leave them out.
SearchMatchesManifest ==
  solo /\ ~cut =>
    /\ manifest.status = "ready" => manifest.chunks \subseteq vector /\ sparse = manifest.chunks
    /\ manifest.status = "none" => vector = {} /\ sparse = {}

\* The status the desktop polls for does not stay active, whatever fails, stops or
\* overlaps: the import ends it, or the next process does.
IndexingEnds == (manifest.status = "active") ~> (manifest.status # "active")
=============================================================================
