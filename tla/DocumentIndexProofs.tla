------------------------- MODULE DocumentIndexProofs -------------------------
(***************************************************************************)
(* TypeOK and SearchMatchesManifest of DocumentIndex, for every set of     *)
(* contents and of threads.  SearchMatchesManifest speaks of the stores    *)
(* and of the record only; that a request keeps to it from one store to    *)
(* the next is what Call says of the request's own position.               *)
(***************************************************************************)
EXTENDS DocumentIndex, TLAPS

Alive(r) == ~At(r, "idle")

\* Who has parsed the file knows its content.
ContentKnown ==
  \A r \in Requests : request[r].pc \in Indexing \ {"parsing"} => request[r].content \in Contents

\* While no two requests have overlapped there is one at most.
OneRequest == \A r, s \in Requests : Alive(r) /\ Alive(s) => r = s

\* What the only request of a document has done so far and may count on.
Call(r) ==
  LET pc == request[r].pc
      content == request[r].content
      existing == request[r].existing
  IN /\ pc \in Indexing => manifest.status = "active"
     /\ pc \in {"stored", "cleared", "listed", "swept"} => content \in vector
     /\ pc = "cleared" => sparse = {}
     /\ pc \in {"listed", "swept"} => sparse = {content}
     /\ pc \in {"found", "parsing", "parsed"} /\ existing.status = "ready" /\ ~cut
          => existing.chunks \subseteq vector /\ sparse = existing.chunks
     /\ pc \in {"unstored", "unlisted"} => cut /\ vector = {}
     /\ pc = "unlisted" => sparse = {}

IndexInvariant ==
  /\ TypeOK /\ ContentKnown /\ SearchMatchesManifest
  /\ solo => OneRequest /\ \A r \in Requests : Call(r)
-----------------------------------------------------------------------------
(* Types. *)

LEMMA MarkedIsRecord ==
  ASSUME TypeOK, NEW status \in {"active", "failed"}, NEW uri \in BOOLEAN
  PROVE  /\ Marked(status, uri) \in RecordType
         /\ Marked(status, uri).status = status
  <1>1. CASE manifest.status = "none"
    BY <1>1 DEF Marked, RecordType, NoRecord
  <1>2. CASE manifest.status # "none"
    <2> DEFINE either == manifest.uri \/ uri
    <2>1. Marked(status, uri) = [manifest EXCEPT !.status = status, !.uri = either]
      BY <1>2, Zenon DEF Marked
    <2>2. either \in BOOLEAN
      OBVIOUS
    <2>3. /\ manifest = [status |-> manifest.status, uri |-> manifest.uri,
                         hash |-> manifest.hash, chunks |-> manifest.chunks]
          /\ manifest.hash \in Contents \cup {Nothing} /\ manifest.chunks \subseteq Contents
      BY DEF TypeOK, RecordType, ReadyRecord
    <2> HIDE DEF either
    <2> QED
      BY <2>1, <2>2, <2>3 DEF RecordType
  <1> QED
    BY <1>1, <1>2

LEMMA RecordParts ==
  ASSUME NEW record \in RecordType
  PROVE  /\ record.status \in {"none", "active", "failed", "ready"}
         /\ record.chunks \subseteq Contents
         /\ [NoRecord EXCEPT !.chunks = record.chunks] \in RecordType
  <1>1. /\ record.status \in {"none", "active", "failed", "ready"}
        /\ record.chunks \subseteq Contents
    BY DEF RecordType, ReadyRecord
  <1> DEFINE Unready == [status : {"none", "active", "failed"}, uri : BOOLEAN,
                         hash : Contents \cup {Nothing}, chunks : SUBSET Contents]
  <1>2. NoRecord \in Unready
    BY DEF NoRecord
  <1>3. [NoRecord EXCEPT !.chunks = record.chunks] \in Unready
    BY <1>1, <1>2
  <1> QED
    BY <1>1, <1>3 DEF RecordType

LEMMA FoundIsRecord ==
  ASSUME TypeOK
  PROVE  Found \in RecordType /\ NoRecord \in RecordType /\ Idle.existing \in RecordType
  BY DEF TypeOK, Found, NoRecord, RecordType, Idle

LEMMA RecoveredIsRecord ==
  ASSUME TypeOK
  PROVE  Recovered \in RecordType /\ Recovered.status # "active"
  BY DEF TypeOK, Recovered, RecordType, ReadyRecord

\* A position a request may be put in.
Position(entry) ==
  /\ entry \in RequestType
  /\ entry.pc \in Indexing \ {"parsing"} => entry.content \in Contents

LEMMA IdlePosition == Position(Idle)
  <1>1. NoRecord \in RecordType
    BY DEF NoRecord, RecordType
  <1> QED
    BY <1>1 DEF Position, Idle, RequestType, Indexing

LEMMA RequestTyped ==
  ASSUME TypeOK, ContentKnown, NEW r \in Requests,
         NEW entry, Position(entry), request' = [request EXCEPT ![r] = entry]
  PROVE  request' \in [Requests -> RequestType] /\ ContentKnown'
  BY DEF TypeOK, ContentKnown, Position

\* Every step of a request puts it in such a position.
LEMMA StepPosition ==
  ASSUME TypeOK, ContentKnown, NEW r \in Requests, Step(r)
  PROVE  \E entry : Position(entry) /\ request' = [request EXCEPT ![r] = entry]
  <1> DEFINE q == request[r]
  <1>1. q \in RequestType /\ (q.pc \in Indexing \ {"parsing"} => q.content \in Contents)
    BY DEF TypeOK, ContentKnown
  <1>2. CASE Prepare(r)
    <2> DEFINE kept == [NoRecord EXCEPT !.chunks = q.existing.chunks]
               entry == [q EXCEPT !.pc = "chunked", !.force = FALSE, !.existing = kept]
    <2>1. request' = [request EXCEPT ![r] = entry]
      BY <1>2 DEF Prepare, TypeOK
    <2>2. q.existing \in RecordType /\ q.content \in Contents
      BY <1>1, <1>2 DEF Prepare, At, Indexing, RequestType
    <2>3. kept \in RecordType
      BY <2>2, RecordParts
    <2> HIDE DEF kept
    <2>4. Position(entry)
      BY <1>1, <2>2, <2>3 DEF Position, RequestType, Indexing
    <2> QED
      BY <2>1, <2>4
  <1>3. CASE Parse(r)
    <2> DEFINE entry == [q EXCEPT !.pc = "parsed", !.content = file]
    <2>1. request' = [request EXCEPT ![r] = entry]
      BY <1>3 DEF Parse, TypeOK
    <2>2. Position(entry)
      BY <1>1 DEF TypeOK, Position, RequestType, Indexing
    <2> QED
      BY <2>1, <2>2
  <1>4. CASE Reuse(r) \/ Publish(r) \/ IndexFails(r) \/ ForgetRecord(r) \/ DeleteFails(r)
    BY <1>4, IdlePosition DEF Reuse, Publish, IndexFails, ForgetRecord, DeleteFails, End
  <1>5. ASSUME NEW pc \in Indexing \cup Deleting, GoTo(r, pc),
               q.pc \in Indexing \ {"parsing"} \/ pc = "parsing" \/ pc \in Deleting
        PROVE  \E entry : Position(entry) /\ request' = [request EXCEPT ![r] = entry]
    <2> DEFINE entry == [q EXCEPT !.pc = pc]
    <2>1. request' = [request EXCEPT ![r] = entry]
      BY <1>5 DEF GoTo, TypeOK
    <2>2. pc \in Indexing \ {"parsing"} => q.content \in Contents
      BY <1>1, <1>5 DEF Indexing, Deleting
    <2>3. Position(entry)
      BY <1>1, <2>2 DEF Position, RequestType
    <2> QED
      BY <2>1, <2>3
  <1>6. CASE MarkParsing(r)
    BY <1>6, <1>5 DEF MarkParsing, Indexing
  <1>7. CASE StoreChunks(r) \/ ClearSparse(r) \/ ListSparse(r) \/ DropStale(r)
    BY <1>7, <1>5 DEF StoreChunks, ClearSparse, ListSparse, DropStale, At, Indexing
  <1>8. CASE DropVectors(r) \/ DropSparse(r)
    BY <1>8, <1>5 DEF DropVectors, DropSparse, Deleting
  <1> QED
    BY <1>2, <1>3, <1>4, <1>6, <1>7, <1>8 DEF Step

LEMMA TypeStep ==
  ASSUME TypeOK, ContentKnown, [Next]_vars
  PROVE  TypeOK' /\ ContentKnown'
  <1>1. ASSUME NEW r \in Requests, Import(r) \/ Reindex(r) \/ Delete(r)
        PROVE  TypeOK' /\ ContentKnown'
    <2>1. PICK pc \in {"found", "doomed"}, force \in BOOLEAN, existing \in RecordType :
            Begin(r, pc, force, existing)
      BY <1>1, FoundIsRecord DEF Import, Reindex, Delete
    <2> DEFINE entry == [pc |-> pc, force |-> force, existing |-> existing, content |-> Nothing]
    <2>2. request' = [request EXCEPT ![r] = entry]
      BY <2>1 DEF Begin
    <2>3. Position(entry)
      BY <2>1 DEF Position, RequestType, Indexing, Deleting
    <2> HIDE DEF entry
    <2> QED
      BY <2>1, <2>2, <2>3, RequestTyped DEF Begin, TypeOK, stores
  <1>2. ASSUME NEW r \in Requests, Step(r)
        PROVE  TypeOK' /\ ContentKnown'
    <2> DEFINE q == request[r]
    <2>1. q \in RequestType /\ (q.pc \in Indexing \ {"parsing"} => q.content \in Contents)
      BY DEF TypeOK, ContentKnown
    <2>2. request' \in [Requests -> RequestType] /\ ContentKnown'
      BY <1>2, StepPosition, RequestTyped
    <2>3. manifest' \in RecordType
      <3>1. CASE MarkParsing(r) \/ Prepare(r) \/ IndexFails(r)
        BY <3>1, MarkedIsRecord DEF MarkParsing, Prepare, IndexFails
      <3>2. CASE Reuse(r)
        BY <2>1, <3>2 DEF Reuse, Restored, RequestType
      <3>3. CASE Publish(r)
        BY <2>1, <3>3 DEF Publish, At, Indexing, RecordType
      <3>4. CASE ForgetRecord(r)
        BY <3>4, FoundIsRecord DEF ForgetRecord
      <3>5. CASE manifest' = manifest
        BY <3>5 DEF TypeOK
      <3> QED
        BY <1>2, <3>1, <3>2, <3>3, <3>4, <3>5
           DEF Step, Parse, StoreChunks, ClearSparse, ListSparse, DropStale, DropVectors,
               DropSparse, DeleteFails, stores
    <2>4. vector' \subseteq Contents /\ sparse' \subseteq Contents
      <3>1. CASE StoreChunks(r) \/ ListSparse(r)
        BY <2>1, <3>1 DEF StoreChunks, ListSparse, TypeOK, At, Indexing
      <3>2. CASE vector' \subseteq vector /\ sparse' \subseteq sparse
        BY <3>2 DEF TypeOK
      <3> QED
        BY <1>2, <3>1, <3>2
           DEF Step, MarkParsing, Parse, Reuse, Prepare, ClearSparse, DropStale, Publish, IndexFails,
               DropVectors, DropSparse, ForgetRecord, DeleteFails, stores
    <2>5. file' \in Contents /\ solo' \in BOOLEAN /\ cut' \in BOOLEAN
      BY <1>2 DEF TypeOK, Step, MarkParsing, Parse, Reuse, Prepare, StoreChunks, ClearSparse,
                  ListSparse, DropStale, Publish, IndexFails, DropVectors, DropSparse,
                  ForgetRecord, DeleteFails
    <2> QED
      BY <2>2, <2>3, <2>4, <2>5 DEF TypeOK
  <1>3. CASE Edit
    BY <1>3 DEF Edit, TypeOK, ContentKnown, stores
  <1>4. CASE Restart
    BY <1>4, RecoveredIsRecord, IdlePosition DEF Restart, TypeOK, ContentKnown, Position
  <1>5. CASE UNCHANGED vars
    BY <1>5 DEF vars, stores, TypeOK, ContentKnown
  <1> QED
    BY <1>1, <1>2, <1>3, <1>4, <1>5 DEF Next

LEMMA InitTyped == Init => TypeOK /\ ContentKnown
  <1>1. NoRecord \in RecordType
    BY DEF NoRecord, RecordType
  <1> QED
    BY <1>1, IdlePosition DEF Init, TypeOK, ContentKnown, Position

\* A record, a store or a request never gets a value outside its type, whatever fails,
\* stops or overlaps.
THEOREM TypeCorrect == Spec => []TypeOK
  <1>1. Init => TypeOK /\ ContentKnown
    BY InitTyped
  <1>2. TypeOK /\ ContentKnown /\ [Next]_vars => TypeOK' /\ ContentKnown'
    BY TypeStep
  <1> QED
    BY <1>1, <1>2, PTL DEF Spec
-----------------------------------------------------------------------------
(* SearchMatchesManifest. *)

\* A request that has not begun or has ended counts on nothing.
LEMMA IdleCall ==
  ASSUME NEW r \in Requests, At(r, "idle")
  PROVE  Call(r)
  BY DEF At, Call, Indexing

\* When the only request steps, it alone is left to look at.
LEMMA OnlyRequestSteps ==
  ASSUME TypeOK, OneRequest, NEW r \in Requests, Alive(r), NEW entry,
         request' = [request EXCEPT ![r] = entry],
         Call(r)'
  PROVE  OneRequest' /\ \A s \in Requests : Call(s)'
  <1>1. \A s \in Requests \ {r} : At(s, "idle")'
    BY DEF TypeOK, OneRequest, Alive, At
  <1>2. \A s \in Requests \ {r} : Call(s)'
    <2>1. ASSUME NEW s \in Requests \ {r} PROVE Call(s)'
      BY <1>1, <2>1 DEF At, Call, Indexing
    <2> QED
      BY <2>1
  <1> QED
    BY <1>1, <1>2 DEF OneRequest, Alive, At

\* Every step of the only request keeps the stores to the record, or says that it cuts.
LEMMA StepKeeps ==
  ASSUME TypeOK, ContentKnown, SearchMatchesManifest, solo, NEW r \in Requests, Call(r), Step(r)
  PROVE  SearchMatchesManifest' /\ Call(r)'
  <1> DEFINE q == request[r]
  <1>1. /\ q \in RequestType /\ (q.pc \in Indexing \ {"parsing"} => q.content \in Contents)
        /\ q.existing.chunks \subseteq Contents
    BY RecordParts DEF TypeOK, ContentKnown, RequestType
  <1>2. CASE MarkParsing(r)
    <2>1. request'[r].pc = "parsing" /\ request'[r].existing = q.existing
      BY <1>2 DEF MarkParsing, GoTo, TypeOK
    <2>2. manifest'.status = "active"
      BY <1>2, MarkedIsRecord DEF MarkParsing
    <2> QED
      BY <1>2, <2>1, <2>2 DEF MarkParsing, At, Call, SearchMatchesManifest
  <1>3. CASE Parse(r)
    <2>1. request'[r].pc = "parsed" /\ request'[r].existing = q.existing
      BY <1>3 DEF Parse, TypeOK
    <2> QED
      BY <1>3, <2>1 DEF Parse, At, Call, SearchMatchesManifest, Indexing, stores
  <1>4. CASE Reuse(r)
    <2>1. request'[r].pc = "idle"
      BY <1>4 DEF Reuse, End, TypeOK, Idle
    <2>2. manifest' = q.existing /\ q.existing.status = "ready"
      BY <1>4 DEF Reuse, Restored, CanReuse
    <2> QED
      BY <1>4, <2>1, <2>2 DEF Reuse, At, Call, SearchMatchesManifest, Indexing
  <1>5. CASE Prepare(r)
    <2>1. request'[r].pc = "chunked"
      BY <1>5 DEF Prepare, TypeOK
    <2>2. manifest'.status = "active"
      BY <1>5, MarkedIsRecord DEF Prepare
    <2> QED
      BY <1>5, <2>1, <2>2 DEF Prepare, Call, SearchMatchesManifest
  <1>6. CASE StoreChunks(r)
    <2>1. request'[r].pc = "stored" /\ request'[r].content = q.content
      BY <1>6 DEF StoreChunks, GoTo, TypeOK
    <2> QED
      BY <1>6, <2>1 DEF StoreChunks, At, Call, SearchMatchesManifest, Indexing
  <1>7. CASE ClearSparse(r)
    <2>1. request'[r].pc = "cleared" /\ request'[r].content = q.content
      BY <1>7 DEF ClearSparse, GoTo, TypeOK
    <2> QED
      BY <1>7, <2>1 DEF ClearSparse, At, Call, SearchMatchesManifest, Indexing
  <1>8. CASE ListSparse(r)
    <2>1. request'[r].pc = "listed" /\ request'[r].content = q.content
      BY <1>8 DEF ListSparse, GoTo, TypeOK
    <2> QED
      BY <1>8, <2>1 DEF ListSparse, At, Call, SearchMatchesManifest, Indexing
  <1>9. CASE DropStale(r)
    <2>1. request'[r].pc = "swept" /\ request'[r].content = q.content
      BY <1>9 DEF DropStale, GoTo, TypeOK
    <2> QED
      BY <1>9, <2>1 DEF DropStale, Stale, At, Call, SearchMatchesManifest, Indexing
  <1>10. CASE Publish(r)
    <2>1. request'[r].pc = "idle"
      BY <1>10 DEF Publish, End, TypeOK, Idle
    <2>2. manifest'.status = "ready" /\ manifest'.chunks = {q.content}
      BY <1>10 DEF Publish, ReadyRecord
    <2> QED
      BY <1>10, <2>1, <2>2 DEF Publish, At, Call, SearchMatchesManifest, Indexing
  <1>11. CASE IndexFails(r)
    <2>1. request'[r].pc = "idle"
      BY <1>11 DEF IndexFails, End, TypeOK, Idle
    <2>2. manifest'.status = "failed"
      BY <1>11, MarkedIsRecord DEF IndexFails
    <2> QED
      BY <1>11, <2>1, <2>2 DEF IndexFails, Call, SearchMatchesManifest, Indexing
  <1>12. CASE DropVectors(r)
    <2>1. request'[r].pc = "unstored"
      BY <1>12 DEF DropVectors, GoTo, TypeOK
    <2> QED
      BY <1>12, <2>1 DEF DropVectors, Call, SearchMatchesManifest, Indexing
  <1>13. CASE DropSparse(r)
    <2>1. request'[r].pc = "unlisted"
      BY <1>13 DEF DropSparse, GoTo, TypeOK
    <2> QED
      BY <1>13, <2>1 DEF DropSparse, At, Call, SearchMatchesManifest, Indexing
  <1>14. CASE ForgetRecord(r)
    <2>1. request'[r].pc = "idle"
      BY <1>14 DEF ForgetRecord, End, TypeOK, Idle
    <2>2. manifest'.status = "none"
      BY <1>14 DEF ForgetRecord, NoRecord
    <2> QED
      BY <1>14, <2>1, <2>2 DEF ForgetRecord, At, Call, SearchMatchesManifest, Indexing
  <1>15. CASE DeleteFails(r)
    <2>1. request'[r].pc = "idle"
      BY <1>15 DEF DeleteFails, End, TypeOK, Idle
    <2> QED
      BY <1>15, <2>1 DEF DeleteFails, Call, SearchMatchesManifest, Indexing, stores
  <1> QED
    BY <1>2, <1>3, <1>4, <1>5, <1>6, <1>7, <1>8, <1>9, <1>10, <1>11, <1>12, <1>13, <1>14, <1>15
       DEF Step

LEMMA InvariantStep ==
  ASSUME IndexInvariant, [Next]_vars
  PROVE  IndexInvariant'
  <1>1. TypeOK' /\ ContentKnown'
    BY TypeStep DEF IndexInvariant
  <1> SUFFICES SearchMatchesManifest' /\ (solo' => OneRequest' /\ \A r \in Requests : Call(r)')
    BY <1>1 DEF IndexInvariant
  <1>2. ASSUME NEW r \in Requests, Import(r) \/ Reindex(r) \/ Delete(r)
        PROVE  SearchMatchesManifest' /\ (solo' => OneRequest' /\ \A s \in Requests : Call(s)')
    <2>1. PICK pc \in {"found", "doomed"}, force \in BOOLEAN, existing \in RecordType :
            Begin(r, pc, force, existing) /\ (pc = "found" => existing = Found)
      BY <1>2, FoundIsRecord DEF Import, Reindex, Delete, IndexInvariant
    <2>2. SearchMatchesManifest'
      BY <2>1 DEF IndexInvariant, SearchMatchesManifest, Begin, stores
    <2>3. ASSUME solo' PROVE OneRequest' /\ \A s \in Requests : Call(s)'
      <3>1. solo /\ \A s \in Requests : At(s, "idle")
        BY <2>1, <2>3 DEF Begin
      <3>2. \A s \in Requests \ {r} : At(s, "idle")'
        BY <2>1, <3>1 DEF Begin, At, IndexInvariant, TypeOK
      <3>3. \A s \in Requests \ {r} : Call(s)'
        <4>1. ASSUME NEW s \in Requests \ {r} PROVE Call(s)'
          BY <3>2, <4>1 DEF At, Call, Indexing
        <4> QED
          BY <4>1
      <3>4. request'[r].pc = pc /\ request'[r].existing = existing
        BY <2>1 DEF Begin, IndexInvariant, TypeOK
      <3>5. existing.status = "ready" /\ pc = "found" => manifest = existing
        BY <2>1 DEF Found, NoRecord
      <3>6. Call(r)'
        BY <2>1, <3>1, <3>4, <3>5
           DEF Begin, stores, Call, Indexing, IndexInvariant, SearchMatchesManifest
      <3> QED
        BY <3>2, <3>3, <3>6 DEF OneRequest, Alive, At
    <2> QED
      BY <2>2, <2>3
  <1>3. ASSUME NEW r \in Requests, Step(r)
        PROVE  SearchMatchesManifest' /\ (solo' => OneRequest' /\ \A s \in Requests : Call(s)')
    <2>1. solo' = solo
      BY <1>3 DEF Step, MarkParsing, Parse, Reuse, Prepare, StoreChunks, ClearSparse, ListSparse,
                  DropStale, Publish, IndexFails, DropVectors, DropSparse, ForgetRecord, DeleteFails
    <2>2. CASE ~solo
      BY <2>1, <2>2 DEF SearchMatchesManifest
    <2>3. CASE solo
      <3>1. SearchMatchesManifest' /\ Call(r)'
        BY <1>3, <2>3, StepKeeps DEF IndexInvariant
      <3>2. Alive(r)
        BY <1>3 DEF Step, MarkParsing, Parse, Reuse, Prepare, StoreChunks, ClearSparse, ListSparse,
                    DropStale, Publish, IndexFails, DropVectors, DropSparse, ForgetRecord,
                    DeleteFails, Alive, At, Indexing, Deleting
      <3>3. PICK entry : request' = [request EXCEPT ![r] = entry]
        BY <1>3, StepPosition DEF IndexInvariant
      <3> QED
        BY <2>3, <3>1, <3>2, <3>3, OnlyRequestSteps DEF IndexInvariant
    <2> QED
      BY <2>2, <2>3
  <1>4. CASE Edit
    BY <1>4 DEF Edit, stores, IndexInvariant, SearchMatchesManifest, OneRequest, Alive, At, Call
  <1>5. CASE Restart
    <2>1. \A r \in Requests : request'[r].pc = "idle"
      BY <1>5 DEF Restart, Idle
    <2>2. \A r \in Requests : Call(r)'
      <3>1. ASSUME NEW r \in Requests PROVE Call(r)'
        BY <2>1, <3>1 DEF Call, Indexing
      <3> QED
        BY <3>1
    <2>3. \/ manifest' = manifest
          \/ manifest'.status = "failed"
      BY <1>5 DEF Restart, Recovered, IndexInvariant, TypeOK, RecordType, ReadyRecord
    <2> QED
      BY <1>5, <2>1, <2>2, <2>3
         DEF Restart, IndexInvariant, SearchMatchesManifest, OneRequest, Alive, At
  <1>6. CASE UNCHANGED vars
    BY <1>6 DEF vars, stores, IndexInvariant, SearchMatchesManifest, OneRequest, Alive, At, Call
  <1> QED
    BY <1>2, <1>3, <1>4, <1>5, <1>6 DEF Next

\* A ready document is found with all its chunks and a forgotten one is not found, for
\* any number of contents, failures and restarts, while its requests do not overlap and
\* no deletion stops halfway.
THEOREM SearchMatches == Spec => []SearchMatchesManifest
  <1>1. Init => IndexInvariant
    <2>1. Init => TypeOK /\ ContentKnown
      BY InitTyped
    <2>2. Init => \A r \in Requests : request[r].pc = "idle"
      BY DEF Init, Idle
    <2>3. Init => \A r \in Requests : Call(r)
      BY <2>2, IdleCall DEF At
    <2> QED
      BY <2>1, <2>2, <2>3
         DEF Init, IndexInvariant, SearchMatchesManifest, NoRecord, OneRequest, Alive, At
  <1>2. IndexInvariant /\ [Next]_vars => IndexInvariant'
    BY InvariantStep
  <1>3. IndexInvariant => SearchMatchesManifest
    BY DEF IndexInvariant
  <1> QED
    BY <1>1, <1>2, <1>3, PTL DEF Spec
=============================================================================
