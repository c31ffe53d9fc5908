-------------------------- MODULE CompanionChatProofs --------------------------
(***************************************************************************)
(* The safety properties of CompanionChat for any number of requests and   *)
(* conversations, with one window or two, and any bound on faults.         *)
(***************************************************************************)
EXTENDS CompanionChat, ConversationStoreProofs, FiniteSetTheorems

\* A message belongs to a conversation that is in the table (the foreign key).
RowsInStore ==
  \A r \in Requests : IF Stored(r) THEN row[r].conv \in ToSet(recent) ELSE row[r] = NoRow

\* An exchange is begun by a handler that has claimed, once.
Begun == {r \in Requests : handler[r] \notin {"none", "received", "claimed"}}
BegunCounted == begun <= Cardinality(Begun)

\* Requests are numbered as they are sent, and reach a handler through a socket.
SentInOrder == Sent = 1 .. Cardinality(Sent)
LinkFits(r) ==
  /\ owner[r] = "nobody" => sock[r] = "none"
  /\ sock[r] \in {"none", "connecting"} => handler[r] = "none"

\* What the handler's place says of the producer, of terminal and of the row.
HandlerFits(r) ==
  /\ handler[r] \in {"none", "received", "claimed"} => ~Stored(r)
  /\ handler[r] \in {"none", "received", "claimed", "begun"} => producer[r] = "none"
  /\ handler[r] \in {"serving", "cancelling"} => producer[r] # "none"
  /\ handler[r] = "serving" /\ terminal[r] => producer[r] \in {"done", "error", "over"}
  /\ handler[r] = "cancelling" => terminal[r]
  /\ producer[r] = "none" => ~terminal[r] /\ queue[r] = <<>>
  /\ Streaming(r) => ~terminal[r] /\ (producer[r] # "none" => row[r].conv = conv[r])
  /\ row[r].status = "complete" => producer[r] # "none"
  /\ row[r].status \in TerminalStatus =>
       terminal[r] \/ (handler[r] = "ended" /\ producer[r] \in {"none", "over"})

\* The lease of a conversation is its claimant's until that handler ends, unless the
\* exchange went to another conversation; whoever generates undisplaced holds it.
LeaseFits(r) ==
  /\ \A c \in Conversations : lease[c] = r =>
       /\ handler[r] \notin {"none", "received"}
       /\ Displaced(r) \/ (conv[r] = c /\ handler[r] # "ended")
  /\ handler[r] \in {"claimed", "begun"} =>
       conv[r] = want[r] /\ (want[r] # None => lease[want[r]] = r)
  /\ Generating(r) /\ ~Displaced(r) => lease[conv[r]] = r

\* The reply is stored as complete, or was deleted with its branch or conversation.
Settled(r) == producer[r] # "none" /\ row[r].status \in {"complete", "absent"}

\* Where a done event may be: a cancel that was committed first is sent in its place.
QueueFits(r) ==
  /\ handler[r] = "serving" =>
       /\ producer[r] = "done" => Settled(r)
       /\ \A i \in DOMAIN queue[r] : queue[r][i].type = "done" => Settled(r)
  /\ handler[r] = "cancelling" => queue[r] # <<>> /\ Head(queue[r]).type = "cancelled"
WireFits(r) == \A i \in DOMAIN wire[r] : wire[r][i].type = "done" => Settled(r)

\* What a window shows, or has read, as complete.
Shows(V) == \A q \in Requests : V[q] = "complete" => Settled(q)
ViewsFit ==
  \A w \in Windows :
    /\ Shows(view[w]) /\ \A f \in fetches[w] : Shows(f.shown)
    /\ rewriting[w].checked => rewriting[w].from # None

ChatInvariant ==
  /\ TypeOK /\ RowsInStore /\ BegunCounted /\ SentInOrder /\ ViewsFit
  /\ \A r \in Requests :
       LinkFits(r) /\ HandlerFits(r) /\ LeaseFits(r) /\ QueueFits(r) /\ WireFits(r)
-----------------------------------------------------------------------------
(* The store. *)

StoreTyped ==
  /\ recent \in Seq(Conversations) /\ Len(recent) <= MaxConversations
  /\ created \in 0 .. MaxCreated /\ row \in [Requests -> RowType]

LEMMA Typed ==
  ASSUME ChatInvariant
  PROVE  /\ TypeOK /\ StoreTyped /\ RowsInStore /\ begun \in 0 .. MaxRequests
         /\ lease \in [Conversations -> Requests \cup {None}]
         /\ \A r \in Requests : row[r] \in RowType /\ row[r].pos \in Nat
         /\ None \notin Conversations /\ None \notin Requests
  BY DEF ChatInvariant, TypeOK, StoreTypeOK, StoreTyped, RowType, None, Conversations, Requests

LEMMA NoRowTyped ==
  NoRow \in RowType /\ NoRow.status = "absent" /\ NoRow.conv = None
  BY StoreAssumption DEF NoRow, RowType, Texts, TerminalStatus

LEMMA TouchExisting ==
  ASSUME ChatInvariant, NEW c \in ToSet(recent)
  PROVE  /\ Touched(recent, c) \in Seq(Conversations)
         /\ Len(Touched(recent, c)) <= MaxConversations
         /\ ToSet(Touched(recent, c)) = ToSet(recent)
  <1>1. recent \in Seq(Conversations) /\ Len(recent) <= MaxConversations
    BY Typed DEF StoreTyped
  <1>2. c \in Conversations
    BY <1>1 DEF ToSet
  <1>3. /\ Touched(recent, c) \in Seq(Conversations)
        /\ Len(Touched(recent, c)) = Len(recent)
        /\ ToSet(Touched(recent, c)) = ToSet(recent) \cup {c}
    BY <1>1, <1>2, TouchedType
  <1> QED
    BY <1>1, <1>3

\* A message rewritten in place.
LEMMA RewriteRow ==
  ASSUME ChatInvariant, NEW r \in Requests, NEW x \in RowType, Stored(r),
         x.conv = row[r].conv, x.status # "absent",
         row' = [row EXCEPT ![r] = x], recent' = Touched(recent, row[r].conv), created' = created
  PROVE  /\ StoreTyped' /\ RowsInStore' /\ row'[r] = x
         /\ \A q \in Requests \ {r} : row'[q] = row[q]
  <1>1. row[r].conv \in ToSet(recent) /\ row \in [Requests -> RowType] /\ created \in 0 .. MaxCreated
    BY Typed DEF RowsInStore, StoreTyped
  <1>2. /\ recent' \in Seq(Conversations) /\ Len(recent') <= MaxConversations
        /\ ToSet(recent') = ToSet(recent)
    BY <1>1, TouchExisting
  <1>3. /\ row' \in [Requests -> RowType] /\ row'[r] = x
        /\ \A q \in Requests \ {r} : row'[q] = row[q]
    BY <1>1
  <1>4. StoreTyped'
    BY <1>1, <1>2, <1>3 DEF StoreTyped
  <1>5. RowsInStore'
    BY <1>1, <1>2, <1>3, Typed DEF RowsInStore, Stored
  <1> QED
    BY <1>3, <1>4, <1>5

LEMMA StreamStore ==
  ASSUME ChatInvariant, NEW r \in Requests, NEW text \in Texts, UpdateStream(r, text)
  PROVE  /\ StoreTyped' /\ RowsInStore' /\ UNCHANGED begun
         /\ \A q \in Requests \ {r} : row'[q] = row[q]
         /\ row'[r].status = row[r].status /\ row'[r].conv = row[r].conv
         /\ row[r].status # "streaming" => row'[r] = row[r]
  <1>1. CASE row[r].status # "streaming"
    BY <1>1, Typed DEF UpdateStream, StoreTyped, RowsInStore, Stored
  <1>2. CASE row[r].status = "streaming"
    <2> DEFINE x == [row[r] EXCEPT !.content = text]
    <2>1. x \in RowType /\ x.conv = row[r].conv /\ x.status = row[r].status
      BY Typed DEF RowType
    <2>2. /\ row' = [row EXCEPT ![r] = x] /\ recent' = Touched(recent, row[r].conv)
          /\ created' = created /\ begun' = begun
      BY <1>2, Typed DEF UpdateStream, StoreTyped
    <2> HIDE DEF x
    <2> QED
      BY <1>2, <2>1, <2>2, RewriteRow DEF Stored
  <1> QED
    BY <1>1, <1>2

LEMMA FinalizeStore ==
  ASSUME ChatInvariant, NEW r \in Requests, NEW status \in TerminalStatus, NEW text \in Texts,
         FinalizeMessage(r, status, text)
  PROVE  /\ StoreTyped' /\ RowsInStore' /\ UNCHANGED begun
         /\ \A q \in Requests \ {r} : row'[q] = row[q]
         /\ IF Stored(r) THEN row'[r].status = status /\ row'[r].conv = row[r].conv
                         ELSE row'[r] = row[r]
  <1>1. CASE ~Stored(r)
    BY <1>1, Typed DEF FinalizeMessage, StoreTyped, RowsInStore, Stored
  <1>2. CASE Stored(r)
    <2> DEFINE x == [row[r] EXCEPT !.status = status, !.content = text]
    <2>1. x \in RowType /\ x.conv = row[r].conv /\ x.status = status /\ status # "absent"
      BY Typed DEF RowType, TerminalStatus
    <2>2. /\ row' = [row EXCEPT ![r] = x] /\ recent' = Touched(recent, row[r].conv)
          /\ created' = created /\ begun' = begun
      BY <1>2, Typed DEF FinalizeMessage, StoreTyped
    <2> HIDE DEF x
    <2> QED
      BY <1>2, <2>1, <2>2, RewriteRow
  <1> QED
    BY <1>1, <1>2

LEMMA CommitStore ==
  ASSUME ChatInvariant, NEW r \in Requests, NEW status \in TerminalStatus,
         CommitTerminal(r, status, latest[r])
  PROVE  /\ StoreTyped' /\ RowsInStore' /\ UNCHANGED begun
         /\ terminal' \in [Requests -> BOOLEAN]
         /\ \A q \in Requests \ {r} : row'[q] = row[q] /\ terminal'[q] = terminal[q]
         /\ terminal'[r] = (terminal[r] \/ producer[r] # "none")
         /\ IF terminal[r] \/ producer[r] = "none" \/ ~Stored(r)
              THEN row'[r] = row[r]
              ELSE row'[r].status = status /\ row'[r].conv = row[r].conv
  <1>1. terminal \in [Requests -> BOOLEAN] /\ latest[r] \in Texts
    BY Typed DEF TypeOK, ServerTypeOK
  <1>2. /\ terminal' \in [Requests -> BOOLEAN]
        /\ \A q \in Requests \ {r} : terminal'[q] = terminal[q]
        /\ terminal'[r] = (terminal[r] \/ producer[r] # "none")
    BY <1>1 DEF CommitTerminal
  <1>3. CASE terminal[r] \/ producer[r] = "none"
    <2>1. recent' = recent /\ created' = created /\ row' = row /\ begun' = begun
      BY <1>3 DEF CommitTerminal, storeVars
    <2> QED
      BY <1>2, <1>3, <2>1, Typed DEF StoreTyped, RowsInStore, Stored
  <1>4. CASE ~(terminal[r] \/ producer[r] = "none")
    BY <1>1, <1>2, <1>4, FinalizeStore DEF CommitTerminal
  <1> QED
    BY <1>3, <1>4

\* begin_exchange may trim other conversations, with their messages.
LEMMA BeginStore ==
  ASSUME ChatInvariant, NEW r \in Requests, NEW c \in Conversations \cup {None},
         BeginExchange(r, c), begun < MaxRequests
  PROVE  /\ StoreTyped' /\ RowsInStore' /\ begun' = begun + 1
         /\ TargetOf(c) \in Conversations
         /\ \A q \in Requests \ {r} : row'[q] \in {row[q], NoRow}
         /\ row'[r].status = "streaming" /\ row'[r].conv = TargetOf(c)
  <1> DEFINE t == TargetOf(c)
             s == Touched(recent, t)
             x == [conv |-> t, status |-> "streaming", content |-> "part", pos |-> begun + 1]
             started == [row EXCEPT ![r] = x]
  <1>0. /\ recent \in Seq(Conversations) /\ Len(recent) <= MaxConversations
        /\ created \in 0 .. MaxCreated /\ row \in [Requests -> RowType] /\ begun \in 0 .. MaxRequests
        /\ RowsInStore
    BY Typed DEF StoreTyped
  <1>1. t \in Conversations
    <2>1. CASE Exists(c)
      BY <1>0, <2>1 DEF TargetOf, Exists, ToSet
    <2>2. CASE ~Exists(c)
      <3>1. created < MaxCreated
        BY <2>2 DEF BeginExchange
      <3> QED
        BY <1>0, <2>2, <3>1, StoreAssumption DEF TargetOf, Conversations
    <2> QED
      BY <2>1, <2>2
  <1>2. created' \in 0 .. MaxCreated
    BY <1>0, StoreAssumption DEF BeginExchange
  <1>3. recent' = Kept(s) /\ begun' = begun + 1 /\ row' = RowsOf(started, ToSet(Kept(s)))
    BY DEF BeginExchange
  <1>4. x \in RowType /\ x.conv = t /\ x.status = "streaming"
    <2>1. begun + 1 \in 0 .. MaxRequests
      BY <1>0, StoreAssumption
    <2> QED
      BY <1>1, <2>1 DEF RowType, Texts
  <1>5. /\ s \in Seq(Conversations) /\ ToSet(s) = ToSet(recent) \cup {t} /\ Len(s) > 0
        /\ s[Len(s)] = t
    <2>1. /\ s \in Seq(Conversations) /\ ToSet(s) = ToSet(recent) \cup {t} /\ s[Len(s)] = t
      BY <1>0, <1>1, TouchedType
    <2>2. Len(s) > 0
      <3>1. t \in ToSet(s)
        BY <2>1
      <3> QED
        BY <2>1, <3>1 DEF ToSet
    <2> QED
      BY <2>1, <2>2
  <1> HIDE DEF x, s
  <1>6. /\ Kept(s) \in Seq(Conversations) /\ ToSet(Kept(s)) \subseteq ToSet(s)
        /\ Len(Kept(s)) <= MaxConversations /\ t \in ToSet(Kept(s))
    BY <1>5, KeptType
  <1>7. /\ started[r] = x /\ \A q \in Requests \ {r} : started[q] = row[q]
        /\ started \in [Requests -> RowType]
    BY <1>0, <1>4
  <1> HIDE DEF started, t
  <1>8. \A q \in Requests :
          row'[q] = IF started[q].conv \in ToSet(Kept(s)) THEN started[q] ELSE NoRow
    BY <1>3 DEF RowsOf
  <1>9. row' \in [Requests -> RowType]
    BY <1>3, <1>7, NoRowTyped DEF RowsOf
  <1>10. /\ row'[r] = x
         /\ \A q \in Requests \ {r} :
              row'[q] = IF row[q].conv \in ToSet(Kept(s)) THEN row[q] ELSE NoRow
    BY <1>4, <1>6, <1>7, <1>8
  <1>11. StoreTyped'
    BY <1>2, <1>3, <1>6, <1>9 DEF StoreTyped
  <1>12. RowsInStore'
    BY <1>0, <1>3, <1>4, <1>6, <1>10, NoRowTyped DEF RowsInStore, Stored
  <1> QED
    BY <1>1, <1>3, <1>4, <1>10, <1>11, <1>12 DEF t

LEMMA TouchStore ==
  ASSUME ChatInvariant, NEW c, Exists(c), recent' = Touched(recent, c),
         UNCHANGED <<created, row, begun>>
  PROVE  StoreTyped' /\ RowsInStore' /\ row' = row
  <1>1. /\ recent' \in Seq(Conversations) /\ Len(recent') <= MaxConversations
        /\ ToSet(recent') = ToSet(recent)
    BY TouchExisting DEF Exists
  <1> QED
    BY <1>1, Typed DEF StoreTyped, RowsInStore, Stored

LEMMA DeleteStore ==
  ASSUME ChatInvariant, NEW c \in Conversations, DeleteConversation(c)
  PROVE  /\ StoreTyped' /\ RowsInStore' /\ UNCHANGED begun
         /\ \A q \in Requests : row'[q] \in {row[q], NoRow}
  <1>0. /\ recent \in Seq(Conversations) /\ Len(recent) <= MaxConversations
        /\ created \in 0 .. MaxCreated /\ row \in [Requests -> RowType]
    BY Typed DEF StoreTyped
  <1>1. /\ recent' \in Seq(Conversations) /\ Len(recent') <= MaxConversations
        /\ ToSet(recent) \ {c} \subseteq ToSet(recent')
    <2>1. Len(recent) \in Nat /\ MaxConversations \in Nat
      BY <1>0, StoreAssumption
    <2> QED
      BY <1>0, <2>1, WithoutType DEF DeleteConversation
  <1>2. /\ row' = RowsOf(row, ToSet(recent) \ {c}) /\ created' = created /\ begun' = begun
    BY DEF DeleteConversation
  <1>3. row' \in [Requests -> RowType]
    BY <1>0, <1>2, NoRowTyped DEF RowsOf
  <1>4. \A q \in Requests :
          row'[q] = IF row[q].conv \in ToSet(recent) \ {c} THEN row[q] ELSE NoRow
    BY <1>2 DEF RowsOf
  <1>5. RowsInStore'
    BY <1>1, <1>4, Typed, NoRowTyped DEF RowsInStore, Stored
  <1> QED
    BY <1>0, <1>1, <1>2, <1>3, <1>4, <1>5 DEF StoreTyped

LEMMA RewindStore ==
  ASSUME ChatInvariant, NEW r \in Requests, NEW c, Rewind(c, r)
  PROVE  /\ StoreTyped' /\ RowsInStore' /\ UNCHANGED begun
         /\ \A q \in Requests : row'[q] \in {row[q], NoRow} /\ row'[q] = RewoundRows(c, r)[q]
  <1>1. /\ row' = RewoundRows(c, r) /\ recent' = recent /\ created' = created /\ begun' = begun
    BY DEF Rewind
  <1>2. row' \in [Requests -> RowType] /\ \A q \in Requests : row'[q] \in {row[q], NoRow}
    BY <1>1, Typed, NoRowTyped DEF RewoundRows, StoreTyped
  <1>3. RowsInStore'
    BY <1>1, <1>2, Typed, NoRowTyped DEF RowsInStore, Stored
  <1> QED
    BY <1>1, <1>2, <1>3, Typed DEF StoreTyped

LEMMA InitializeStore ==
  ASSUME ChatInvariant, Initialize
  PROVE  /\ StoreTyped' /\ RowsInStore' /\ UNCHANGED begun
         /\ \A q \in Requests :
              /\ row[q].status # "streaming" => row'[q] = row[q]
              /\ row[q].status = "streaming" =>
                   row'[q].status = "cancelled" /\ row'[q].conv = row[q].conv
  <1>1. recent' = recent /\ created' = created /\ begun' = begun
    BY DEF Initialize
  <1>2. \A q \in Requests :
          /\ row'[q] \in RowType
          /\ row[q].status # "streaming" => row'[q] = row[q]
          /\ row[q].status = "streaming" =>
               row'[q].status = "cancelled" /\ row'[q].conv = row[q].conv
    BY Typed DEF Initialize, RowType, TerminalStatus
  <1>3. row' \in [Requests -> RowType]
    BY <1>2 DEF Initialize
  <1>4. RowsInStore'
    BY <1>1, <1>2, Typed DEF RowsInStore, Stored
  <1> QED
    BY <1>1, <1>2, <1>3, <1>4, Typed DEF StoreTyped

-----------------------------------------------------------------------------
(* Steps of a handler and of its producer thread. *)

LEMMA ServerTyped ==
  ASSUME ChatInvariant, NEW r \in Requests
  PROVE  /\ handler \in [Requests -> {"none", "received", "claimed", "begun", "serving",
                                      "cancelling", "closing", "raising", "ended", "broken"}]
         /\ conv \in [Requests -> Conversations \cup {None}]
         /\ cancelEvent \in [Requests -> BOOLEAN] /\ terminal \in [Requests -> BOOLEAN]
         /\ producer \in [Requests -> {"none", "streaming", "flushing", "verifying",
                                       "committing", "failing", "done", "error", "over"}]
         /\ latest \in [Requests -> Texts] /\ queue \in [Requests -> Seq(EventType)]
         /\ want[r] \in Conversations \cup {None} /\ wire \in [Requests -> Seq(EventType)]
         /\ cancelSent \in [Requests -> BOOLEAN] /\ faults \in 0 .. MaxFaults
         /\ LinkFits(r) /\ HandlerFits(r) /\ LeaseFits(r) /\ QueueFits(r) /\ WireFits(r)
  BY DEF ChatInvariant, TypeOK, ServerTypeOK, LinkTypeOK

LEMMA StoredConv ==
  ASSUME ChatInvariant, NEW r \in Requests, Stored(r)
  PROVE  row[r].conv \in Conversations
  <1>1. row[r].conv \in ToSet(recent) /\ recent \in Seq(Conversations)
    BY Typed DEF RowsInStore, StoreTyped
  <1> QED
    BY <1>1 DEF ToSet

\* No handler goes back before its exchange.
LEMMA SameBegun ==
  ASSUME ChatInvariant, begun' = begun,
         \A q \in Requests : handler'[q] \in {"none", "received", "claimed"} =>
                            handler[q] \in {"none", "received", "claimed"}
  PROVE  BegunCounted'
  <1>1. Begun \subseteq Begun' /\ Begun' \subseteq Requests
    BY DEF Begun
  <1>2. IsFiniteSet(Requests)
    BY FS_Interval, StoreAssumption DEF Requests
  <1>3. /\ IsFiniteSet(Begun') /\ Cardinality(Begun) <= Cardinality(Begun')
        /\ IsFiniteSet(Begun)
    BY <1>1, <1>2, FS_Subset
  <1>4. Cardinality(Begun) \in Nat /\ Cardinality(Begun') \in Nat /\ begun \in Nat
    BY <1>3, Typed, FS_CardinalityType
  <1>5. begun <= Cardinality(Begun) /\ begun' = begun
    BY DEF ChatInvariant, BegunCounted
  <1>6. begun' <= Cardinality(Begun')
    BY <1>3, <1>4, <1>5
  <1> QED
    BY <1>6 DEF BegunCounted

LEMMA ReplyIs ==
  ASSUME ChatInvariant, NEW r \in Requests, NEW e \in EventType, Reply(r, e)
  PROVE  /\ wire' \in [Requests -> Seq(EventType)]
         /\ \A q \in Requests \ {r} : wire'[q] = wire[q]
         /\ \A i \in DOMAIN wire'[r] :
              \/ wire'[r][i] = e
              \/ i \in DOMAIN wire[r] /\ wire'[r][i] = wire[r][i]
  <1>1. wire \in [Requests -> Seq(EventType)] /\ wire[r] \in Seq(EventType)
    BY ServerTyped
  <1>2. CASE sock[r] = "open"
    <2> DEFINE s == Append(wire[r], e)
    <2>1. /\ s \in Seq(EventType) /\ DOMAIN s = 1 .. Len(wire[r]) + 1
          /\ DOMAIN wire[r] = 1 .. Len(wire[r]) /\ Len(wire[r]) \in Nat
          /\ s[Len(wire[r]) + 1] = e /\ \A i \in 1 .. Len(wire[r]) : s[i] = wire[r][i]
      BY <1>1
    <2>2. wire' = [wire EXCEPT ![r] = s]
      BY <1>2 DEF Reply
    <2> HIDE DEF s
    <2>3. /\ wire' \in [Requests -> Seq(EventType)] /\ wire'[r] = s
          /\ \A q \in Requests \ {r} : wire'[q] = wire[q]
      BY <1>1, <2>1, <2>2
    <2>4. \A i \in 1 .. Len(wire[r]) + 1 : i = Len(wire[r]) + 1 \/ i \in 1 .. Len(wire[r])
      BY <2>1
    <2> QED
      BY <2>1, <2>3, <2>4
  <1>3. CASE sock[r] # "open"
    <2>1. wire' = wire
      BY <1>1, <1>3 DEF Reply
    <2> QED
      BY <1>1, <2>1
  <1> QED
    BY <1>2, <1>3

\* What a step of one request's handler or producer must keep.
LEMMA ServerSide ==
  ASSUME ChatInvariant, NEW r \in Requests,
         StoreTyped', RowsInStore', BegunCounted', begun' \in 0 .. MaxRequests,
         lease' \in [Conversations -> Requests \cup {None}], ServerTypeOK',
         cancelSent' \in [Requests -> BOOLEAN], faults' \in 0 .. MaxFaults,
         sock' = sock \/ sock' = Dropped(r),
         UNCHANGED <<linkVars, windowVars, deleting, gestures>>,
         \/ wire' = wire
         \/ \E e \in EventType : Reply(r, e) /\ (e.type = "done" => Settled(r)),
         \A q \in Requests \ {r} :
           /\ handler'[q] = handler[q] /\ conv'[q] = conv[q] /\ terminal'[q] = terminal[q]
           /\ producer'[q] = producer[q] /\ queue'[q] = queue[q]
           /\ row'[q] \in {row[q], NoRow}
           /\ \A c \in Conversations : lease'[c] = q <=> lease[c] = q,
         handler[r] # "none", handler'[r] # "none",
         Settled(r) => Settled(r)',
         HandlerFits(r)', LeaseFits(r)', QueueFits(r)'
  PROVE  ChatInvariant'
  <1>0. /\ want' = want /\ owner' = owner /\ scopeOf' = scopeOf
        /\ cancelRequested' = cancelRequested /\ linkTerminal' = linkTerminal
        /\ win' = win /\ view' = view /\ fetches' = fetches /\ rewriting' = rewriting
        /\ signals' = signals /\ pendingSignal' = pendingSignal
        /\ deleting' = deleting /\ gestures' = gestures
    BY DEF linkVars, windowVars
  <1>s. /\ sock' \in [Requests -> {"none", "connecting", "open", "closed", "lost"}]
        /\ \A q \in Requests :
             /\ sock'[q] = "none" <=> sock[q] = "none"
             /\ sock'[q] = "connecting" <=> sock[q] = "connecting"
    <2>1. sock \in [Requests -> {"none", "connecting", "open", "closed", "lost"}]
      BY DEF ChatInvariant, TypeOK, LinkTypeOK
    <2> QED
      BY <2>1 DEF Dropped
  <1>1. \A q \in Requests : Settled(q) => Settled(q)'
    BY NoRowTyped DEF Settled
  <1>2. /\ wire' \in [Requests -> Seq(EventType)] /\ WireFits(r)'
        /\ \A q \in Requests \ {r} : wire'[q] = wire[q]
    <2>1. CASE wire' = wire
      BY <1>1, <2>1, ServerTyped DEF WireFits
    <2>2. CASE \E e \in EventType : Reply(r, e) /\ (e.type = "done" => Settled(r))
      <3>1. PICK e \in EventType : Reply(r, e) /\ (e.type = "done" => Settled(r))
        BY <2>2
      <3>2. /\ wire' \in [Requests -> Seq(EventType)]
            /\ \A q \in Requests \ {r} : wire'[q] = wire[q]
            /\ \A i \in DOMAIN wire'[r] :
                 \/ wire'[r][i] = e
                 \/ i \in DOMAIN wire[r] /\ wire'[r][i] = wire[r][i]
        BY <3>1, ReplyIs
      <3> QED
        BY <1>1, <3>1, <3>2, ServerTyped DEF WireFits
    <2> QED
      BY <2>1, <2>2
  <1>3. TypeOK'
    BY <1>0, <1>s, <1>2
       DEF ChatInvariant, TypeOK, StoreTypeOK, StoreTyped, LinkTypeOK, WindowTypeOK
  <1>4. SentInOrder' /\ ViewsFit'
    BY <1>0, <1>1 DEF ChatInvariant, SentInOrder, Sent, ViewsFit, Shows
  <1>5. ASSUME NEW q \in Requests PROVE LinkFits(q)'
    <2>1. LinkFits(q)
      BY ServerTyped
    <2>2. q # r => handler'[q] = handler[q]
      OBVIOUS
    <2>3. /\ owner'[q] = owner[q]
          /\ sock'[q] = "none" <=> sock[q] = "none"
          /\ sock'[q] = "connecting" <=> sock[q] = "connecting"
      BY <1>0, <1>s
    <2> QED
      BY <2>1, <2>2, <2>3 DEF LinkFits
  <1>6. ASSUME NEW q \in Requests \ {r} PROVE HandlerFits(q)' /\ QueueFits(q)' /\ WireFits(q)'
    <2>1. HandlerFits(q) /\ QueueFits(q) /\ WireFits(q)
      BY ServerTyped
    <2>2. HandlerFits(q)'
      BY <2>1, NoRowTyped DEF HandlerFits, Stored, Streaming, TerminalStatus
    <2>3. QueueFits(q)'
      BY <1>1, <2>1 DEF QueueFits
    <2>4. WireFits(q)'
      BY <1>1, <1>2, <2>1 DEF WireFits
    <2> QED
      BY <2>2, <2>3, <2>4
  <1>7. ASSUME NEW q \in Requests \ {r} PROVE LeaseFits(q)'
    <2>1. Generating(q)' => Generating(q) /\ conv[q] \in Conversations
      <3>1. Generating(q) => conv[q] = row[q].conv /\ row[q].conv \in Conversations
        BY ServerTyped, StoredConv DEF HandlerFits, Stored, Streaming, Generating
      <3> QED
        BY <3>1, NoRowTyped DEF Streaming, Generating
    <2>2. want[q] # None => want[q] \in Conversations
      BY ServerTyped
    <2>3. Displaced(q)' <=> Displaced(q)
      BY <1>0 DEF Displaced
    <2>4. LeaseFits(q)
      BY ServerTyped
    <2>5. /\ handler'[q] = handler[q] /\ conv'[q] = conv[q] /\ want'[q] = want[q]
          /\ \A c \in Conversations : lease'[c] = q <=> lease[c] = q
      BY <1>0
    <2> QED
      BY <2>1, <2>2, <2>3, <2>4, <2>5 DEF LeaseFits
  <1> QED
    BY <1>2, <1>3, <1>4, <1>5, <1>6, <1>7 DEF ChatInvariant

\* The same for a step that leaves the store and the leases alone.
LEMMA StorelessServerSide ==
  ASSUME ChatInvariant, NEW r \in Requests,
         UNCHANGED <<storeVars, lease, conv, terminal>>, ServerTypeOK',
         cancelSent' \in [Requests -> BOOLEAN], faults' \in 0 .. MaxFaults,
         sock' = sock \/ sock' = Dropped(r),
         UNCHANGED <<linkVars, windowVars, deleting, gestures>>,
         \/ wire' = wire
         \/ \E e \in EventType : Reply(r, e) /\ (e.type = "done" => Settled(r)),
         \A q \in Requests \ {r} :
           handler'[q] = handler[q] /\ producer'[q] = producer[q] /\ queue'[q] = queue[q],
         handler[r] # "none", handler'[r] \notin {"none", "received", "claimed"},
         producer'[r] = "none" <=> producer[r] = "none",
         HandlerFits(r)', LeaseFits(r)', QueueFits(r)'
  PROVE  ChatInvariant'
  <1>1. /\ recent' = recent /\ created' = created /\ row' = row /\ begun' = begun
        /\ lease' = lease /\ conv' = conv /\ terminal' = terminal
    BY DEF storeVars
  <1>2. StoreTyped' /\ RowsInStore' /\ begun' \in 0 .. MaxRequests
    BY <1>1, Typed DEF StoreTyped, RowsInStore, Stored
  <1>3. BegunCounted'
    BY <1>1, SameBegun
  <1>4. Settled(r) => Settled(r)'
    BY <1>1 DEF Settled
  <1> QED
    BY <1>1, <1>2, <1>3, <1>4, Typed, ServerSide

LEMMA EventTyped ==
  /\ \A r \in Requests, t \in {"accepted", "busy", "done", "cancelled", "error"} :
       \A c \in Conversations \cup {None} :
         /\ Event(t, c) \in EventType /\ Event(t, c).type = t
  BY DEF Event, EventType

LEMMA ClaimStep ==
  ASSUME ChatInvariant, NEW r \in Requests, Claim(r)
  PROVE  ChatInvariant'
  <1>1. /\ handler[r] = "received" /\ handler' = [handler EXCEPT ![r] = "claimed"]
        /\ conv' = [conv EXCEPT ![r] = want[r]]
        /\ recent' = recent /\ created' = created /\ row' = row /\ begun' = begun
        /\ cancelEvent' = cancelEvent /\ terminal' = terminal /\ producer' = producer
        /\ latest' = latest /\ queue' = queue /\ cancelSent' = cancelSent /\ wire' = wire
        /\ faults' = faults /\ UNCHANGED <<sock, linkVars, windowVars, deleting, gestures>>
    BY DEF Claim, storeVars, socketVars, bounds
  <1>2. \/ want[r] = None /\ lease' = lease
        \/ want[r] \in Conversations /\ lease[want[r]] = None
           /\ lease' = [lease EXCEPT ![want[r]] = r]
    BY ServerTyped DEF Claim, AcquireLease, Available
  <1>3. ServerTypeOK' /\ handler'[r] = "claimed" /\ conv'[r] = want[r] /\ want' = want
    BY <1>1, ServerTyped DEF ServerTypeOK, linkVars
  <1>4. /\ lease' \in [Conversations -> Requests \cup {None}]
        /\ \A q \in Requests \ {r}, c \in Conversations : lease'[c] = q <=> lease[c] = q
        /\ want[r] # None => lease'[want[r]] = r
        /\ \A c \in Conversations : lease'[c] = r => lease[c] = r \/ c = want[r]
    BY <1>2, Typed
  <1>5. StoreTyped' /\ RowsInStore' /\ BegunCounted' /\ begun' \in 0 .. MaxRequests
    BY <1>1, SameBegun, Typed DEF StoreTyped, RowsInStore, Stored
  <1>6. /\ producer[r] = "none" /\ ~Stored(r) /\ ~terminal[r] /\ queue[r] = <<>>
        /\ \A c \in Conversations : lease[c] # r
    BY <1>1, ServerTyped DEF HandlerFits, LeaseFits
  <1>7. HandlerFits(r)'
    BY <1>1, <1>3, <1>6 DEF HandlerFits, Stored, Streaming, TerminalStatus
  <1>8. LeaseFits(r)'
    BY <1>1, <1>3, <1>4, <1>6 DEF LeaseFits, Generating, Displaced
  <1>9. QueueFits(r)' /\ (Settled(r) => Settled(r)')
    BY <1>1, <1>3 DEF QueueFits, Settled
  <1>10. \A q \in Requests \ {r} : handler'[q] = handler[q] /\ conv'[q] = conv[q]
    BY <1>1, ServerTyped
  <1>11. cancelSent' \in [Requests -> BOOLEAN] /\ faults' \in 0 .. MaxFaults
    BY <1>1, ServerTyped
  <1> QED
    BY <1>1, <1>3, <1>4, <1>5, <1>7, <1>8, <1>9, <1>10, <1>11, ServerSide

LEMMA RefuseBusyStep ==
  ASSUME ChatInvariant, NEW r \in Requests, RefuseBusy(r)
  PROVE  ChatInvariant'
  <1>1. /\ handler[r] = "received" /\ handler' = [handler EXCEPT ![r] = "ended"]
        /\ Reply(r, Event("busy", want[r])) /\ UNCHANGED <<storeVars, lease, conv, terminal>>
        /\ cancelEvent' = cancelEvent /\ producer' = producer /\ latest' = latest
        /\ queue' = queue /\ cancelSent' = cancelSent /\ faults' = faults
        /\ UNCHANGED <<sock, linkVars, windowVars, deleting, gestures>>
    BY DEF RefuseBusy, bounds
  <1>2. ServerTypeOK' /\ handler'[r] = "ended"
        /\ \A q \in Requests \ {r} : handler'[q] = handler[q]
    BY <1>1, ServerTyped DEF ServerTypeOK
  <1>3. Event("busy", want[r]) \in EventType /\ Event("busy", want[r]).type = "busy"
    BY ServerTyped, EventTyped
  <1>4. /\ producer[r] = "none" /\ ~Stored(r) /\ ~terminal[r] /\ queue[r] = <<>>
        /\ \A c \in Conversations : lease[c] # r
    BY <1>1, ServerTyped DEF HandlerFits, LeaseFits
  <1>5. HandlerFits(r)' /\ LeaseFits(r)' /\ QueueFits(r)'
    BY <1>1, <1>2, <1>4
       DEF HandlerFits, LeaseFits, QueueFits, Stored, Streaming, Generating, TerminalStatus,
           storeVars
  <1>6. cancelSent' \in [Requests -> BOOLEAN] /\ faults' \in 0 .. MaxFaults
    BY <1>1, ServerTyped
  <1> QED
    BY <1>1, <1>2, <1>3, <1>5, <1>6, StorelessServerSide

\* A lease stays with a handler that goes on.
LEMMA LeaseKept ==
  ASSUME ChatInvariant, NEW r \in Requests, lease' = lease, conv' = conv, want' = want,
         handler'[r] # handler[r] =>
           /\ handler'[r] \in {"cancelling", "closing", "raising", "broken"}
           /\ handler[r] # "received",
         handler[r] # "none", Generating(r)' => Generating(r)
  PROVE  LeaseFits(r)'
  <1>1. Displaced(r)' <=> Displaced(r)
    BY DEF Displaced
  <1>2. LeaseFits(r)
    BY ServerTyped
  <1> QED
    BY <1>1, <1>2 DEF LeaseFits

\* What a commit says of the reply, while its handler or its producer still runs.
LEMMA CommitKeeps ==
  ASSUME ChatInvariant, NEW r \in Requests, NEW status \in TerminalStatus,
         CommitTerminal(r, status, latest[r]),
         producer[r] \notin {"none", "over"} \/ handler[r] # "ended"
  PROVE  /\ producer[r] # "none" => ~Streaming(r)'
         /\ Settled(r) => row'[r].status \in {"complete", "absent"}
         /\ terminal'[r] = (terminal[r] \/ producer[r] # "none")
         /\ row'[r].status \in TerminalStatus => terminal'[r]
         /\ ~terminal[r] /\ producer[r] # "none" => row'[r].status \in {status, "absent"}
         /\ producer[r] = "none" => row'[r] = row[r]
  <1>1. /\ terminal'[r] = (terminal[r] \/ producer[r] # "none")
        /\ IF terminal[r] \/ producer[r] = "none" \/ ~Stored(r)
             THEN row'[r] = row[r]
             ELSE row'[r].status = status /\ row'[r].conv = row[r].conv
    BY CommitStore
  <1>2. HandlerFits(r) /\ row[r] \in RowType
    BY ServerTyped, Typed
  <1> QED
    BY <1>1, <1>2 DEF HandlerFits, Settled, Streaming, Stored, TerminalStatus, RowType

\* What a step of a producer must keep.
LEMMA ProducerSide ==
  ASSUME ChatInvariant, NEW r \in Requests,
         NEW p \in {"streaming", "flushing", "verifying", "committing", "failing", "done",
                    "error", "over"},
         producer[r] # "none", ProducerTo(r, p),
         UNCHANGED <<lease, handler, conv, cancelEvent, socketVars, linkVars, windowVars,
                     deleting, bounds>>,
         StoreTyped', RowsInStore', begun' = begun,
         latest' \in [Requests -> Texts], queue' \in [Requests -> Seq(EventType)],
         terminal' \in [Requests -> BOOLEAN],
         \A q \in Requests \ {r} :
           terminal'[q] = terminal[q] /\ queue'[q] = queue[q] /\ row'[q] = row[q],
         Streaming(r)' => Streaming(r), Settled(r) => Settled(r)',
         HandlerFits(r)', QueueFits(r)'
  PROVE  ChatInvariant'
  <1>1. /\ lease' = lease /\ handler' = handler /\ conv' = conv /\ cancelEvent' = cancelEvent
        /\ sock' = sock /\ cancelSent' = cancelSent /\ wire' = wire /\ want' = want
        /\ UNCHANGED <<sock, linkVars, windowVars, deleting, gestures>>
        /\ faults' = faults /\ producer' = [producer EXCEPT ![r] = p]
    BY DEF socketVars, bounds, linkVars, ProducerTo
  <1>2. handler[r] \notin {"none", "received", "claimed", "begun"}
    BY ServerTyped DEF HandlerFits
  <1>3. ServerTypeOK' /\ producer'[r] = p
        /\ \A q \in Requests \ {r} : producer'[q] = producer[q]
    BY <1>1, ServerTyped DEF ServerTypeOK
  <1>4. BegunCounted'
    BY <1>1, SameBegun
  <1>5. LeaseFits(r)'
    <2>1. Generating(r)' => Generating(r)
      BY <1>1 DEF Generating
    <2> QED
      BY <1>1, <1>2, <2>1, LeaseKept
  <1>6. /\ cancelSent' \in [Requests -> BOOLEAN] /\ faults' \in 0 .. MaxFaults
        /\ begun' \in 0 .. MaxRequests
        /\ lease' \in [Conversations -> Requests \cup {None}]
    BY <1>1, ServerTyped, Typed
  <1> QED
    BY <1>1, <1>2, <1>3, <1>4, <1>5, <1>6, ServerSide

\* The same for a step that leaves the store and the queue alone.
LEMMA SilentProducer ==
  ASSUME ChatInvariant, NEW r \in Requests,
         NEW p \in {"streaming", "flushing", "verifying", "committing", "failing", "over"},
         producer[r] \in {"streaming", "flushing", "verifying"}, ProducerTo(r, p),
         UNCHANGED <<storeVars, lease, handler, conv, cancelEvent, terminal, queue, socketVars,
                     linkVars, windowVars, deleting, bounds>>,
         latest' \in [Requests -> Texts]
  PROVE  ChatInvariant'
  <1>1. /\ recent' = recent /\ created' = created /\ row' = row /\ begun' = begun
        /\ terminal' = terminal /\ queue' = queue /\ handler' = handler /\ conv' = conv
        /\ producer'[r] = p
    BY ServerTyped DEF storeVars, ProducerTo
  <1>2. StoreTyped' /\ RowsInStore'
    BY <1>1, Typed DEF StoreTyped, RowsInStore, Stored
  <1>3. HandlerFits(r)' /\ QueueFits(r)'
    BY <1>1, ServerTyped DEF HandlerFits, QueueFits, Stored, Streaming, Settled
  <1>4. (Streaming(r)' => Streaming(r)) /\ (Settled(r) => Settled(r)')
    BY <1>1 DEF Streaming, Settled
  <1> QED
    BY <1>1, <1>2, <1>3, <1>4, ServerTyped, ProducerSide

LEMMA ProducerKept ==
  ASSUME ChatInvariant, NEW r \in Requests, ProducerStep(r)
  PROVE  ChatInvariant'
  <1>0. /\ latest \in [Requests -> Texts] /\ queue \in [Requests -> Seq(EventType)]
        /\ terminal \in [Requests -> BOOLEAN] /\ HandlerFits(r) /\ QueueFits(r)
    BY ServerTyped
  <1>1. CASE Delta(r)
    BY <1>0, <1>1, SilentProducer DEF Delta
  <1>2. CASE Flush(r)
    <2>1. /\ producer[r] = "flushing" /\ UpdateStream(r, latest[r]) /\ ProducerTo(r, "streaming")
          /\ UNCHANGED <<lease, handler, conv, cancelEvent, terminal, latest, queue, socketVars,
                         linkVars, windowVars, deleting, bounds>>
      BY <1>2 DEF Flush
    <2>2. /\ StoreTyped' /\ RowsInStore' /\ begun' = begun
          /\ \A q \in Requests \ {r} : row'[q] = row[q]
          /\ row'[r].status = row[r].status /\ row'[r].conv = row[r].conv
      BY <1>0, <2>1, StreamStore
    <2>3. producer'[r] = "streaming" /\ latest' = latest /\ queue' = queue /\ terminal' = terminal
          /\ handler' = handler /\ conv' = conv
      BY <2>1, ServerTyped DEF ProducerTo
    <2>4. HandlerFits(r)' /\ QueueFits(r)'
      BY <1>0, <2>1, <2>2, <2>3 DEF HandlerFits, QueueFits, Stored, Streaming, Settled
    <2>5. (Streaming(r)' => Streaming(r)) /\ (Settled(r) => Settled(r)')
      BY <2>1, <2>2, <2>3 DEF Streaming, Settled
    <2> QED
      BY <1>0, <2>1, <2>2, <2>3, <2>4, <2>5, ProducerSide
  <1>3. CASE EndStream(r)
    <2>1. /\ producer[r] = "streaming"
          /\ UNCHANGED <<storeVars, lease, handler, conv, cancelEvent, terminal, queue,
                         socketVars, linkVars, windowVars, deleting, bounds>>
          /\ latest' \in [Requests -> Texts]
          /\ \E p \in {"over", "committing", "verifying"} : ProducerTo(r, p)
      BY <1>0, <1>3 DEF EndStream, Texts
    <2> QED
      BY <2>1, SilentProducer
  <1>4. CASE Verify(r)
    <2>1. PICK text \in {"full", "fallback"} :
            latest' = [latest EXCEPT ![r] = text] /\ UpdateStream(r, text)
      BY <1>4 DEF Verify
    <2>2. /\ producer[r] = "verifying" /\ ProducerTo(r, "committing")
          /\ UNCHANGED <<lease, handler, conv, cancelEvent, terminal, queue, socketVars,
                         linkVars, windowVars, deleting, bounds>>
      BY <1>4 DEF Verify
    <2>3. /\ StoreTyped' /\ RowsInStore' /\ begun' = begun
          /\ \A q \in Requests \ {r} : row'[q] = row[q]
          /\ row'[r].status = row[r].status /\ row'[r].conv = row[r].conv
      BY <2>1, StreamStore DEF Texts
    <2>4. /\ producer'[r] = "committing" /\ queue' = queue /\ terminal' = terminal
          /\ handler' = handler /\ conv' = conv /\ latest' \in [Requests -> Texts]
      BY <1>0, <2>1, <2>2, ServerTyped DEF ProducerTo, Texts
    <2>5. HandlerFits(r)' /\ QueueFits(r)'
      BY <1>0, <2>2, <2>3, <2>4 DEF HandlerFits, QueueFits, Stored, Streaming, Settled
    <2>6. (Streaming(r)' => Streaming(r)) /\ (Settled(r) => Settled(r)')
      BY <2>2, <2>3, <2>4 DEF Streaming, Settled
    <2> QED
      BY <1>0, <2>2, <2>3, <2>4, <2>5, <2>6, ProducerSide
  <1>5. ASSUME NEW status \in {"complete", "error"}, CommitTerminal(r, status, latest[r]),
               NEW p \in {"done", "error"}, p = "done" => status = "complete",
               producer[r] \in {"committing", "failing"}, ProducerTo(r, p),
               UNCHANGED <<lease, handler, conv, cancelEvent, latest, queue, socketVars,
                           linkVars, windowVars, deleting, bounds>>
        PROVE  ChatInvariant'
    <2>1. status \in TerminalStatus
      BY DEF TerminalStatus
    <2>2. /\ StoreTyped' /\ RowsInStore' /\ begun' = begun
          /\ terminal' \in [Requests -> BOOLEAN]
          /\ \A q \in Requests \ {r} : row'[q] = row[q] /\ terminal'[q] = terminal[q]
      BY <1>5, <2>1, CommitStore
    <2>3. /\ ~Streaming(r)' /\ (Settled(r) => row'[r].status \in {"complete", "absent"})
          /\ terminal'[r] /\ (~terminal[r] => row'[r].status \in {status, "absent"})
          /\ row'[r].status \in TerminalStatus => terminal'[r]
      BY <1>5, <2>1, CommitKeeps
    <2>4. producer'[r] = p /\ latest' = latest /\ queue' = queue /\ handler' = handler
          /\ conv' = conv
      BY <1>5, ServerTyped DEF ProducerTo
    <2>5. Settled(r) => Settled(r)'
      BY <2>3, <2>4 DEF Settled
    <2>6. HandlerFits(r)'
      BY <1>0, <1>5, <2>3, <2>4 DEF HandlerFits
    <2>7. QueueFits(r)'
      <3>1. handler[r] = "serving" /\ p = "done" => Settled(r)'
        BY <1>0, <1>5, <2>3, <2>4 DEF HandlerFits, Settled
      <3> QED
        BY <1>0, <2>4, <2>5, <3>1 DEF QueueFits
    <2> QED
      BY <1>0, <1>5, <2>2, <2>3, <2>4, <2>5, <2>6, <2>7, ProducerSide
  <1>6. CASE Commit(r)
    BY <1>5, <1>6 DEF Commit
  <1>7. CASE Fail(r)
    BY <1>0, <1>7, SilentProducer DEF Fail
  <1>8. CASE CommitError(r)
    BY <1>5, <1>8 DEF CommitError
  <1>9. CASE Emit(r)
    <2> DEFINE e == Event(producer[r], conv[r])
               s == Append(queue[r], e)
    <2>1. /\ producer[r] \in {"done", "error"} /\ ProducerTo(r, "over")
          /\ queue' = [queue EXCEPT ![r] = s]
          /\ UNCHANGED <<storeVars, lease, handler, conv, cancelEvent, terminal, latest,
                         socketVars, linkVars, windowVars, deleting, bounds>>
      BY <1>0, <1>9 DEF Emit
    <2>2. e \in EventType /\ e.type = producer[r]
      BY <2>1, ServerTyped, EventTyped
    <2> HIDE DEF e
    <2>3. queue[r] \in Seq(EventType)
      BY <1>0
    <2>4. /\ s \in Seq(EventType) /\ (queue[r] # <<>> => s # <<>> /\ Head(s) = Head(queue[r]))
          /\ \A i \in DOMAIN s : s[i] = e \/ (i \in DOMAIN queue[r] /\ s[i] = queue[r][i])
      BY <2>2, <2>3
    <2> HIDE DEF s
    <2>5. /\ queue' \in [Requests -> Seq(EventType)] /\ queue'[r] = s
          /\ \A q \in Requests \ {r} : queue'[q] = queue[q]
      BY <1>0, <2>1, <2>4
    <2>6. /\ recent' = recent /\ created' = created /\ row' = row /\ begun' = begun
          /\ terminal' = terminal /\ handler' = handler /\ conv' = conv /\ latest' = latest
          /\ producer'[r] = "over"
      BY <2>1, ServerTyped DEF storeVars, ProducerTo
    <2>7. StoreTyped' /\ RowsInStore'
      BY <2>6, Typed DEF StoreTyped, RowsInStore, Stored
    <2>8. (Streaming(r)' => Streaming(r)) /\ (Settled(r) => Settled(r)')
      BY <2>6 DEF Streaming, Settled
    <2>9. HandlerFits(r)'
      BY <1>0, <2>1, <2>6 DEF HandlerFits, Stored, Streaming
    <2>10. QueueFits(r)'
      BY <1>0, <2>1, <2>2, <2>4, <2>5, <2>6, <2>8 DEF QueueFits
    <2> QED
      BY <1>0, <2>1, <2>5, <2>6, <2>7, <2>8, <2>9, <2>10, ProducerSide
  <1> QED
    BY <1>1, <1>2, <1>3, <1>4, <1>6, <1>7, <1>8, <1>9 DEF ProducerStep

LEMMA OneBegun ==
  ASSUME ChatInvariant, NEW r \in Requests, handler[r] = "claimed", begun' = begun + 1,
         handler'[r] = "begun", \A q \in Requests \ {r} : handler'[q] = handler[q]
  PROVE  BegunCounted'
  <1>1. Begun' = Begun \cup {r} /\ r \notin Begun
    BY DEF Begun
  <1>2. IsFiniteSet(Requests) /\ Begun \subseteq Requests
    BY FS_Interval, StoreAssumption DEF Requests, Begun
  <1>3. IsFiniteSet(Begun) /\ Cardinality(Begun \cup {r}) = Cardinality(Begun) + 1
        /\ Cardinality(Begun) \in Nat
    BY <1>1, <1>2, FS_Subset, FS_AddElement, FS_CardinalityType
  <1>4. begun \in Nat
    BY Typed
  <1> QED
    BY <1>1, <1>3, <1>4 DEF ChatInvariant, BegunCounted

LEMMA BegunBelow ==
  ASSUME ChatInvariant, NEW r \in Requests, handler[r] = "claimed"
  PROVE  begun < MaxRequests
  <1>1. /\ IsFiniteSet(Requests) /\ Cardinality(Requests) = MaxRequests
        /\ Begun \subseteq Requests /\ Begun \cup {r} \subseteq Requests /\ r \notin Begun
    BY FS_Interval, StoreAssumption DEF Requests, Begun
  <1>2. /\ IsFiniteSet(Begun) /\ Cardinality(Begun \cup {r}) = Cardinality(Begun) + 1
        /\ Cardinality(Begun) \in Nat /\ Cardinality(Begun \cup {r}) <= Cardinality(Requests)
    BY <1>1, FS_Subset, FS_AddElement, FS_CardinalityType
  <1>3. begun \in Nat /\ begun <= Cardinality(Begun)
    BY Typed DEF ChatInvariant, BegunCounted
  <1> QED
    BY <1>1, <1>2, <1>3, StoreAssumption

LEMMA BeginStep ==
  ASSUME ChatInvariant, NEW r \in Requests, Begin(r)
  PROVE  ChatInvariant'
  <1>1. /\ handler[r] = "claimed" /\ handler' = [handler EXCEPT ![r] = "begun"]
        /\ BeginExchange(r, want[r]) /\ lease' = lease /\ conv' = conv
        /\ producer' = producer /\ cancelEvent' = cancelEvent /\ terminal' = terminal
        /\ latest' = latest /\ queue' = queue /\ cancelSent' = cancelSent /\ wire' = wire
        /\ faults' = faults /\ UNCHANGED <<sock, linkVars, windowVars, deleting, gestures>>
    BY DEF Begin, socketVars, bounds
  <1>2. /\ producer[r] = "none" /\ ~terminal[r] /\ queue[r] = <<>>
        /\ want[r] \in Conversations \cup {None} /\ want' = want
    BY <1>1, ServerTyped DEF HandlerFits, linkVars
  <1>3. begun < MaxRequests
    BY <1>1, BegunBelow
  <1>4. /\ StoreTyped' /\ RowsInStore' /\ begun' = begun + 1
        /\ \A q \in Requests \ {r} : row'[q] \in {row[q], NoRow}
        /\ row'[r].status = "streaming"
    BY <1>1, <1>2, <1>3, BeginStore
  <1>5. begun' \in 0 .. MaxRequests
    BY <1>3, <1>4, Typed, StoreAssumption
  <1>6. /\ handler'[r] = "begun" /\ \A q \in Requests \ {r} : handler'[q] = handler[q]
        /\ ServerTypeOK'
    BY <1>1, ServerTyped DEF ServerTypeOK
  <1>7. BegunCounted'
    BY <1>1, <1>4, <1>6, OneBegun
  <1>8. HandlerFits(r)'
    BY <1>1, <1>2, <1>4, <1>6 DEF HandlerFits, TerminalStatus
  <1>9. LeaseFits(r)'
    <2>1. Displaced(r)' <=> Displaced(r)
      BY <1>1, <1>2 DEF Displaced
    <2> QED
      BY <1>1, <1>2, <1>6, <2>1, ServerTyped DEF LeaseFits, Generating
  <1>10. QueueFits(r)' /\ ~Settled(r)
    BY <1>2, <1>6 DEF QueueFits, Settled
  <1>11. /\ cancelSent' \in [Requests -> BOOLEAN] /\ faults' \in 0 .. MaxFaults
         /\ lease' \in [Conversations -> Requests \cup {None}]
    BY <1>1, ServerTyped, Typed
  <1> QED
    BY <1>1, <1>4, <1>5, <1>6, <1>7, <1>8, <1>9, <1>10, <1>11, ServerSide

LEMMA ServeStep ==
  ASSUME ChatInvariant, NEW r \in Requests, Serve(r)
  PROVE  ChatInvariant'
  <1>1. PICK t \in Conversations :
          /\ t = row[r].conv /\ conv' = [conv EXCEPT ![r] = t]
          /\ Reply(r, Event("accepted", t))
          /\ IF want[r] = None THEN AcquireLease(t, r) ELSE lease' = lease
    <2>1. row[r].conv \in ToSet(recent) /\ recent \in Seq(Conversations)
      BY Typed DEF Serve, Exists, StoreTyped
    <2>2. row[r].conv \in Conversations
      BY <2>1 DEF ToSet
    <2> QED
      BY <2>2 DEF Serve
  <1>2. /\ handler[r] = "begun" /\ handler' = [handler EXCEPT ![r] = "serving"]
        /\ producer' = [producer EXCEPT ![r] = "streaming"]
        /\ recent' = recent /\ created' = created /\ row' = row /\ begun' = begun
        /\ cancelEvent' = cancelEvent /\ terminal' = terminal /\ latest' = latest
        /\ queue' = queue /\ cancelSent' = cancelSent /\ faults' = faults
        /\ UNCHANGED <<sock, linkVars, windowVars, deleting, gestures>>
    BY DEF Serve, storeVars, bounds
  <1>3. /\ producer[r] = "none" /\ ~terminal[r] /\ queue[r] = <<>>
        /\ row[r].status \notin TerminalStatus /\ conv[r] = want[r]
        /\ want[r] # None => lease[want[r]] = r
        /\ want[r] \in Conversations \cup {None} /\ want' = want /\ None \notin Conversations
    BY <1>2, ServerTyped, Typed DEF HandlerFits, LeaseFits, linkVars
  <1>4. StoreTyped' /\ RowsInStore' /\ begun' \in 0 .. MaxRequests
    BY <1>2, Typed DEF StoreTyped, RowsInStore, Stored
  <1>5. /\ handler'[r] = "serving" /\ conv'[r] = t /\ producer'[r] = "streaming"
        /\ \A q \in Requests \ {r} :
             handler'[q] = handler[q] /\ conv'[q] = conv[q] /\ producer'[q] = producer[q]
        /\ ServerTypeOK'
    BY <1>1, <1>2, ServerTyped DEF ServerTypeOK
  <1>6. BegunCounted'
    BY <1>2, <1>5, SameBegun
  <1>7. /\ lease' \in [Conversations -> Requests \cup {None}]
        /\ \A q \in Requests \ {r}, c \in Conversations : lease'[c] = q <=> lease[c] = q
        /\ \A c \in Conversations : lease'[c] = r =>
             c = (IF want[r] = None THEN t ELSE want[r])
        /\ lease'[IF want[r] = None THEN t ELSE want[r]] = r
    <2>1. \A c \in Conversations : lease[c] = r => c = want[r]
      BY <1>2, <1>3, ServerTyped DEF LeaseFits, Displaced
    <2>2. \A q \in Requests \ {r} : q # None
      BY Typed
    <2>3. CASE want[r] = None
      <3>1. lease[t] = None /\ lease' = [lease EXCEPT ![t] = r]
        BY <1>1, <2>3 DEF AcquireLease, Available
      <3> QED
        BY <1>3, <2>1, <2>2, <2>3, <3>1, Typed
    <2>4. CASE want[r] # None
      BY <1>1, <1>3, <2>1, <2>4, Typed
    <2> QED
      BY <2>3, <2>4
  <1>8. HandlerFits(r)'
    BY <1>1, <1>2, <1>3, <1>5 DEF HandlerFits, Streaming
  <1>9. LeaseFits(r)'
    BY <1>1, <1>3, <1>5, <1>7 DEF LeaseFits, Displaced
  <1>10. QueueFits(r)' /\ ~Settled(r)
    BY <1>2, <1>3, <1>5 DEF QueueFits, Settled
  <1>11. Event("accepted", t) \in EventType /\ Event("accepted", t).type = "accepted"
    BY EventTyped
  <1>12. cancelSent' \in [Requests -> BOOLEAN] /\ faults' \in 0 .. MaxFaults
    BY <1>2, ServerTyped
  <1> QED
    BY <1>1, <1>2, <1>4, <1>5, <1>6, <1>7, <1>8, <1>9, <1>10, <1>11, <1>12, ServerSide

\* A handler that gives up, or whose last commit is refused, with its row as it is.
LEMMA GiveUp ==
  ASSUME ChatInvariant, NEW r \in Requests, NEW h \in {"closing", "raising", "broken"},
         handler[r] \in {"claimed", "begun", "serving", "closing", "raising"},
         handler' = [handler EXCEPT ![r] = h],
         UNCHANGED <<storeVars, lease, conv, terminal, producer, latest, queue>>,
         cancelEvent' \in [Requests -> BOOLEAN], cancelSent' \in [Requests -> BOOLEAN],
         faults' \in 0 .. MaxFaults, sock' = sock \/ sock' = Dropped(r),
         UNCHANGED <<linkVars, windowVars, deleting, gestures>>,
         \/ wire' = wire
         \/ \E e \in EventType : Reply(r, e) /\ e.type # "done"
  PROVE  ChatInvariant'
  <1>1. /\ ServerTypeOK' /\ handler'[r] = h
        /\ \A q \in Requests \ {r} : handler'[q] = handler[q]
    BY ServerTyped DEF ServerTypeOK
  <1>2. /\ row' = row /\ lease' = lease /\ conv' = conv /\ want' = want /\ terminal' = terminal
        /\ producer' = producer /\ queue' = queue
    BY DEF storeVars, linkVars
  <1>3. HandlerFits(r)' /\ QueueFits(r)'
    BY <1>1, <1>2, ServerTyped DEF HandlerFits, QueueFits, Stored, Streaming
  <1>4. LeaseFits(r)'
    <2>1. Displaced(r)' <=> Displaced(r)
      BY <1>2 DEF Displaced
    <2>2. Generating(r)' => Generating(r)
      <3>1. producer[r] # "none" => handler[r] \notin {"claimed", "begun"}
        BY ServerTyped DEF HandlerFits
      <3> QED
        BY <1>2, <3>1 DEF Generating, Streaming
    <2> QED
      BY <1>1, <1>2, <2>1, <2>2, ServerTyped DEF LeaseFits
  <1> QED
    BY <1>1, <1>2, <1>3, <1>4, StorelessServerSide

LEMMA ModeRefusedStep ==
  ASSUME ChatInvariant, NEW r \in Requests, ModeRefused(r)
  PROVE  ChatInvariant'
  <1>1. /\ handler[r] = "begun" /\ handler' = [handler EXCEPT ![r] = "raising"]
        /\ UNCHANGED <<storeVars, lease, conv, terminal, producer, latest, queue>>
        /\ cancelEvent' = cancelEvent /\ cancelSent' = cancelSent /\ wire' = wire
        /\ sock' = sock /\ faults' = faults
        /\ UNCHANGED <<linkVars, windowVars, deleting, gestures>>
    BY DEF ModeRefused, socketVars, bounds
  <1>2. /\ cancelEvent' \in [Requests -> BOOLEAN] /\ cancelSent' \in [Requests -> BOOLEAN]
        /\ faults' \in 0 .. MaxFaults
    BY <1>1, ServerTyped
  <1> QED
    BY <1>1, <1>2, GiveUp

\* A fault more is within the bound.
LEMMA FaultTyped ==
  ASSUME ChatInvariant, StoreFault
  PROVE  faults' \in 0 .. MaxFaults
  BY ChatAssumption DEF StoreFault, ChatInvariant, TypeOK

LEMMA BeginFailsStep ==
  ASSUME ChatInvariant, NEW r \in Requests, BeginFails(r)
  PROVE  ChatInvariant'
  <1>1. /\ handler[r] \in {"claimed", "begun"} /\ StoreFault
        /\ UNCHANGED <<storeVars, lease, conv, terminal, producer, latest, queue>>
        /\ cancelEvent' = cancelEvent /\ cancelSent' = cancelSent /\ sock' = sock
        /\ UNCHANGED <<linkVars, windowVars, deleting, gestures>>
    BY DEF BeginFails
  <1>2. /\ cancelEvent' \in [Requests -> BOOLEAN] /\ cancelSent' \in [Requests -> BOOLEAN]
        /\ faults' \in 0 .. MaxFaults
    BY <1>1, ServerTyped, FaultTyped
  <1>3. Event("error", want[r]) \in EventType /\ Event("error", want[r]).type = "error"
    BY ServerTyped, EventTyped
  <1>4. CASE handler' = [handler EXCEPT ![r] = "closing"] /\ Reply(r, Event("error", want[r]))
    BY <1>1, <1>2, <1>3, <1>4, GiveUp
  <1>5. CASE handler' = [handler EXCEPT ![r] = "raising"] /\ wire' = wire
    BY <1>1, <1>2, <1>5, GiveUp
  <1> QED
    BY <1>4, <1>5 DEF BeginFails

LEMMA CancelFailsStep ==
  ASSUME ChatInvariant, NEW r \in Requests, CancelFails(r)
  PROVE  ChatInvariant'
  <1>1. /\ handler[r] = "serving" /\ StoreFault /\ handler' = [handler EXCEPT ![r] = "raising"]
        /\ UNCHANGED <<storeVars, lease, conv, terminal, producer, latest, queue>>
        /\ cancelEvent' = [cancelEvent EXCEPT ![r] = TRUE]
        /\ cancelSent' = [cancelSent EXCEPT ![r] = FALSE] /\ sock' = sock /\ wire' = wire
        /\ UNCHANGED <<linkVars, windowVars, deleting, gestures>>
    BY DEF CancelFails, CommitRefused
  <1>2. /\ cancelEvent' \in [Requests -> BOOLEAN] /\ cancelSent' \in [Requests -> BOOLEAN]
        /\ faults' \in 0 .. MaxFaults
    BY <1>1, ServerTyped, FaultTyped
  <1> QED
    BY <1>1, <1>2, GiveUp

LEMMA FinallyFailsStep ==
  ASSUME ChatInvariant, NEW r \in Requests, FinallyFails(r)
  PROVE  ChatInvariant'
  <1>1. /\ handler[r] \in {"closing", "raising"} /\ StoreFault
        /\ handler' = [handler EXCEPT ![r] = "broken"]
        /\ UNCHANGED <<storeVars, lease, conv, terminal, producer, latest, queue>>
        /\ cancelEvent' = [cancelEvent EXCEPT ![r] = TRUE] /\ cancelSent' = cancelSent
        /\ sock' = Dropped(r) /\ wire' = wire
        /\ UNCHANGED <<linkVars, windowVars, deleting, gestures>>
    BY DEF FinallyFails, CommitRefused
  <1>2. /\ cancelEvent' \in [Requests -> BOOLEAN] /\ cancelSent' \in [Requests -> BOOLEAN]
        /\ faults' \in 0 .. MaxFaults
    BY <1>1, ServerTyped, FaultTyped
  <1> QED
    BY <1>1, <1>2, GiveUp

\* The producer's commit is refused: the row and the queue stay.
LEMMA CommitFailsStep ==
  ASSUME ChatInvariant, NEW r \in Requests, CommitFails(r)
  PROVE  ChatInvariant'
  <1>1. /\ producer[r] \in {"committing", "failing"} /\ ~terminal[r] /\ StoreFault
        /\ \E p \in {"failing", "over"} : producer' = [producer EXCEPT ![r] = p]
        /\ UNCHANGED <<storeVars, lease, conv, terminal>> /\ handler' = handler
        /\ cancelEvent' = cancelEvent /\ latest' = latest /\ queue' = queue
        /\ sock' = sock /\ cancelSent' = cancelSent /\ wire' = wire
        /\ UNCHANGED <<linkVars, windowVars, deleting, gestures>>
    BY DEF CommitFails, CommitRefused, ProducerTo, socketVars
  <1>2. /\ ServerTypeOK' /\ producer'[r] \in {"failing", "over"}
        /\ \A q \in Requests \ {r} : producer'[q] = producer[q]
    BY <1>1, ServerTyped DEF ServerTypeOK
  <1>3. /\ row' = row /\ lease' = lease /\ conv' = conv /\ want' = want /\ terminal' = terminal
    BY <1>1 DEF storeVars, linkVars
  <1>4. handler[r] \notin {"none", "received", "claimed", "begun"}
    BY <1>1, ServerTyped DEF HandlerFits
  <1>5. HandlerFits(r)' /\ QueueFits(r)'
    BY <1>1, <1>2, <1>3, ServerTyped DEF HandlerFits, QueueFits, Stored, Streaming, Settled
  <1>6. LeaseFits(r)'
    <2>1. Generating(r)' => Generating(r)
      BY <1>1, <1>3 DEF Generating, Streaming
    <2> QED
      BY <1>1, <1>3, <1>4, <2>1, LeaseKept
  <1>7. cancelSent' \in [Requests -> BOOLEAN] /\ faults' \in 0 .. MaxFaults
    BY <1>1, ServerTyped, FaultTyped
  <1> QED
    BY <1>1, <1>2, <1>4, <1>5, <1>6, <1>7, StorelessServerSide

LEMMA ReceiveCancelStep ==
  ASSUME ChatInvariant, NEW r \in Requests, ReceiveCancel(r)
  PROVE  ChatInvariant'
  <1> DEFINE e == Event("cancelled", conv[r])
  <1>1. /\ handler[r] = "serving" /\ handler' = [handler EXCEPT ![r] = "cancelling"]
        /\ cancelSent' = [cancelSent EXCEPT ![r] = FALSE]
        /\ cancelEvent' = [cancelEvent EXCEPT ![r] = TRUE]
        /\ CommitTerminal(r, "cancelled", latest[r])
        /\ queue' = [queue EXCEPT ![r] = <<e>>]
        /\ lease' = lease /\ conv' = conv /\ producer' = producer /\ latest' = latest
        /\ wire' = wire /\ faults' = faults
        /\ UNCHANGED <<sock, linkVars, windowVars, deleting, gestures>>
    BY DEF ReceiveCancel, bounds
  <1>2. e \in EventType /\ e.type = "cancelled"
    BY ServerTyped, EventTyped
  <1> HIDE DEF e
  <1>3. <<e>> \in Seq(EventType) /\ <<e>> # <<>> /\ Head(<<e>>) = e
    BY <1>2
  <1>4. "cancelled" \in TerminalStatus /\ producer[r] # "none"
    BY <1>1, ServerTyped DEF TerminalStatus, HandlerFits
  <1>5. /\ StoreTyped' /\ RowsInStore' /\ begun' = begun
        /\ terminal' \in [Requests -> BOOLEAN]
        /\ \A q \in Requests \ {r} : row'[q] = row[q] /\ terminal'[q] = terminal[q]
    BY <1>1, <1>4, CommitStore
  <1>6. /\ ~Streaming(r)' /\ (Settled(r) => Settled(r)') /\ terminal'[r]
        /\ ~Generating(r)'
    BY <1>1, <1>4, CommitKeeps DEF Settled, Generating
  <1>7. /\ ServerTypeOK' /\ handler'[r] = "cancelling" /\ queue'[r] = <<e>>
        /\ \A q \in Requests \ {r} : handler'[q] = handler[q] /\ queue'[q] = queue[q]
    BY <1>1, <1>3, <1>5, ServerTyped DEF ServerTypeOK
  <1>8. HandlerFits(r)' /\ QueueFits(r)'
    BY <1>1, <1>2, <1>3, <1>4, <1>6, <1>7 DEF HandlerFits, QueueFits
  <1>9. LeaseFits(r)'
    <2>1. want' = want
      BY <1>1 DEF linkVars
    <2> QED
      BY <1>1, <1>6, <1>7, <2>1, LeaseKept
  <1>10. BegunCounted'
    BY <1>1, <1>5, SameBegun
  <1>11. /\ cancelSent' \in [Requests -> BOOLEAN] /\ faults' \in 0 .. MaxFaults
         /\ begun' \in 0 .. MaxRequests
         /\ lease' \in [Conversations -> Requests \cup {None}]
    BY <1>1, <1>5, ServerTyped, Typed
  <1> QED
    BY <1>1, <1>5, <1>6, <1>7, <1>8, <1>9, <1>10, <1>11, ServerSide

LEMMA ReceiveDisconnectStep ==
  ASSUME ChatInvariant, NEW r \in Requests, ReceiveDisconnect(r)
  PROVE  ChatInvariant'
  <1>1. /\ handler[r] = "serving" /\ handler' = [handler EXCEPT ![r] = "closing"]
        /\ cancelEvent' = [cancelEvent EXCEPT ![r] = TRUE]
        /\ UNCHANGED <<storeVars, lease, conv, terminal>>
        /\ producer' = producer /\ latest' = latest /\ wire' = wire
        /\ queue' = queue /\ cancelSent' = cancelSent /\ faults' = faults
        /\ UNCHANGED <<sock, linkVars, windowVars, deleting, gestures>>
    BY DEF ReceiveDisconnect, bounds, socketVars
  <1>2. ServerTypeOK' /\ handler'[r] = "closing"
        /\ \A q \in Requests \ {r} : handler'[q] = handler[q]
    BY <1>1, ServerTyped DEF ServerTypeOK
  <1>3. row' = row /\ lease' = lease /\ conv' = conv /\ want' = want /\ terminal' = terminal
    BY <1>1 DEF storeVars, linkVars
  <1>4. HandlerFits(r)' /\ QueueFits(r)'
    BY <1>1, <1>2, <1>3, ServerTyped DEF HandlerFits, QueueFits, Stored, Streaming
  <1>5. LeaseFits(r)'
    <2>1. Generating(r)' => Generating(r)
      BY <1>1, <1>3 DEF Generating, Streaming
    <2> QED
      BY <1>1, <1>2, <1>3, <2>1, LeaseKept
  <1>6. cancelSent' \in [Requests -> BOOLEAN] /\ faults' \in 0 .. MaxFaults
    BY <1>1, ServerTyped
  <1> QED
    BY <1>1, <1>2, <1>4, <1>5, <1>6, StorelessServerSide

LEMMA SendEventStep ==
  ASSUME ChatInvariant, NEW r \in Requests, SendEvent(r)
  PROVE  ChatInvariant'
  <1> DEFINE e == Head(queue[r])
             s == Tail(queue[r])
  <1>1. /\ handler[r] \in {"serving", "cancelling"} /\ queue[r] # <<>>
        /\ handler' = [handler EXCEPT ![r] = "closing"]
        /\ Reply(r, e) /\ queue' = [queue EXCEPT ![r] = s]
        /\ UNCHANGED <<storeVars, lease, conv, terminal>>
        /\ cancelEvent' = cancelEvent /\ producer' = producer /\ latest' = latest
        /\ cancelSent' = cancelSent /\ faults' = faults
        /\ UNCHANGED <<sock, linkVars, windowVars, deleting, gestures>>
    BY ServerTyped DEF SendEvent, bounds
  <1>2. queue[r] \in Seq(EventType)
    BY ServerTyped
  <1>3. e \in EventType /\ s \in Seq(EventType) /\ 1 \in DOMAIN queue[r] /\ e = queue[r][1]
    BY <1>1, <1>2
  <1>4. e.type = "done" => Settled(r)
    BY <1>1, <1>3, ServerTyped DEF QueueFits
  <1> HIDE DEF e, s
  <1>5. /\ ServerTypeOK' /\ handler'[r] = "closing" /\ queue'[r] = s
        /\ \A q \in Requests \ {r} : handler'[q] = handler[q] /\ queue'[q] = queue[q]
    BY <1>1, <1>3, ServerTyped DEF ServerTypeOK
  <1>6. row' = row /\ lease' = lease /\ conv' = conv /\ want' = want /\ terminal' = terminal
    BY <1>1 DEF storeVars, linkVars
  <1>7. HandlerFits(r)' /\ QueueFits(r)'
    <2>1. producer[r] # "none"
      BY <1>1, ServerTyped DEF HandlerFits
    <2> QED
      BY <1>1, <1>5, <1>6, <2>1, ServerTyped DEF HandlerFits, QueueFits, Stored, Streaming
  <1>8. LeaseFits(r)'
    <2>1. Generating(r)' => Generating(r)
      BY <1>1, <1>6, ServerTyped DEF Generating, Streaming, HandlerFits
    <2> QED
      BY <1>1, <1>5, <1>6, <2>1, LeaseKept
  <1>9. cancelSent' \in [Requests -> BOOLEAN] /\ faults' \in 0 .. MaxFaults
    BY <1>1, ServerTyped
  <1> QED
    BY <1>1, <1>3, <1>4, <1>5, <1>7, <1>8, <1>9, StorelessServerSide

LEMMA FinallyStep ==
  ASSUME ChatInvariant, NEW r \in Requests, Finally(r)
  PROVE  ChatInvariant'
  <1>1. /\ handler[r] \in {"closing", "raising"} /\ handler' = [handler EXCEPT ![r] = "ended"]
        /\ cancelEvent' = [cancelEvent EXCEPT ![r] = TRUE]
        /\ CommitTerminal(r, "cancelled", latest[r]) /\ lease' = ReleasedBy(conv[r], r)
        /\ conv' = conv /\ producer' = producer /\ latest' = latest /\ queue' = queue
        /\ cancelSent' = cancelSent /\ wire' = wire /\ faults' = faults
        /\ sock' = sock \/ sock' = Dropped(r)
        /\ UNCHANGED <<linkVars, windowVars, deleting, gestures>>
    BY DEF Finally, bounds
  <1>2. "cancelled" \in TerminalStatus
    BY DEF TerminalStatus
  <1>3. /\ StoreTyped' /\ RowsInStore' /\ begun' = begun
        /\ terminal' \in [Requests -> BOOLEAN]
        /\ \A q \in Requests \ {r} : row'[q] = row[q] /\ terminal'[q] = terminal[q]
    BY <1>1, <1>2, CommitStore
  <1>4. /\ producer[r] # "none" => ~Streaming(r)'
        /\ Settled(r) => Settled(r)'
        /\ terminal'[r] = (terminal[r] \/ producer[r] # "none")
        /\ row'[r].status \in TerminalStatus => terminal'[r]
        /\ producer[r] = "none" => row'[r] = row[r]
    BY <1>1, <1>2, CommitKeeps DEF Settled
  <1>5. /\ ServerTypeOK' /\ handler'[r] = "ended"
        /\ \A q \in Requests \ {r} : handler'[q] = handler[q]
    BY <1>1, <1>3, ServerTyped DEF ServerTypeOK
  <1>6. /\ lease' \in [Conversations -> Requests \cup {None}]
        /\ \A q \in Requests \ {r}, c \in Conversations : lease'[c] = q <=> lease[c] = q
        /\ \A c \in Conversations : lease'[c] = r => lease[c] = r /\ c # conv[r]
    BY <1>1, Typed DEF ReleasedBy
  <1>7. HandlerFits(r)' /\ QueueFits(r)'
    BY <1>1, <1>4, <1>5, ServerTyped DEF HandlerFits, QueueFits, Stored, Streaming
  <1>8. LeaseFits(r)'
    <2>1. (Displaced(r)' <=> Displaced(r)) /\ ~Generating(r)'
      BY <1>1, <1>5 DEF Displaced, linkVars, Generating
    <2> QED
      BY <1>1, <1>4, <1>5, <1>6, <2>1, ServerTyped DEF LeaseFits
  <1>9. BegunCounted'
    BY <1>1, <1>3, SameBegun
  <1>10. /\ cancelSent' \in [Requests -> BOOLEAN] /\ faults' \in 0 .. MaxFaults
         /\ begun' \in 0 .. MaxRequests
    BY <1>1, <1>3, ServerTyped, Typed
  <1> QED
    BY <1>1, <1>3, <1>4, <1>5, <1>6, <1>7, <1>8, <1>9, <1>10, ServerSide

LEMMA ExpireLeaseStep ==
  ASSUME ChatInvariant, NEW c \in Conversations, ExpireLease(c)
  PROVE  ChatInvariant'
  <1>1. PICK r \in Requests :
          /\ lease[c] = r /\ handler[r] \in {"ended", "broken"}
          /\ lease' = [lease EXCEPT ![c] = None]
    BY Typed DEF ExpireLease
  <1>2. /\ recent' = recent /\ created' = created /\ row' = row /\ begun' = begun
        /\ handler' = handler /\ conv' = conv /\ cancelEvent' = cancelEvent
        /\ terminal' = terminal /\ producer' = producer /\ latest' = latest /\ queue' = queue
        /\ cancelSent' = cancelSent /\ wire' = wire /\ faults' = faults /\ want' = want
        /\ UNCHANGED <<sock, linkVars, windowVars, deleting, gestures>>
    BY DEF ExpireLease, storeVars, serverVars, socketVars, linkVars, bounds
  <1>3. /\ lease' \in [Conversations -> Requests \cup {None}]
        /\ \A q \in Requests \ {r}, d \in Conversations : lease'[d] = q <=> lease[d] = q
        /\ \A d \in Conversations : lease'[d] = r => lease[d] = r
    BY <1>1, Typed
  <1>4. /\ StoreTyped' /\ RowsInStore' /\ ServerTypeOK' /\ begun' \in 0 .. MaxRequests
        /\ cancelSent' \in [Requests -> BOOLEAN] /\ faults' \in 0 .. MaxFaults
    BY <1>1, <1>2, Typed, ServerTyped DEF StoreTyped, RowsInStore, Stored, ServerTypeOK
  <1>5. BegunCounted'
    BY <1>2, SameBegun
  <1>6. HandlerFits(r)' /\ QueueFits(r)' /\ (Settled(r) => Settled(r)')
    BY <1>1, <1>2, ServerTyped DEF HandlerFits, QueueFits, Settled, Stored, Streaming
  <1>7. LeaseFits(r)'
    <2>1. ~Generating(r)' /\ (Displaced(r)' <=> Displaced(r))
      BY <1>1, <1>2 DEF Generating, Displaced
    <2> QED
      BY <1>1, <1>2, <1>3, <2>1, ServerTyped DEF LeaseFits
  <1> QED
    BY <1>1, <1>2, <1>3, <1>4, <1>5, <1>6, <1>7, ServerSide

LEMMA HandlerKept ==
  ASSUME ChatInvariant, NEW r \in Requests, HandlerStep(r)
  PROVE  ChatInvariant'
  BY ClaimStep, RefuseBusyStep, BeginStep, ServeStep, ModeRefusedStep, ReceiveCancelStep, ReceiveDisconnectStep,
     SendEventStep, FinallyStep DEF HandlerStep

-----------------------------------------------------------------------------
(* Steps of the windows and of the sockets. *)

\* What a step must keep of what the windows hold.
WinKept == win' \in [Windows -> WinType]
ViewsKept == view' \in [Windows -> [Requests -> ViewStatus]] /\ \A w \in Windows : Shows(view'[w])
FetchesKept ==
  /\ fetches' \in [Windows -> SUBSET FetchType]
  /\ \A w \in Windows : \A f \in fetches'[w] : Shows(f.shown)
RewritesKept ==
  /\ rewriting' \in [Windows -> [from : Requests \cup {None}, checked : BOOLEAN]]
  /\ \A w \in Windows : rewriting'[w].checked => rewriting'[w].from # None
SignalsKept ==
  signals' \in [Windows -> SUBSET Signal] /\ pendingSignal' \in [Windows -> SUBSET Signal]
WindowsKept == WinKept /\ ViewsKept /\ FetchesKept /\ RewritesKept /\ SignalsKept

\* And of what the sockets hold.
LinksKept ==
  /\ LinkTypeOK' /\ SentInOrder' /\ \A q \in Requests : LinkFits(q)'
  /\ \A q \in Requests :
       /\ handler[q] # "none" => want'[q] = want[q]
       /\ \A i \in DOMAIN wire'[q] : \E j \in DOMAIN wire[q] : wire'[q][i] = wire[q][j]

LEMMA WindowTyped ==
  ASSUME ChatInvariant
  PROVE  /\ WindowTypeOK /\ LinkTypeOK /\ SentInOrder
         /\ \A q \in Requests : LinkFits(q) /\ WireFits(q)
         /\ deleting \in Conversations \cup {None}
         /\ faults \in 0 .. MaxFaults /\ gestures \in 0 .. MaxGestures
         /\ \A w \in Windows :
              /\ win[w] \in WinType /\ view[w] \in [Requests -> ViewStatus]
              /\ fetches[w] \subseteq FetchType /\ Shows(view[w])
              /\ \A f \in fetches[w] : Shows(f.shown)
  BY DEF ChatInvariant, TypeOK, WindowTypeOK, ViewsFit

LEMMA WindowsUnchanged ==
  ASSUME ChatInvariant
  PROVE  /\ win' = win => WinKept
         /\ view' = view => ViewsKept
         /\ fetches' = fetches => FetchesKept
         /\ rewriting' = rewriting => RewritesKept
         /\ signals' = signals /\ pendingSignal' = pendingSignal => SignalsKept
         /\ UNCHANGED windowVars => WindowsKept
  <1>1. /\ win' = win => WinKept
        /\ view' = view => ViewsKept
        /\ fetches' = fetches => FetchesKept
        /\ rewriting' = rewriting => RewritesKept
        /\ signals' = signals /\ pendingSignal' = pendingSignal => SignalsKept
    BY DEF ChatInvariant, TypeOK, WindowTypeOK, ViewsFit, WinKept, ViewsKept, FetchesKept,
           RewritesKept, SignalsKept
  <1> QED
    BY <1>1 DEF WindowsKept, windowVars

LEMMA LinksUnchanged ==
  ASSUME ChatInvariant, UNCHANGED <<handler, socketVars, linkVars>>
  PROVE  LinksKept
  <1>1. /\ handler' = handler /\ sock' = sock /\ cancelSent' = cancelSent /\ wire' = wire
        /\ want' = want /\ owner' = owner /\ scopeOf' = scopeOf
        /\ cancelRequested' = cancelRequested /\ linkTerminal' = linkTerminal
    BY DEF socketVars, linkVars
  <1>2. LinkTypeOK' /\ SentInOrder' /\ \A q \in Requests : LinkFits(q)'
    BY <1>1, WindowTyped DEF LinkTypeOK, SentInOrder, Sent, LinkFits
  <1> QED
    BY <1>1, <1>2 DEF LinksKept

\* No handler and no producer moves: rows may only go, and a handler may only appear.
LEMMA WindowSide ==
  ASSUME ChatInvariant, WindowsKept, LinksKept,
         StoreTyped', RowsInStore', begun' = begun,
         UNCHANGED <<lease, conv, cancelEvent, terminal, producer, latest, queue>>,
         \A q \in Requests : row'[q] \in {row[q], NoRow},
         handler' \in [Requests -> {"none", "received", "claimed", "begun", "serving",
                                    "cancelling", "closing", "raising", "ended", "broken"}],
         \A q \in Requests :
           handler'[q] = handler[q] \/ (handler[q] = "none" /\ handler'[q] = "received"),
         deleting' \in Conversations \cup {None},
         faults' \in 0 .. MaxFaults, gestures' \in 0 .. MaxGestures
  PROVE  ChatInvariant'
  <1>0. /\ lease' = lease /\ conv' = conv /\ cancelEvent' = cancelEvent
        /\ terminal' = terminal /\ producer' = producer /\ latest' = latest /\ queue' = queue
    OBVIOUS
  <1>1. \A q \in Requests : Settled(q) => Settled(q)'
    BY <1>0, NoRowTyped DEF Settled
  <1>2. ServerTypeOK' /\ LinkTypeOK' /\ WindowTypeOK' /\ SentInOrder'
    BY <1>0 DEF ChatInvariant, TypeOK, ServerTypeOK, LinksKept, WindowsKept, WinKept,
                ViewsKept, FetchesKept, RewritesKept, SignalsKept, WindowTypeOK
  <1>3. TypeOK'
    BY <1>0, <1>2, Typed DEF TypeOK, StoreTypeOK, StoreTyped
  <1>4. ViewsFit'
    BY <1>1 DEF WindowsKept, ViewsKept, FetchesKept, RewritesKept, ViewsFit, Shows
  <1>5. BegunCounted'
    BY <1>0, SameBegun
  <1>6. ASSUME NEW q \in Requests
        PROVE  LinkFits(q)' /\ HandlerFits(q)' /\ LeaseFits(q)' /\ QueueFits(q)' /\ WireFits(q)'
    <2>1. HandlerFits(q) /\ LeaseFits(q) /\ QueueFits(q) /\ WireFits(q)
      BY ServerTyped
    <2>2. /\ row'[q] \in {row[q], NoRow} /\ (Settled(q) => Settled(q)')
          /\ handler'[q] = handler[q] \/ (handler[q] = "none" /\ handler'[q] = "received")
          /\ handler[q] # "none" => want'[q] = want[q]
      BY <1>1 DEF LinksKept
    <2>3. /\ Streaming(q)' => Streaming(q) /\ row'[q] = row[q]
          /\ Generating(q)' => Generating(q)
      BY <1>0, <2>2, NoRowTyped DEF Streaming, Generating
    <2>4. HandlerFits(q)'
      BY <1>0, <2>1, <2>2, <2>3, NoRowTyped DEF HandlerFits, Stored, TerminalStatus
    <2>5. LeaseFits(q)'
      <3>1. CASE handler[q] = "none"
        BY <1>0, <2>1, <2>2, <3>1 DEF LeaseFits, Generating
      <3>2. CASE handler[q] # "none"
        <4>1. Displaced(q)' <=> Displaced(q)
          BY <1>0, <2>2, <3>2 DEF Displaced
        <4>2. handler'[q] = handler[q] /\ want'[q] = want[q]
          BY <2>2, <3>2
        <4> QED
          BY <1>0, <2>1, <2>3, <4>1, <4>2 DEF LeaseFits
      <3> QED
        BY <3>1, <3>2
    <2>6. QueueFits(q)'
      BY <1>0, <2>1, <2>2 DEF QueueFits
    <2>7. WireFits(q)'
      BY <2>1, <2>2 DEF WireFits, LinksKept
    <2> QED
      BY <2>4, <2>5, <2>6, <2>7 DEF LinksKept
  <1> QED
    BY <1>2, <1>3, <1>4, <1>5, <1>6 DEF ChatInvariant

\* The same for a step that leaves the server alone.
LEMMA WindowOnly ==
  ASSUME ChatInvariant, WindowsKept, LinksKept, UNCHANGED <<storeVars, lease, serverVars>>,
         deleting' \in Conversations \cup {None},
         faults' \in 0 .. MaxFaults, gestures' \in 0 .. MaxGestures
  PROVE  ChatInvariant'
  <1>1. /\ recent' = recent /\ created' = created /\ row' = row /\ begun' = begun
        /\ lease' = lease /\ handler' = handler
        /\ UNCHANGED <<lease, conv, cancelEvent, terminal, producer, latest, queue>>
    BY DEF storeVars, serverVars
  <1>2. StoreTyped' /\ RowsInStore'
    BY <1>1, Typed DEF StoreTyped, RowsInStore, Stored
  <1>3. handler' \in [Requests -> {"none", "received", "claimed", "begun", "serving",
                                   "cancelling", "closing", "raising", "ended", "broken"}]
    BY <1>1 DEF ChatInvariant, TypeOK, ServerTypeOK
  <1> QED
    BY <1>1, <1>2, <1>3, WindowSide

LEMMA CloseLinkKeeps ==
  ASSUME ChatInvariant, NEW r \in Requests \cup {None}, CloseLink(r),
         UNCHANGED <<handler, wire, want, owner, scopeOf>>
  PROVE  LinksKept
  <1>1. CASE r = None \/ linkTerminal[r]
    BY <1>1, LinksUnchanged DEF CloseLink, socketVars, linkVars
  <1>2. CASE r # None /\ ~linkTerminal[r]
    <2>1. /\ r \in Requests /\ handler' = handler /\ wire' = wire /\ want' = want
          /\ owner' = owner /\ scopeOf' = scopeOf
          /\ cancelSent' = [cancelSent EXCEPT ![r] = @ \/ (~cancelRequested[r] /\ sock[r] = "open")]
          /\ cancelRequested' = [cancelRequested EXCEPT ![r] = TRUE]
          /\ linkTerminal' = [linkTerminal EXCEPT ![r] = TRUE]
          /\ sock' = [sock EXCEPT ![r] =
                        IF sock[r] \in {"connecting", "open"} THEN "closed" ELSE sock[r]]
      BY <1>2 DEF CloseLink
    <2>2. /\ LinkTypeOK /\ sock' \in [Requests -> {"none", "connecting", "open", "closed", "lost"}]
          /\ \A q \in Requests : sock'[q] = sock[q] \/ (sock[q] # "none" /\ sock'[q] = "closed")
      BY <2>1, WindowTyped DEF LinkTypeOK
    <2>3. cancelSent' \in [Requests -> BOOLEAN]
      BY <2>1, <2>2 DEF LinkTypeOK
    <2>4. cancelRequested' \in [Requests -> BOOLEAN] /\ linkTerminal' \in [Requests -> BOOLEAN]
      BY <2>1, <2>2 DEF LinkTypeOK
    <2>5. LinkTypeOK'
      BY <2>1, <2>2, <2>3, <2>4 DEF LinkTypeOK
    <2>6. SentInOrder' /\ \A q \in Requests : LinkFits(q)'
      BY <2>1, <2>2, WindowTyped DEF SentInOrder, Sent, LinkFits
    <2> QED
      BY <2>1, <2>5, <2>6 DEF LinksKept
  <1> QED
    BY <1>1, <1>2
-----------------------------------------------------------------------------
(* What a window does with an event, an answer or a signal. *)

LEMMA WinRecords ==
  ASSUME NEW W \in WinType, NEW c \in Conversations \cup {None}, NEW b \in BOOLEAN
  PROVE  /\ Idle \in WinType /\ Applied(W, c) \in WinType /\ Accepted(W, c) \in WinType
         /\ FinishedWith(W) \in WinType /\ Released(W) \in WinType
         /\ [W EXCEPT !.opening = b] \in WinType /\ [W EXCEPT !.conv = c] \in WinType
         /\ [W EXCEPT !.detached = TRUE, !.opening = TRUE] \in WinType
         /\ [Idle EXCEPT !.opening = b] \in WinType
         /\ \A r \in Requests :
              [W EXCEPT !.active = r, !.target = W.conv, !.detached = FALSE] \in WinType
  <1>1. /\ Applied(W, c) \in WinType /\ FinishedWith(W) \in WinType /\ Idle \in WinType
        /\ [W EXCEPT !.opening = b] \in WinType /\ [W EXCEPT !.conv = c] \in WinType
        /\ [Idle EXCEPT !.opening = b] \in WinType
    BY DEF WinType, Applied, FinishedWith, Idle
  <1>2. Released(W) \in WinType
    BY DEF WinType, Released
  <1>3. Accepted(W, c) \in WinType
    BY DEF WinType, Accepted
  <1>4. [W EXCEPT !.detached = TRUE, !.opening = TRUE] \in WinType
    BY DEF WinType
  <1>5. \A r \in Requests :
          [W EXCEPT !.active = r, !.target = W.conv, !.detached = FALSE] \in WinType
    BY DEF WinType
  <1> QED
    BY <1>1, <1>2, <1>3, <1>4, <1>5

LEMMA BlankShows ==
  Blank \in [Requests -> ViewStatus] /\ Shows(Blank)
  BY DEF Blank, ViewStatus, Shows

LEMMA AskTyped ==
  ASSUME NEW kind \in {"open", "refresh", "recover"}, NEW c \in Conversations,
         NEW scope \in Conversations \cup {None}
  PROVE  Ask(kind, c, scope) \in FetchType /\ Shows(Ask(kind, c, scope).shown)
  <1>1. Ask(kind, c, scope) \in FetchType /\ Ask(kind, c, scope).shown = Blank
    BY BlankShows DEF Ask, FetchType
  <1> QED
    BY <1>1, BlankShows

LEMMA AskKeeps ==
  ASSUME ChatInvariant, NEW w \in Windows, NEW kind \in {"open", "refresh", "recover"},
         NEW c \in Conversations, NEW scope \in Conversations \cup {None},
         fetches' = [fetches EXCEPT ![w] = @ \cup {Ask(kind, c, scope)}]
  PROVE  FetchesKept
  <1> DEFINE a == Ask(kind, c, scope)
  <1>1. a \in FetchType /\ Shows(a.shown)
    BY AskTyped
  <1>2. fetches' = [fetches EXCEPT ![w] = fetches[w] \cup {a}]
    OBVIOUS
  <1> HIDE DEF a
  <1>3. fetches \in [Windows -> SUBSET FetchType]
    BY WindowTyped DEF WindowTypeOK
  <1>4. fetches' \in [Windows -> SUBSET FetchType]
    BY <1>1, <1>2, <1>3
  <1>5. \A v \in Windows : \A f \in fetches'[v] : f \in fetches[v] \/ f = a
    BY <1>2, <1>3
  <1> QED
    BY <1>1, <1>4, <1>5, WindowTyped DEF FetchesKept

LEMMA SettleShows ==
  ASSUME NEW V \in [Requests -> ViewStatus], Shows(V), NEW r \in Requests,
         NEW status \in TerminalStatus, status = "complete" => Settled(r)
  PROVE  Settle(V, r, status) \in [Requests -> ViewStatus] /\ Shows(Settle(V, r, status))
  <1> DEFINE x == CASE V[r] = "absent" -> "absent"
                    [] status = "error" /\ V[r] # "local" -> V[r]
                    [] OTHER -> status
  <1>1. x \in ViewStatus /\ (x = "complete" => V[r] = "complete" \/ status = "complete")
    BY DEF ViewStatus
  <1>2. Settle(V, r, status) = [V EXCEPT ![r] = x]
    BY DEF Settle
  <1> HIDE DEF x
  <1> QED
    BY <1>1, <1>2 DEF Shows

LEMMA SetView ==
  ASSUME ChatInvariant, NEW w \in Windows, NEW V \in [Requests -> ViewStatus], Shows(V),
         view' = [view EXCEPT ![w] = V]
  PROVE  ViewsKept
  <1>1. view \in [Windows -> [Requests -> ViewStatus]] /\ \A v \in Windows : Shows(view[v])
    BY WindowTyped DEF WindowTypeOK
  <1>2. view' \in [Windows -> [Requests -> ViewStatus]]
    BY <1>1
  <1>3. \A v \in Windows : view'[v] = IF v = w THEN V ELSE view[v]
    BY <1>1
  <1> QED
    BY <1>1, <1>2, <1>3 DEF ViewsKept

LEMMA SetWin ==
  ASSUME ChatInvariant, NEW w \in Windows, NEW W \in WinType, win' = [win EXCEPT ![w] = W]
  PROVE  WinKept
  BY WindowTyped DEF WindowTypeOK, WinKept

LEMMA PeersKept ==
  ASSUME ChatInvariant, NEW w \in Windows, NEW c \in Conversations \cup {None},
         NEW kind \in {"updated", "deleted"}, signals' = SignalPeers(w, c, kind)
  PROVE  signals' \in [Windows -> SUBSET Signal]
  <1>1. signals \in [Windows -> SUBSET Signal]
    BY WindowTyped DEF WindowTypeOK
  <1>2. c # None => [conv |-> c, kind |-> kind] \in Signal
    BY DEF Signal
  <1> QED
    BY <1>1, <1>2 DEF SignalPeers

LEMMA OwnerIs ==
  ASSUME ChatInvariant, NEW r \in Requests, sock[r] # "none"
  PROVE  owner[r] \in Windows
  BY WindowTyped DEF LinkFits, LinkTypeOK

LEMMA EventHandled ==
  ASSUME ChatInvariant, NEW w \in Windows, NEW r \in Requests, NEW e \in EventType,
         e.type = "done" => Settled(r), HandleEvent(w, r, e)
  PROVE  WindowsKept
  <1>1. CASE win[w].active # r
    BY <1>1, WindowsUnchanged DEF HandleEvent
  <1>2. CASE win[w].active = r
    <2> DEFINE W == IF e.type = "accepted" THEN Accepted(win[w], e.conv) ELSE FinishedWith(win[w])
               V == CASE e.type = "accepted" -> view[w]
                      [] e.type = "busy" -> [view[w] EXCEPT ![r] = "absent"]
                      [] e.type = "done" -> Settle(view[w], r, "complete")
                      [] OTHER -> Settle(view[w], r, e.type)
    <2>1. /\ win' = [win EXCEPT ![w] = W] /\ view' = [view EXCEPT ![w] = V]
          /\ signals' = IF e.type \in {"accepted", "busy"} THEN signals
                                                           ELSE SignalPeers(w, e.conv, "updated")
          /\ fetches' = fetches /\ rewriting' = rewriting /\ pendingSignal' = pendingSignal
      BY <1>2 DEF HandleEvent
    <2>2. e.type \in {"accepted", "busy", "done", "cancelled", "error"}
          /\ e.conv \in Conversations \cup {None}
      BY DEF EventType
    <2>3. W \in WinType
      BY <2>2, WindowTyped, WinRecords
    <2>4. V \in [Requests -> ViewStatus] /\ Shows(V)
      <3>1. view[w] \in [Requests -> ViewStatus] /\ Shows(view[w])
        BY WindowTyped
      <3>2. CASE e.type = "accepted"
        BY <3>1, <3>2
      <3>3. CASE e.type = "busy"
        BY <3>1, <3>3 DEF Shows, ViewStatus
      <3>4. CASE e.type = "done"
        <4>1. "complete" \in TerminalStatus
          BY DEF TerminalStatus
        <4> QED
          BY <3>1, <3>4, <4>1, SettleShows
      <3>5. CASE e.type \in {"cancelled", "error"}
        <4>1. e.type \in TerminalStatus /\ e.type # "complete"
          BY <3>5 DEF TerminalStatus
        <4>2. V = Settle(view[w], r, e.type)
          BY <3>5
        <4> QED
          BY <3>1, <4>1, <4>2, SettleShows
      <3> QED
        BY <2>2, <3>2, <3>3, <3>4, <3>5
    <2> HIDE DEF W, V
    <2>5. WinKept /\ ViewsKept /\ FetchesKept /\ RewritesKept
      BY <2>1, <2>3, <2>4, SetWin, SetView, WindowsUnchanged
    <2>6. SignalsKept
      <3>1. pendingSignal' \in [Windows -> SUBSET Signal]
        BY <2>1, WindowTyped DEF WindowTypeOK
      <3>2. signals' \in [Windows -> SUBSET Signal]
        BY <2>1, <2>2, PeersKept, WindowTyped DEF WindowTypeOK
      <3> QED
        BY <3>1, <3>2 DEF SignalsKept
    <2> QED
      BY <2>5, <2>6 DEF WindowsKept
  <1> QED
    BY <1>1, <1>2

LEMMA ErrorHandled ==
  ASSUME ChatInvariant, NEW w \in Windows, NEW r \in Requests, TransportError(w, r)
  PROVE  WindowsKept
  <1>1. CASE win[w].active # r \/ (win[w].scope # scopeOf[r] /\ ~win[w].detached)
    BY <1>1, WindowsUnchanged DEF TransportError
  <1>2. CASE ~(win[w].active # r \/ (win[w].scope # scopeOf[r] /\ ~win[w].detached))
    <2> DEFINE W == FinishedWith(win[w])
               V == Settle(view[w], r, "error")
               c == IF win[w].target # None THEN win[w].target ELSE win[w].conv
    <2>1. /\ win' = [win EXCEPT ![w] = W] /\ view' = [view EXCEPT ![w] = V]
          /\ fetches' = IF c = None THEN fetches
                        ELSE [fetches EXCEPT ![w] = @ \cup {Ask("recover", c, scopeOf[r])}]
          /\ rewriting' = rewriting /\ signals' = signals /\ pendingSignal' = pendingSignal
      BY <1>2 DEF TransportError
    <2>2. c \in Conversations \cup {None} /\ scopeOf[r] \in Conversations \cup {None}
      BY WindowTyped DEF WinType, LinkTypeOK
    <2>3. W \in WinType
      BY WindowTyped, WinRecords DEF None
    <2>4. V \in [Requests -> ViewStatus] /\ Shows(V)
      <3>1. "error" \in TerminalStatus
        BY DEF TerminalStatus
      <3> QED
        BY <3>1, WindowTyped, SettleShows
    <2> HIDE DEF W, V, c
    <2>5. WinKept /\ ViewsKept /\ RewritesKept /\ SignalsKept
      BY <2>1, <2>3, <2>4, SetWin, SetView, WindowsUnchanged
    <2>6. FetchesKept
      BY <2>1, <2>2, AskKeeps, WindowsUnchanged
    <2> QED
      BY <2>5, <2>6 DEF WindowsKept
  <1> QED
    BY <1>1, <1>2
-----------------------------------------------------------------------------
(* The actions of the sockets and of the windows. *)

\* One socket and its flag move; a socket that is up again has a handler's consent.
LEMMA LinkMoves ==
  ASSUME ChatInvariant, NEW r \in Requests, NEW s \in {"open", "closed", "lost"},
         sock[r] # "none", sock' = [sock EXCEPT ![r] = s],
         linkTerminal' \in [Requests -> BOOLEAN], cancelSent' \in [Requests -> BOOLEAN],
         wire' \in [Requests -> Seq(EventType)],
         UNCHANGED <<want, owner, scopeOf, cancelRequested>>,
         \A q \in Requests \ {r} : handler'[q] = handler[q],
         \A q \in Requests : \A i \in DOMAIN wire'[q] : \E j \in DOMAIN wire[q] :
           wire'[q][i] = wire[q][j]
  PROVE  LinksKept
  <1>1. LinkTypeOK /\ SentInOrder /\ \A q \in Requests : LinkFits(q)
    BY WindowTyped
  <1>2. /\ sock' \in [Requests -> {"none", "connecting", "open", "closed", "lost"}]
        /\ sock'[r] = s /\ \A q \in Requests \ {r} : sock'[q] = sock[q]
        /\ want' = want /\ owner' = owner /\ scopeOf' = scopeOf
        /\ cancelRequested' = cancelRequested
    BY <1>1 DEF LinkTypeOK
  <1>3. LinkTypeOK' /\ SentInOrder'
    BY <1>1, <1>2 DEF LinkTypeOK, SentInOrder, Sent
  <1>4. \A q \in Requests : LinkFits(q)'
    BY <1>1, <1>2 DEF LinkFits
  <1> QED
    BY <1>2, <1>3, <1>4 DEF LinksKept

LEMMA ConnectStep ==
  ASSUME ChatInvariant, NEW r \in Requests, Connect(r)
  PROVE  ChatInvariant'
  <1>1. /\ sock[r] = "connecting" /\ owner[r] \in Windows /\ handler[r] = "none"
        /\ LinkTypeOK /\ handler \in [Requests -> {"none", "received", "claimed", "begun", "serving",
                                                   "cancelling", "closing", "raising", "ended", "broken"}]
    BY OwnerIs, ServerTyped, WindowTyped DEF Connect, LinkFits
  <1>2. /\ recent' = recent /\ created' = created /\ row' = row /\ begun' = begun
        /\ lease' = lease /\ conv' = conv /\ cancelEvent' = cancelEvent /\ terminal' = terminal
        /\ producer' = producer /\ latest' = latest /\ queue' = queue
        /\ cancelSent' = cancelSent /\ wire' = wire /\ want' = want /\ owner' = owner
        /\ scopeOf' = scopeOf /\ cancelRequested' = cancelRequested
        /\ deleting' = deleting /\ faults' = faults /\ gestures' = gestures
    BY DEF Connect, storeVars, bounds
  <1>3. StoreTyped' /\ RowsInStore'
    BY <1>2, Typed DEF StoreTyped, RowsInStore, Stored
  <1>4. WindowsKept
    <2>1. CASE cancelRequested[r]
      <3>1. Event("cancelled", None) \in EventType /\ Event("cancelled", None).type = "cancelled"
        BY EventTyped
      <3> QED
        BY <1>1, <2>1, <3>1, EventHandled DEF Connect
    <2>2. CASE ~cancelRequested[r]
      BY <2>2, WindowsUnchanged DEF Connect
    <2> QED
      BY <2>1, <2>2
  <1>5. \E s \in {"open", "closed"} :
          /\ sock' = [sock EXCEPT ![r] = s] /\ linkTerminal' \in [Requests -> BOOLEAN]
          /\ handler' = handler \/ handler' = [handler EXCEPT ![r] = "received"]
    BY <1>1 DEF Connect, LinkTypeOK
  <1>6. LinksKept
    BY <1>1, <1>2, <1>5, LinkMoves DEF LinkTypeOK
  <1>7. /\ handler' \in [Requests -> {"none", "received", "claimed", "begun", "serving",
                                      "cancelling", "closing", "raising", "ended", "broken"}]
        /\ \A q \in Requests :
             handler'[q] = handler[q] \/ (handler[q] = "none" /\ handler'[q] = "received")
    BY <1>1, <1>5
  <1> QED
    BY <1>2, <1>3, <1>4, <1>6, <1>7, WindowTyped, WindowSide

LEMMA DeliverStep ==
  ASSUME ChatInvariant, NEW r \in Requests, Deliver(r)
  PROVE  ChatInvariant'
  <1> DEFINE e == Head(wire[r])
             s == Tail(wire[r])
  <1>1. /\ sock[r] \in {"open", "lost"} /\ owner[r] \in Windows /\ LinkTypeOK
        /\ wire[r] # <<>> /\ wire[r] \in Seq(EventType)
    BY OwnerIs, WindowTyped DEF Deliver, LinkTypeOK
  <1>2. /\ HandleEvent(owner[r], r, e) /\ wire' = [wire EXCEPT ![r] = s]
        /\ UNCHANGED <<storeVars, lease, serverVars, cancelSent>> /\ want' = want
        /\ owner' = owner /\ scopeOf' = scopeOf /\ cancelRequested' = cancelRequested
        /\ deleting' = deleting /\ faults' = faults /\ gestures' = gestures
        /\ \/ sock' = sock /\ linkTerminal' = linkTerminal
           \/ /\ sock' = [sock EXCEPT ![r] = "closed"]
              /\ linkTerminal' = [linkTerminal EXCEPT ![r] = TRUE]
    BY DEF Deliver, bounds
  <1>3. /\ e \in EventType /\ s \in Seq(EventType) /\ 1 \in DOMAIN wire[r] /\ e = wire[r][1]
        /\ \A i \in DOMAIN s : i + 1 \in DOMAIN wire[r] /\ s[i] = wire[r][i + 1]
    BY <1>1
  <1>4. e.type = "done" => Settled(r)
    BY <1>3, WindowTyped DEF WireFits
  <1> HIDE DEF e, s
  <1>5. WindowsKept
    BY <1>1, <1>2, <1>3, <1>4, EventHandled
  <1>6. /\ wire' \in [Requests -> Seq(EventType)] /\ wire'[r] = s
        /\ \A q \in Requests \ {r} : wire'[q] = wire[q]
    BY <1>1, <1>2, <1>3 DEF LinkTypeOK
  <1>7. \A q \in Requests : \A i \in DOMAIN wire'[q] : \E j \in DOMAIN wire[q] :
          wire'[q][i] = wire[q][j]
    BY <1>3, <1>6
  <1>8. /\ handler' = handler /\ cancelSent' \in [Requests -> BOOLEAN]
        /\ linkTerminal' \in [Requests -> BOOLEAN]
        /\ \E t \in {"open", "closed", "lost"} : sock' = [sock EXCEPT ![r] = t]
    BY <1>1, <1>2 DEF serverVars, LinkTypeOK
  <1>9. LinksKept
    <2>1. PICK t \in {"open", "closed", "lost"} : sock' = [sock EXCEPT ![r] = t]
      BY <1>8
    <2>2. sock[r] # "none" /\ UNCHANGED <<want, owner, scopeOf, cancelRequested>>
      BY <1>1, <1>2
    <2> QED
      BY <1>6, <1>7, <1>8, <2>1, <2>2, LinkMoves
  <1> QED
    BY <1>2, <1>5, <1>9, WindowTyped, WindowOnly

LEMMA NoticeLossStep ==
  ASSUME ChatInvariant, NEW r \in Requests, NoticeLoss(r)
  PROVE  ChatInvariant'
  <1>1. sock[r] = "lost" /\ owner[r] \in Windows /\ LinkTypeOK
    BY OwnerIs, WindowTyped DEF NoticeLoss
  <1>2. /\ TransportError(owner[r], r) /\ linkTerminal' = [linkTerminal EXCEPT ![r] = TRUE]
        /\ UNCHANGED <<storeVars, lease, serverVars>> /\ handler' = handler /\ sock' = sock
        /\ cancelSent' = cancelSent /\ wire' = wire /\ want' = want /\ owner' = owner
        /\ scopeOf' = scopeOf /\ cancelRequested' = cancelRequested
        /\ deleting' = deleting /\ faults' = faults /\ gestures' = gestures
    BY DEF NoticeLoss, serverVars, socketVars, bounds
  <1>3. WindowsKept
    BY <1>1, <1>2, ErrorHandled
  <1>4. sock' = [sock EXCEPT ![r] = "lost"] /\ linkTerminal' \in [Requests -> BOOLEAN]
    BY <1>1, <1>2 DEF LinkTypeOK
  <1>5. LinksKept
    BY <1>1, <1>2, <1>4, LinkMoves DEF LinkTypeOK
  <1> QED
    BY <1>2, <1>3, <1>5, WindowTyped, WindowOnly

LEMMA DisconnectStep ==
  ASSUME ChatInvariant, NEW r \in Requests, Disconnect(r)
  PROVE  ChatInvariant'
  <1>1. /\ sock[r] = "open" /\ sock' = [sock EXCEPT ![r] = "lost"] /\ faults < MaxFaults
        /\ cancelSent' = [cancelSent EXCEPT ![r] = FALSE] /\ faults' = faults + 1
        /\ wire' = [wire EXCEPT ![r] = wire[r]] \/ wire' = [wire EXCEPT ![r] = <<>>]
        /\ UNCHANGED <<storeVars, lease, serverVars>> /\ UNCHANGED windowVars
        /\ handler' = handler /\ want' = want /\ owner' = owner /\ scopeOf' = scopeOf
        /\ cancelRequested' = cancelRequested /\ linkTerminal' = linkTerminal
        /\ deleting' = deleting /\ gestures' = gestures
    BY DEF Disconnect, serverVars, linkVars
  <1>2. LinkTypeOK /\ <<>> \in Seq(EventType)
    BY WindowTyped
  <1>3. wire' \in [Requests -> Seq(EventType)] /\ cancelSent' \in [Requests -> BOOLEAN]
    BY <1>1, <1>2 DEF LinkTypeOK
  <1>4. \A q \in Requests : wire'[q] = wire[q] \/ wire'[q] = <<>>
    BY <1>1, <1>2 DEF LinkTypeOK
  <1>5. \A q \in Requests : \A i \in DOMAIN wire'[q] : \E j \in DOMAIN wire[q] :
          wire'[q][i] = wire[q][j]
    BY <1>4
  <1>6. LinksKept
    <2>1. sock[r] # "none" /\ linkTerminal' \in [Requests -> BOOLEAN]
      BY <1>1, <1>2 DEF LinkTypeOK
    <2> QED
      BY <1>1, <1>3, <1>5, <2>1, LinkMoves
  <1>7. WindowsKept /\ faults' \in 0 .. MaxFaults
    BY <1>1, WindowTyped, WindowsUnchanged, ChatAssumption
  <1> QED
    BY <1>1, <1>6, <1>7, WindowTyped, WindowOnly

LEMMA ServeFetchStep ==
  ASSUME ChatInvariant, NEW w \in Windows, NEW f \in fetches[w], ServeFetch(w, f)
  PROVE  ChatInvariant'
  <1> DEFINE g == [f EXCEPT !.stage = IF Exists(f.conv) THEN "answered" ELSE "missing",
                            !.shown = IF Exists(f.conv) THEN StoredView(f.conv) ELSE Blank]
  <1>1. f \in FetchType /\ fetches \in [Windows -> SUBSET FetchType]
    BY WindowTyped DEF WindowTypeOK
  <1>2. StoredView(f.conv) \in [Requests -> ViewStatus] /\ Shows(StoredView(f.conv))
    <2>1. \A q \in Requests : row[q] \in RowType /\ HandlerFits(q)
      BY Typed, ServerTyped
    <2>2. \A q \in Requests : row[q].status = "complete" => Settled(q)
      BY <2>1 DEF HandlerFits, Settled, Stored
    <2> QED
      BY <2>1, <2>2 DEF StoredView, RowType, ViewStatus, Shows
  <1>3. g \in FetchType /\ Shows(g.shown)
    <2>1. g \in FetchType /\ g.shown \in {StoredView(f.conv), Blank}
      BY <1>1, <1>2, BlankShows DEF FetchType
    <2> QED
      BY <1>2, <2>1, BlankShows
  <1>4. \/ fetches' = [fetches EXCEPT ![w] = (fetches[w] \ {f}) \cup {}]
        \/ fetches' = [fetches EXCEPT ![w] = (fetches[w] \ {f}) \cup {g}]
    BY DEF ServeFetch
  <1> HIDE DEF g
  <1>5. FetchesKept
    <2>1. fetches' \in [Windows -> SUBSET FetchType]
      BY <1>1, <1>3, <1>4
    <2>2. \A v \in Windows : \A h \in fetches'[v] : h \in fetches[v] \/ h = g
      BY <1>1, <1>4
    <2> QED
      BY <1>3, <2>1, <2>2, WindowTyped DEF FetchesKept
  <1>6. /\ UNCHANGED <<storeVars, lease, serverVars>> /\ UNCHANGED <<socketVars, linkVars>>
        /\ win' = win /\ view' = view /\ rewriting' = rewriting /\ signals' = signals
        /\ pendingSignal' = pendingSignal /\ handler' = handler
        /\ deleting' = deleting /\ faults' = faults /\ gestures' = gestures
    BY DEF ServeFetch, serverVars, bounds
  <1>7. WindowsKept /\ LinksKept
    BY <1>5, <1>6, WindowsUnchanged, LinksUnchanged DEF WindowsKept
  <1> QED
    BY <1>6, <1>7, WindowTyped, WindowOnly

LEMMA ApplyFetchStep ==
  ASSUME ChatInvariant, NEW w \in Windows, NEW f \in fetches[w], ApplyFetch(w, f)
  PROVE  ChatInvariant'
  <1> DEFINE apply == f.stage = "answered" /\ StillWanted(w, f)
             W == IF apply THEN Applied(win[w], f.conv) ELSE win[w]
             U == IF f.kind = "open" THEN [W EXCEPT !.opening = FALSE] ELSE W
  <1>1. /\ f \in FetchType /\ fetches \in [Windows -> SUBSET FetchType] /\ win[w] \in WinType
        /\ Shows(f.shown)
    BY WindowTyped DEF WindowTypeOK
  <1>2. f.conv \in Conversations /\ f.shown \in [Requests -> ViewStatus]
    BY <1>1 DEF FetchType
  <1>3. W \in WinType
    BY <1>1, <1>2, WinRecords
  <1>4. /\ win' = [win EXCEPT ![w] = U]
        /\ view' = IF apply THEN [view EXCEPT ![w] = f.shown] ELSE view
        /\ fetches' = [fetches EXCEPT ![w] = fetches[w] \ {f}]
        /\ UNCHANGED <<storeVars, lease, serverVars>> /\ UNCHANGED <<socketVars, linkVars>>
        /\ rewriting' = rewriting /\ signals' = signals
        /\ pendingSignal' = pendingSignal /\ handler' = handler
        /\ deleting' = deleting /\ faults' = faults /\ gestures' = gestures
    BY DEF ApplyFetch, serverVars, bounds
  <1> HIDE DEF W, apply
  <1>5. U \in WinType
    BY <1>3, WinRecords
  <1> HIDE DEF U
  <1>6. WinKept /\ ViewsKept
    BY <1>1, <1>2, <1>4, <1>5, SetWin, SetView, WindowsUnchanged
  <1>7. FetchesKept
    <2>1. /\ fetches' \in [Windows -> SUBSET FetchType]
          /\ \A v \in Windows : fetches'[v] \subseteq fetches[v]
      BY <1>1, <1>4
    <2> QED
      BY <2>1, WindowTyped DEF FetchesKept
  <1>8. WindowsKept /\ LinksKept
    BY <1>4, <1>6, <1>7, WindowsUnchanged, LinksUnchanged DEF WindowsKept
  <1> QED
    BY <1>4, <1>8, WindowTyped, WindowOnly

LEMMA RefreshKeeps ==
  ASSUME ChatInvariant, NEW w \in Windows, NEW c \in Conversations, AskRefresh(w, c),
         UNCHANGED <<handler, wire, want, owner, scopeOf>>
  PROVE  WinKept /\ ViewsKept /\ FetchesKept /\ LinksKept
  <1>1. /\ fetches' = [fetches EXCEPT ![w] = @ \cup {Ask("refresh", c, None)}]
        /\ win' = win /\ view' = view /\ UNCHANGED <<handler, socketVars, linkVars>>
    BY DEF AskRefresh, socketVars, linkVars
  <1> QED
    BY <1>1, AskKeeps, WindowsUnchanged, LinksUnchanged

LEMMA OnSignalStep ==
  ASSUME ChatInvariant, NEW w \in Windows, NEW s \in signals[w], OnSignal(w, s)
  PROVE  ChatInvariant'
  <1>1. /\ UNCHANGED <<storeVars, lease, serverVars>>
        /\ UNCHANGED <<handler, wire, want, owner, scopeOf>> /\ rewriting' = rewriting
        /\ deleting' = deleting /\ faults' = faults /\ gestures' = gestures
        /\ signals' = [signals EXCEPT ![w] = @ \ {s}]
    BY DEF OnSignal, serverVars, bounds
  <1>2. /\ signals \in [Windows -> SUBSET Signal] /\ pendingSignal \in [Windows -> SUBSET Signal]
        /\ win[w] \in WinType /\ s \in Signal
    BY WindowTyped DEF WindowTypeOK
  <1>3. s.conv \in Conversations /\ s.kind \in {"updated", "deleted"}
    BY <1>2 DEF Signal
  <1>4. signals' \in [Windows -> SUBSET Signal]
    BY <1>1, <1>2
  <1>5. WinKept /\ ViewsKept /\ FetchesKept /\ LinksKept
        /\ pendingSignal' \in [Windows -> SUBSET Signal]
    <2>1. CASE \/ UNCHANGED <<sock, cancelSent, cancelRequested, linkTerminal, win, view, fetches,
                              pendingSignal>>
               \/ /\ pendingSignal' = [pendingSignal EXCEPT ![w] = {s}]
                  /\ UNCHANGED <<sock, cancelSent, cancelRequested, linkTerminal, win, view,
                                 fetches>>
      <3>1. /\ win' = win /\ view' = view /\ fetches' = fetches
            /\ UNCHANGED <<handler, socketVars, linkVars>>
        BY <1>1, <2>1 DEF socketVars, linkVars
      <3>2. pendingSignal' \in [Windows -> SUBSET Signal]
        BY <1>2, <2>1
      <3> QED
        BY <3>1, <3>2, WindowsUnchanged, LinksUnchanged
    <2>2. CASE ApplyDeletion(w) /\ pendingSignal' = [pendingSignal EXCEPT ![w] = {}]
      <3> DEFINE W == [Released(win[w]) EXCEPT !.conv = None]
      <3>1. CloseLink(win[w].active) /\ win[w].active \in Requests \cup {None}
        BY <1>2, <2>2 DEF ApplyDeletion, WinType
      <3>2. W \in WinType
        <4>1. Released(win[w]) \in WinType
          BY <1>2, WinRecords DEF None
        <4> QED
          BY <4>1, WinRecords
      <3>3. /\ win' = [win EXCEPT ![w] = W] /\ view' = [view EXCEPT ![w] = Blank]
            /\ fetches' = fetches
        BY <2>2 DEF ApplyDeletion
      <3> HIDE DEF W
      <3>4. pendingSignal' \in [Windows -> SUBSET Signal]
        BY <1>2, <2>2
      <3>5. WinKept /\ ViewsKept /\ FetchesKept
        BY <3>2, <3>3, BlankShows, SetWin, SetView, WindowsUnchanged
      <3>6. LinksKept
        BY <1>1, <3>1, CloseLinkKeeps
      <3> QED
        BY <3>4, <3>5, <3>6
    <2>3. CASE AskRefresh(w, s.conv) /\ pendingSignal' = pendingSignal
      BY <1>1, <1>2, <1>3, <2>3, RefreshKeeps
    <2> QED
      BY <2>1, <2>2, <2>3 DEF OnSignal
  <1>6. WindowsKept
    BY <1>1, <1>4, <1>5, WindowsUnchanged DEF WindowsKept, SignalsKept
  <1> QED
    BY <1>1, <1>5, <1>6, WindowTyped, WindowOnly

LEMMA OnPendingSignalStep ==
  ASSUME ChatInvariant, NEW w \in Windows, OnPendingSignal(w)
  PROVE  ChatInvariant'
  <1>1. /\ UNCHANGED <<storeVars, lease, serverVars>>
        /\ UNCHANGED <<handler, wire, want, owner, scopeOf>> /\ rewriting' = rewriting
        /\ deleting' = deleting /\ faults' = faults /\ gestures' = gestures
        /\ signals' = signals /\ pendingSignal' = [pendingSignal EXCEPT ![w] = {}]
    BY DEF OnPendingSignal, serverVars, bounds
  <1>2. /\ signals \in [Windows -> SUBSET Signal] /\ pendingSignal \in [Windows -> SUBSET Signal]
    BY WindowTyped DEF WindowTypeOK
  <1>3. PICK s \in pendingSignal[w] :
          IF s.conv = win[w].conv THEN AskRefresh(w, s.conv)
          ELSE UNCHANGED <<sock, cancelSent, cancelRequested, linkTerminal, win, view, fetches>>
    BY DEF OnPendingSignal
  <1>4. s.conv \in Conversations
    BY <1>2 DEF Signal
  <1>5. WinKept /\ ViewsKept /\ FetchesKept /\ LinksKept
    <2>1. CASE s.conv = win[w].conv
      BY <1>1, <1>3, <1>4, <2>1, RefreshKeeps
    <2>2. CASE s.conv # win[w].conv
      <3>1. /\ win' = win /\ view' = view /\ fetches' = fetches
            /\ UNCHANGED <<handler, socketVars, linkVars>>
        BY <1>1, <1>3, <2>2 DEF socketVars, linkVars
      <3> QED
        BY <3>1, WindowsUnchanged, LinksUnchanged
    <2> QED
      BY <2>1, <2>2
  <1>6. WindowsKept
    BY <1>1, <1>2, <1>5, WindowsUnchanged DEF WindowsKept, SignalsKept
  <1> QED
    BY <1>1, <1>5, <1>6, WindowTyped, WindowOnly

\* The number of a request is the next one, and nothing of it is on its way.
LEMMA Fresh ==
  ASSUME ChatInvariant, NextRequest \in Requests
  PROVE  /\ owner[NextRequest] = "nobody" /\ sock[NextRequest] = "none"
         /\ handler[NextRequest] = "none" /\ Cardinality(Sent) \in Nat
         /\ IsFiniteSet(Sent) /\ NextRequest \notin Sent
  <1>1. IsFiniteSet(Requests) /\ Sent \subseteq Requests
    BY FS_Interval, StoreAssumption DEF Requests, Sent
  <1>2. IsFiniteSet(Sent) /\ Cardinality(Sent) \in Nat
    BY <1>1, FS_Subset, FS_CardinalityType
  <1>3. NextRequest \notin Sent
    BY <1>2, WindowTyped DEF NextRequest, SentInOrder
  <1>4. owner[NextRequest] = "nobody"
    BY <1>3 DEF Sent
  <1> QED
    BY <1>2, <1>3, <1>4, WindowTyped DEF LinkFits

LEMMA StartKeeps ==
  ASSUME ChatInvariant, NEW w \in Windows, NEW W \in WinType,
         NEW V \in [Requests -> ViewStatus], Shows(V), StartRequest(w, W, V),
         UNCHANGED <<handler, cancelSent, wire, cancelRequested, linkTerminal>>
  PROVE  WinKept /\ ViewsKept /\ LinksKept
  <1>1. PICK r \in Requests :
          /\ r = NextRequest
          /\ win' = [win EXCEPT ![w] = [W EXCEPT !.active = r, !.target = W.conv,
                                                 !.detached = FALSE]]
          /\ view' = [view EXCEPT ![w] = [V EXCEPT ![r] = "local"]]
          /\ want' = [want EXCEPT ![r] = W.conv] /\ owner' = [owner EXCEPT ![r] = w]
          /\ scopeOf' = [scopeOf EXCEPT ![r] = W.scope]
          /\ sock' = [sock EXCEPT ![r] = "connecting"]
    BY DEF StartRequest
  <1>2. /\ owner[r] = "nobody" /\ sock[r] = "none" /\ handler[r] = "none"
        /\ Cardinality(Sent) \in Nat /\ IsFiniteSet(Sent) /\ r \notin Sent
        /\ r = Cardinality(Sent) + 1
    BY <1>1, Fresh DEF NextRequest
  <1>3. WinKept
    <2>1. [W EXCEPT !.active = r, !.target = W.conv, !.detached = FALSE] \in WinType
      BY WinRecords DEF None
    <2> QED
      BY <1>1, <2>1, SetWin
  <1>4. ViewsKept
    <2> DEFINE U == [V EXCEPT ![r] = "local"]
    <2>1. U \in [Requests -> ViewStatus] /\ Shows(U)
      BY DEF ViewStatus, Shows
    <2>2. view' = [view EXCEPT ![w] = U]
      BY <1>1
    <2> HIDE DEF U
    <2> QED
      BY <2>1, <2>2, SetView
  <1>5. LinkTypeOK /\ SentInOrder /\ \A q \in Requests : LinkFits(q)
    BY WindowTyped
  <1>6. W.conv \in Conversations \cup {None} /\ W.scope \in Conversations \cup {None}
        /\ w # "nobody"
    BY ChatAssumption DEF WinType
  <1>7. /\ want' \in [Requests -> Conversations \cup {None}]
        /\ owner' \in [Requests -> Windows \cup {"nobody"}]
        /\ scopeOf' \in [Requests -> Conversations \cup {None}]
        /\ sock' \in [Requests -> {"none", "connecting", "open", "closed", "lost"}]
        /\ owner'[r] = w /\ sock'[r] = "connecting"
        /\ \A q \in Requests \ {r} :
             want'[q] = want[q] /\ owner'[q] = owner[q] /\ sock'[q] = sock[q]
    BY <1>1, <1>5, <1>6 DEF LinkTypeOK
  <1>8. LinkTypeOK'
    BY <1>5, <1>7 DEF LinkTypeOK
  <1>9. SentInOrder'
    <2>1. Sent' = Sent \cup {r}
      BY <1>6, <1>7 DEF Sent
    <2>2. Cardinality(Sent') = Cardinality(Sent) + 1
      BY <1>2, <2>1, FS_AddElement
    <2>3. Sent' = 1 .. Cardinality(Sent) + 1
      BY <1>2, <1>5, <2>1 DEF SentInOrder
    <2> QED
      BY <2>2, <2>3 DEF SentInOrder
  <1>10. \A q \in Requests : LinkFits(q)'
    BY <1>2, <1>5, <1>6, <1>7 DEF LinkFits
  <1>11. LinksKept
    BY <1>2, <1>7, <1>8, <1>9, <1>10 DEF LinksKept
  <1> QED
    BY <1>3, <1>4, <1>11

LEMMA SendStep ==
  ASSUME ChatInvariant, NEW w \in Windows, Send(w)
  PROVE  ChatInvariant'
  <1>1. /\ StartRequest(w, win[w], view[w])
        /\ UNCHANGED <<storeVars, lease, serverVars>>
        /\ UNCHANGED <<handler, cancelSent, wire, cancelRequested, linkTerminal>>
        /\ fetches' = fetches /\ rewriting' = rewriting /\ signals' = signals
        /\ pendingSignal' = pendingSignal
        /\ deleting' = deleting /\ faults' = faults /\ gestures' = gestures
    BY DEF Send, serverVars, bounds
  <1>2. WinKept /\ ViewsKept /\ LinksKept
    BY <1>1, WindowTyped, StartKeeps
  <1>3. WindowsKept
    BY <1>1, <1>2, WindowsUnchanged DEF WindowsKept
  <1> QED
    BY <1>1, <1>2, <1>3, WindowTyped, WindowOnly

LEMMA GestureTyped ==
  ASSUME ChatInvariant, Gesture
  PROVE  gestures' \in 0 .. MaxGestures
  BY WindowTyped, ChatAssumption DEF Gesture

LEMMA CancelStep ==
  ASSUME ChatInvariant, NEW w \in Windows, Cancel(w)
  PROVE  ChatInvariant'
  <1>1. PICK r \in Requests :
          /\ cancelRequested' = [cancelRequested EXCEPT ![r] = TRUE]
          /\ cancelSent' = [cancelSent EXCEPT ![r] = sock[r] = "open"]
    BY WindowTyped DEF Cancel, WinType
  <1>2. /\ UNCHANGED <<storeVars, lease, serverVars>> /\ UNCHANGED windowVars
        /\ handler' = handler /\ sock' = sock /\ wire' = wire /\ want' = want
        /\ owner' = owner /\ scopeOf' = scopeOf /\ linkTerminal' = linkTerminal
        /\ deleting' = deleting /\ faults' = faults
    BY DEF Cancel, serverVars
  <1>3. LinkTypeOK'
    <2>1. LinkTypeOK
      BY WindowTyped
    <2>2. (sock[r] = "open") \in BOOLEAN
      OBVIOUS
    <2>3. cancelRequested' \in [Requests -> BOOLEAN]
      BY <1>1, <2>1 DEF LinkTypeOK
    <2>4. cancelSent' \in [Requests -> BOOLEAN]
      BY <1>1, <2>1, <2>2 DEF LinkTypeOK
    <2> QED
      BY <1>2, <2>1, <2>3, <2>4 DEF LinkTypeOK
  <1>4. LinksKept
    BY <1>2, <1>3, WindowTyped DEF LinksKept, SentInOrder, Sent, LinkFits
  <1>5. WindowsKept
    BY <1>2, WindowsUnchanged
  <1>6. gestures' \in 0 .. MaxGestures
    BY GestureTyped DEF Cancel
  <1> QED
    BY <1>2, <1>4, <1>5, <1>6, WindowTyped, WindowOnly

LEMMA ResetStep ==
  ASSUME ChatInvariant, NEW w \in Windows, Reset(w)
  PROVE  ChatInvariant'
  <1> DEFINE W == [Idle EXCEPT !.opening = win[w].opening]
  <1>1. /\ CloseLink(win[w].active) /\ win' = [win EXCEPT ![w] = W]
        /\ view' = [view EXCEPT ![w] = Blank]
        /\ fetches' = [fetches EXCEPT ![w] =
                         {f \in fetches[w] : f.kind # "recover" \/ f.scope # None}]
        /\ pendingSignal' = [pendingSignal EXCEPT ![w] = {}]
        /\ UNCHANGED <<storeVars, lease, serverVars>>
        /\ UNCHANGED <<handler, wire, want, owner, scopeOf>>
        /\ rewriting' = rewriting /\ signals' = signals
        /\ deleting' = deleting /\ faults' = faults
    BY DEF Reset, serverVars
  <1>2. win[w].active \in Requests \cup {None} /\ win[w].opening \in BOOLEAN /\ win[w] \in WinType
    BY WindowTyped DEF WinType
  <1>3. W \in WinType
    BY <1>2, WinRecords DEF None
  <1> HIDE DEF W
  <1>4. WinKept /\ ViewsKept
    BY <1>1, <1>3, BlankShows, SetWin, SetView
  <1>5. FetchesKept
    <2>1. /\ fetches' \in [Windows -> SUBSET FetchType]
          /\ \A v \in Windows : fetches'[v] \subseteq fetches[v]
      BY <1>1, WindowTyped DEF WindowTypeOK
    <2> QED
      BY <2>1, WindowTyped DEF FetchesKept
  <1>6. SignalsKept
    BY <1>1, WindowTyped DEF WindowTypeOK, SignalsKept
  <1>7. WindowsKept
    BY <1>1, <1>4, <1>5, <1>6, WindowsUnchanged DEF WindowsKept
  <1>8. LinksKept
    BY <1>1, <1>2, CloseLinkKeeps
  <1>9. gestures' \in 0 .. MaxGestures
    BY GestureTyped DEF Reset
  <1> QED
    BY <1>1, <1>7, <1>8, <1>9, WindowTyped, WindowOnly

LEMMA OpenStep ==
  ASSUME ChatInvariant, NEW w \in Windows, NEW c \in Conversations, Open(w, c)
  PROVE  ChatInvariant'
  <1>1. /\ fetches' = [fetches EXCEPT ![w] = @ \cup {Ask("open", c, None)}]
        /\ UNCHANGED <<storeVars, lease, serverVars>>
        /\ UNCHANGED <<handler, wire, want, owner, scopeOf>> /\ view' = view
        /\ rewriting' = rewriting /\ signals' = signals /\ pendingSignal' = pendingSignal
        /\ deleting' = deleting /\ faults' = faults
    BY DEF Open, serverVars
  <1>2. win[w].active \in Requests \cup {None} /\ win[w] \in WinType
    BY WindowTyped DEF WinType
  <1>3. /\ [win[w] EXCEPT !.detached = TRUE, !.opening = TRUE] \in WinType
        /\ [Released(win[w]) EXCEPT !.opening = TRUE] \in WinType
    <2>1. /\ [win[w] EXCEPT !.detached = TRUE, !.opening = TRUE] \in WinType
          /\ Released(win[w]) \in WinType
      BY <1>2, WinRecords DEF None
    <2> QED
      BY <2>1, WinRecords
  <1>4. WinKept /\ LinksKept
    <2>1. CASE win[w].active # None /\ win[w].conv # c
      <3>1. /\ win' = [win EXCEPT ![w] = [win[w] EXCEPT !.detached = TRUE, !.opening = TRUE]]
            /\ UNCHANGED <<sock, cancelSent, cancelRequested, linkTerminal>>
        BY <2>1, WindowTyped DEF Open, WindowTypeOK
      <3>2. UNCHANGED <<handler, socketVars, linkVars>>
        BY <1>1, <3>1 DEF socketVars, linkVars
      <3> QED
        BY <1>3, <3>1, <3>2, SetWin, LinksUnchanged
    <2>2. CASE ~(win[w].active # None /\ win[w].conv # c)
      <3>1. /\ win' = [win EXCEPT ![w] = [Released(win[w]) EXCEPT !.opening = TRUE]]
            /\ CloseLink(win[w].active)
        BY <2>2 DEF Open
      <3> QED
        BY <1>1, <1>2, <1>3, <3>1, SetWin, CloseLinkKeeps
    <2> QED
      BY <2>1, <2>2
  <1>5. FetchesKept
    BY <1>1, AskKeeps DEF None
  <1>6. WindowsKept
    BY <1>1, <1>4, <1>5, WindowsUnchanged DEF WindowsKept
  <1>7. gestures' \in 0 .. MaxGestures
    BY GestureTyped DEF Open
  <1> QED
    BY <1>1, <1>4, <1>6, <1>7, WindowTyped, WindowOnly

LEMMA AmendStep ==
  ASSUME ChatInvariant, NEW w \in Windows, NEW c \in Conversations, Amend(w, c)
  PROVE  ChatInvariant'
  <1>1. /\ Exists(c) /\ recent' = Touched(recent, c) /\ UNCHANGED <<created, row, begun>>
        /\ signals' = SignalPeers(w, c, "updated") /\ lease' = lease
        /\ UNCHANGED serverVars /\ UNCHANGED <<handler, socketVars, linkVars>>
        /\ win' = win /\ view' = view /\ fetches' = fetches /\ rewriting' = rewriting
        /\ pendingSignal' = pendingSignal /\ deleting' = deleting /\ faults' = faults
    BY DEF Amend, RenameConversation, UpdateContext, serverVars
  <1>2. StoreTyped' /\ RowsInStore' /\ row' = row /\ begun' = begun
    BY <1>1, TouchStore
  <1>3. SignalsKept
    BY <1>1, PeersKept, WindowTyped DEF SignalsKept, WindowTypeOK
  <1>4. WindowsKept /\ LinksKept
    BY <1>1, <1>3, WindowsUnchanged, LinksUnchanged DEF WindowsKept
  <1>5. gestures' \in 0 .. MaxGestures
    BY GestureTyped DEF Amend
  <1>6. /\ UNCHANGED <<lease, conv, cancelEvent, terminal, producer, latest, queue>>
        /\ handler' = handler
        /\ handler \in [Requests -> {"none", "received", "claimed", "begun", "serving",
                                     "cancelling", "closing", "raising", "ended", "broken"}]
    BY <1>1 DEF serverVars, ChatInvariant, TypeOK, ServerTypeOK
  <1> QED
    BY <1>1, <1>2, <1>4, <1>5, <1>6, WindowTyped, WindowSide

LEMMA AskRewriteStep ==
  ASSUME ChatInvariant, NEW w \in Windows, NEW r \in Requests, AskRewrite(w, r)
  PROVE  ChatInvariant'
  <1>1. /\ rewriting' = [rewriting EXCEPT ![w] = [from |-> r, checked |-> FALSE]]
        /\ UNCHANGED <<storeVars, lease, serverVars>>
        /\ UNCHANGED <<handler, socketVars, linkVars>>
        /\ win' = win /\ view' = view /\ fetches' = fetches /\ signals' = signals
        /\ pendingSignal' = pendingSignal /\ deleting' = deleting /\ faults' = faults
    BY DEF AskRewrite, serverVars
  <1>2. RewritesKept
    BY <1>1 DEF ChatInvariant, TypeOK, WindowTypeOK, ViewsFit, RewritesKept
  <1>3. WindowsKept /\ LinksKept
    BY <1>1, <1>2, WindowsUnchanged, LinksUnchanged DEF WindowsKept
  <1>4. gestures' \in 0 .. MaxGestures
    BY GestureTyped DEF AskRewrite
  <1> QED
    BY <1>1, <1>3, <1>4, WindowTyped, WindowOnly

LEMMA CheckRewriteStep ==
  ASSUME ChatInvariant, NEW w \in Windows, CheckRewrite(w)
  PROVE  ChatInvariant'
  <1>1. /\ rewriting[w].from # None
        /\ \/ rewriting' = [rewriting EXCEPT ![w] = [rewriting[w] EXCEPT !.checked = TRUE]]
           \/ rewriting' = [rewriting EXCEPT ![w] = NoRewrite]
        /\ UNCHANGED <<storeVars, lease, serverVars>>
        /\ UNCHANGED <<handler, socketVars, linkVars>>
        /\ win' = win /\ view' = view /\ fetches' = fetches /\ signals' = signals
        /\ pendingSignal' = pendingSignal
        /\ deleting' = deleting /\ faults' = faults /\ gestures' = gestures
    <2>1. rewriting \in [Windows -> [from : Requests \cup {None}, checked : BOOLEAN]]
      BY WindowTyped DEF WindowTypeOK
    <2>2. /\ UNCHANGED <<handler, socketVars, linkVars>>
          /\ deleting' = deleting /\ faults' = faults /\ gestures' = gestures
      BY DEF CheckRewrite, serverVars, bounds
    <2> QED
      BY <2>1, <2>2 DEF CheckRewrite
  <1>2. RewritesKept
    <2>1. /\ rewriting \in [Windows -> [from : Requests \cup {None}, checked : BOOLEAN]]
          /\ \A v \in Windows : rewriting[v].checked => rewriting[v].from # None
      BY DEF ChatInvariant, TypeOK, WindowTypeOK, ViewsFit
    <2>2. PICK x \in [from : Requests \cup {None}, checked : BOOLEAN] :
            (x.checked => x.from # None) /\ rewriting' = [rewriting EXCEPT ![w] = x]
      <3>1. /\ NoRewrite \in [from : Requests \cup {None}, checked : BOOLEAN]
            /\ ~NoRewrite.checked
        BY DEF NoRewrite
      <3>2. /\ [rewriting[w] EXCEPT !.checked = TRUE] \in
                 [from : Requests \cup {None}, checked : BOOLEAN]
            /\ [rewriting[w] EXCEPT !.checked = TRUE].from = rewriting[w].from
        BY <2>1
      <3> QED
        BY <1>1, <3>1, <3>2
    <2> QED
      BY <2>1, <2>2 DEF RewritesKept
  <1>3. WindowsKept /\ LinksKept
    BY <1>1, <1>2, WindowsUnchanged, LinksUnchanged DEF WindowsKept
  <1> QED
    BY <1>1, <1>3, WindowTyped, WindowOnly

LEMMA DoRewriteStep ==
  ASSUME ChatInvariant, NEW w \in Windows, DoRewrite(w)
  PROVE  ChatInvariant'
  <1>1. /\ rewriting' = [rewriting EXCEPT ![w] = NoRewrite]
        /\ UNCHANGED <<lease, serverVars>> /\ fetches' = fetches
        /\ UNCHANGED <<handler, cancelSent, wire, cancelRequested, linkTerminal>>
        /\ pendingSignal' = pendingSignal
        /\ deleting' = deleting /\ faults' = faults /\ gestures' = gestures
    BY DEF DoRewrite, serverVars, bounds
  <1>2. RewritesKept
    <2>1. /\ rewriting \in [Windows -> [from : Requests \cup {None}, checked : BOOLEAN]]
          /\ \A v \in Windows : rewriting[v].checked => rewriting[v].from # None
      BY DEF ChatInvariant, TypeOK, WindowTypeOK, ViewsFit
    <2> QED
      BY <1>1, <2>1 DEF RewritesKept, NoRewrite
  <1>3. PICK r \in Requests : r = rewriting[w].from
    BY DEF DoRewrite, ChatInvariant, TypeOK, WindowTypeOK, ViewsFit
  <1>4. PICK c : c = row[r].conv
    OBVIOUS
  <1>5. c \in Conversations \cup {None}
    BY <1>4, Typed DEF RowType
  <1> DEFINE rewound == [q \in Requests |-> IF RewoundRows(c, r)[q].conv = c
                                             THEN RewoundRows(c, r)[q].status ELSE "absent"]
  <1>6. CASE c = None \/ ~MayRewind(c, r)
    <2>1. /\ UNCHANGED <<storeVars, lease, serverVars>>
          /\ UNCHANGED <<handler, socketVars, linkVars>>
          /\ win' = win /\ view' = view /\ signals' = signals
      BY <1>1, <1>3, <1>4, <1>6 DEF DoRewrite, socketVars, linkVars
    <2>2. WindowsKept /\ LinksKept
      BY <1>1, <1>2, <2>1, WindowsUnchanged, LinksUnchanged DEF WindowsKept
    <2> QED
      BY <1>1, <2>1, <2>2, WindowTyped, WindowOnly
  <1>7. CASE ~(c = None \/ ~MayRewind(c, r))
    <2>1. /\ Rewind(c, r) /\ signals' = SignalPeers(w, c, "updated")
          /\ \/ StartRequest(w, Applied(win[w], c), rewound)
             \/ /\ win' = [win EXCEPT ![w] = Applied(win[w], c)]
                /\ view' = [view EXCEPT ![w] = rewound]
                /\ UNCHANGED <<want, owner, scopeOf, sock>>
      BY <1>3, <1>4, <1>7 DEF DoRewrite
    <2>2. /\ StoreTyped' /\ RowsInStore' /\ begun' = begun
          /\ \A q \in Requests : row'[q] \in {row[q], NoRow} /\ row'[q] = RewoundRows(c, r)[q]
      BY <2>1, RewindStore
    <2>3. rewound \in [Requests -> ViewStatus] /\ Shows(rewound)
      <3>1. \A q \in Requests : /\ row[q] \in RowType /\ HandlerFits(q)
                                /\ RewoundRows(c, r)[q] \in {row[q], NoRow}
        BY <2>2, Typed, ServerTyped
      <3>2. \A q \in Requests : row[q].status = "complete" => Settled(q)
        BY <3>1 DEF HandlerFits, Settled, Stored
      <3>3. \A q \in Requests : /\ rewound[q] \in ViewStatus
                                /\ rewound[q] = "complete" => row[q].status = "complete"
        BY <3>1, NoRowTyped DEF RowType, ViewStatus
      <3> QED
        BY <3>2, <3>3 DEF Shows
    <2> HIDE DEF rewound
    <2>4. Applied(win[w], c) \in WinType
      BY <1>5, WindowTyped, WinRecords
    <2>5. WinKept /\ ViewsKept /\ LinksKept
      <3>1. CASE StartRequest(w, Applied(win[w], c), rewound)
        BY <1>1, <2>3, <2>4, <3>1, StartKeeps
      <3>2. CASE /\ win' = [win EXCEPT ![w] = Applied(win[w], c)]
                 /\ view' = [view EXCEPT ![w] = rewound]
                 /\ UNCHANGED <<want, owner, scopeOf, sock>>
        <4>1. UNCHANGED <<handler, socketVars, linkVars>>
          BY <1>1, <3>2 DEF socketVars, linkVars
        <4> QED
          BY <2>3, <2>4, <3>2, <4>1, SetWin, SetView, LinksUnchanged
      <3> QED
        BY <2>1, <3>1, <3>2
    <2>6. SignalsKept
      BY <1>1, <1>5, <2>1, PeersKept, WindowTyped DEF SignalsKept, WindowTypeOK
    <2>7. WindowsKept
      BY <1>1, <1>2, <2>5, <2>6, WindowsUnchanged DEF WindowsKept
    <2>8. /\ UNCHANGED <<lease, conv, cancelEvent, terminal, producer, latest, queue>>
          /\ handler' = handler
          /\ handler \in [Requests -> {"none", "received", "claimed", "begun", "serving",
                                       "cancelling", "closing", "raising", "ended", "broken"}]
      BY <1>1 DEF serverVars, ChatInvariant, TypeOK, ServerTypeOK
    <2> QED
      BY <1>1, <2>2, <2>5, <2>7, <2>8, WindowTyped, WindowSide
  <1> QED
    BY <1>6, <1>7

LEMMA AskDeleteStep ==
  ASSUME ChatInvariant, NEW c \in Conversations, AskDelete(c)
  PROVE  ChatInvariant'
  <1>1. /\ deleting' = c /\ UNCHANGED <<storeVars, lease, serverVars>>
        /\ UNCHANGED <<handler, socketVars, linkVars>> /\ UNCHANGED windowVars
        /\ faults' = faults
    BY DEF AskDelete, serverVars
  <1>2. gestures' \in 0 .. MaxGestures
    BY GestureTyped DEF AskDelete
  <1> QED
    BY <1>1, <1>2, WindowTyped, WindowOnly, WindowsUnchanged, LinksUnchanged

LEMMA DeleteStep ==
  ASSUME ChatInvariant, NEW c \in Conversations, Delete(c)
  PROVE  ChatInvariant'
  <1>0. "main" \in Windows
    BY ChatAssumption
  <1>1. /\ deleting' = None /\ DeleteConversation(c)
        /\ signals' = (IF Exists(c) THEN SignalPeers("main", c, "deleted") ELSE signals)
        /\ lease' = lease /\ UNCHANGED serverVars
        /\ UNCHANGED <<handler, wire, want, owner, scopeOf>>
        /\ fetches' = fetches /\ rewriting' = rewriting /\ faults' = faults
        /\ gestures' = gestures
        /\ \/ /\ CloseLink(win["main"].active) /\ win' = [win EXCEPT !["main"] = Idle]
              /\ view' = [view EXCEPT !["main"] = Blank]
              /\ pendingSignal' = [pendingSignal EXCEPT !["main"] = {}]
           \/ UNCHANGED <<sock, cancelSent, cancelRequested, linkTerminal, win, view,
                          pendingSignal>>
    BY DEF Delete, serverVars, bounds
  <1>2. /\ StoreTyped' /\ RowsInStore' /\ begun' = begun
        /\ \A q \in Requests : row'[q] \in {row[q], NoRow}
    BY <1>1, DeleteStore
  <1>3. Idle \in WinType /\ win["main"].active \in Requests \cup {None}
    BY <1>0, WindowTyped DEF Idle, WinType
  <1>4. WinKept /\ ViewsKept /\ LinksKept
    <2>1. CASE /\ CloseLink(win["main"].active) /\ win' = [win EXCEPT !["main"] = Idle]
               /\ view' = [view EXCEPT !["main"] = Blank]
      BY <1>0, <1>1, <1>3, <2>1, BlankShows, SetWin, SetView, CloseLinkKeeps
    <2>2. CASE UNCHANGED <<sock, cancelSent, cancelRequested, linkTerminal, win, view>>
      <3>1. UNCHANGED <<handler, socketVars, linkVars>> /\ win' = win /\ view' = view
        BY <1>1, <2>2 DEF socketVars, linkVars
      <3> QED
        BY <3>1, WindowsUnchanged, LinksUnchanged
    <2> QED
      BY <1>1, <2>1, <2>2
  <1>5. SignalsKept
    <2>1. signals' \in [Windows -> SUBSET Signal]
      BY <1>0, <1>1, PeersKept, WindowTyped DEF WindowTypeOK
    <2>2. pendingSignal' \in [Windows -> SUBSET Signal]
      BY <1>1, WindowTyped DEF WindowTypeOK
    <2> QED
      BY <2>1, <2>2 DEF SignalsKept
  <1>6. WindowsKept
    BY <1>1, <1>4, <1>5, WindowsUnchanged DEF WindowsKept
  <1>7. /\ UNCHANGED <<lease, conv, cancelEvent, terminal, producer, latest, queue>>
        /\ handler' = handler
        /\ handler \in [Requests -> {"none", "received", "claimed", "begun", "serving",
                                     "cancelling", "closing", "raising", "ended", "broken"}]
    BY <1>1 DEF serverVars, ChatInvariant, TypeOK, ServerTypeOK
  <1> QED
    BY <1>1, <1>2, <1>4, <1>6, <1>7, WindowTyped, WindowSide

LEMMA RestartStep ==
  ASSUME ChatInvariant, Restart
  PROVE  ChatInvariant'
  <1>1. /\ faults < MaxFaults /\ faults' = faults + 1 /\ Initialize
        /\ lease' = [c \in Conversations |-> None]
        /\ handler' = [r \in Requests |-> IF handler[r] = "none" THEN "none" ELSE "ended"]
        /\ producer' = [r \in Requests |-> IF producer[r] = "none" THEN "none" ELSE "over"]
        /\ sock' = [r \in Requests |-> IF sock[r] = "open" THEN "lost" ELSE sock[r]]
        /\ cancelSent' = [r \in Requests |-> FALSE] /\ queue' = [r \in Requests |-> <<>>]
        /\ deleting' = None /\ rewriting' = [w \in Windows |-> NoRewrite]
        /\ conv' = conv /\ cancelEvent' = cancelEvent /\ terminal' = terminal
        /\ latest' = latest /\ wire' = wire /\ want' = want /\ owner' = owner
        /\ scopeOf' = scopeOf /\ cancelRequested' = cancelRequested
        /\ linkTerminal' = linkTerminal /\ win' = win /\ view' = view /\ fetches' = fetches
        /\ signals' = signals /\ pendingSignal' = pendingSignal /\ gestures' = gestures
    BY DEF Restart, linkVars
  <1>2. /\ StoreTyped' /\ RowsInStore' /\ begun' = begun
        /\ \A q \in Requests :
             /\ row[q].status # "streaming" => row'[q] = row[q]
             /\ row[q].status = "streaming" =>
                  row'[q].status = "cancelled" /\ row'[q].conv = row[q].conv
    BY <1>1, InitializeStore
  <1>3. \A q \in Requests :
          /\ handler'[q] = IF handler[q] = "none" THEN "none" ELSE "ended"
          /\ producer'[q] = IF producer[q] = "none" THEN "none" ELSE "over"
          /\ sock'[q] = IF sock[q] = "open" THEN "lost" ELSE sock[q]
          /\ queue'[q] = <<>>
    BY <1>1
  <1>4. ServerTypeOK'
    <2>1. ServerTypeOK
      BY DEF ChatInvariant, TypeOK
    <2>2. <<>> \in Seq(EventType)
      OBVIOUS
    <2>3. queue' \in [Requests -> Seq(EventType)]
      BY <1>1, <2>2
    <2>4. /\ handler' \in [Requests -> {"none", "received", "claimed", "begun", "serving",
                                        "cancelling", "closing", "raising", "ended", "broken"}]
          /\ producer' \in [Requests -> {"none", "streaming", "flushing", "verifying",
                                         "committing", "failing", "done", "error", "over"}]
      BY <1>1
    <2> QED
      BY <1>1, <2>1, <2>3, <2>4 DEF ServerTypeOK
  <1>5. LinkTypeOK'
    BY <1>1, WindowTyped DEF LinkTypeOK
  <1>6. WindowTypeOK'
    BY <1>1, WindowTyped DEF WindowTypeOK, NoRewrite, None
  <1>7. TypeOK'
    <2>1. lease' \in [Conversations -> Requests \cup {None}] /\ faults' \in 0 .. MaxFaults
      BY <1>1, WindowTyped, ChatAssumption
    <2> QED
      BY <1>1, <1>2, <1>4, <1>5, <1>6, <2>1, Typed, WindowTyped
         DEF TypeOK, StoreTypeOK, StoreTyped
  <1>8. BegunCounted'
    BY <1>2, <1>3, SameBegun
  <1>9. SentInOrder'
    BY <1>1, WindowTyped DEF SentInOrder, Sent
  <1>10. \A q \in Requests : Settled(q) => Settled(q)'
    BY <1>2, <1>3 DEF Settled
  <1>11. ViewsFit'
    BY <1>1, <1>10, WindowTyped DEF ViewsFit, Shows, NoRewrite
  <1>12. ASSUME NEW q \in Requests
         PROVE  LinkFits(q)' /\ HandlerFits(q)' /\ LeaseFits(q)' /\ QueueFits(q)' /\ WireFits(q)'
    <2>1. LinkFits(q) /\ HandlerFits(q) /\ WireFits(q)
      BY ServerTyped
    <2>2. ~Streaming(q)'
      BY <1>2 DEF Streaming
    <2>3. LinkFits(q)'
      BY <1>1, <1>3, <2>1 DEF LinkFits
    <2>4. HandlerFits(q)'
      BY <1>1, <1>2, <1>3, <2>1, <2>2 DEF HandlerFits, Stored
    <2>5. LeaseFits(q)'
      <3>1. q # None
        BY Typed
      <3> QED
        BY <1>1, <1>3, <2>2, <3>1 DEF LeaseFits, Generating
    <2>6. QueueFits(q)' /\ WireFits(q)'
      BY <1>1, <1>3, <1>10, <2>1 DEF QueueFits, WireFits
    <2> QED
      BY <2>3, <2>4, <2>5, <2>6
  <1> QED
    BY <1>2, <1>7, <1>8, <1>9, <1>11, <1>12 DEF ChatInvariant
-----------------------------------------------------------------------------
(* The theorems. *)

LEMMA InitHolds ==
  Init => ChatInvariant
  <1> SUFFICES ASSUME Init PROVE ChatInvariant
    OBVIOUS
  <1>0. /\ 1 \in Requests /\ 1 \in Conversations /\ None \notin Requests
        /\ None \notin Conversations /\ "main" \in Windows /\ "nobody" \notin Windows
    BY StoreAssumption, ChatAssumption DEF Requests, Conversations, None
  <1>1. /\ recent = <<1>> /\ created = 1 /\ begun = 1 /\ deleting = None
        /\ lease = [c \in Conversations |-> None] /\ faults = 0 /\ gestures = 0
        /\ fetches = [w \in Windows |-> {}] /\ rewriting = [w \in Windows |-> NoRewrite]
        /\ signals = [w \in Windows |-> {}] /\ pendingSignal = [w \in Windows |-> {}]
    BY DEF Init
  <1>2. /\ row = Before(Stored1, NoRow) /\ handler = Before("ended", "none")
        /\ want = Before(None, None) /\ conv = Before(1, None)
        /\ latest = Before("full", "part") /\ cancelEvent = Before(TRUE, FALSE)
        /\ terminal = Before(TRUE, FALSE) /\ producer = Before("over", "none")
        /\ queue = Before(<<>>, <<>>) /\ sock = Before("closed", "none")
        /\ wire = Before(<<>>, <<>>) /\ cancelSent = Before(FALSE, FALSE)
        /\ owner = Before("main", "nobody") /\ scopeOf = Before(None, None)
        /\ cancelRequested = Before(FALSE, FALSE) /\ linkTerminal = Before(TRUE, FALSE)
    BY DEF Init
  <1>3. PICK opened \in Starts :
          /\ win = [w \in Windows |-> IF w \in opened THEN OnFirst ELSE Idle]
          /\ view = [w \in Windows |->
                       Before(IF w \in opened THEN "complete" ELSE "absent", "absent")]
    BY DEF Init
  <1>4. /\ Stored1 \in RowType /\ Stored1.status = "complete" /\ Stored1.conv = 1
        /\ 1 \in 0 .. MaxRequests
    BY <1>0 DEF Stored1, RowType, TerminalStatus, Texts, Requests
  <1>5. StoreTypeOK
    <2>1. recent \in Seq(Conversations) /\ Len(recent) <= MaxConversations
      BY <1>0, <1>1, StoreAssumption
    <2>2. created \in 0 .. MaxCreated
      BY <1>0, <1>1 DEF Conversations
    <2>3. row \in [Requests -> RowType]
      BY <1>2, <1>4, NoRowTyped DEF Before
    <2> QED
      BY <1>1, <1>4, <2>1, <2>2, <2>3 DEF StoreTypeOK
  <1>6. ServerTypeOK
    <2>1. queue \in [Requests -> Seq(EventType)]
      BY <1>2 DEF Before
    <2> QED
      BY <1>0, <1>2, <2>1 DEF ServerTypeOK, Before, Texts
  <1>7. LinkTypeOK
    <2>1. wire \in [Requests -> Seq(EventType)]
      BY <1>2 DEF Before
    <2> QED
      BY <1>0, <1>2, <2>1 DEF LinkTypeOK, Before
  <1>8. WindowTypeOK
    <2>1. Idle \in WinType /\ OnFirst \in WinType
      BY <1>0 DEF Idle, OnFirst, WinType
    <2>2. win \in [Windows -> WinType]
      BY <1>3, <2>1
    <2>3. view \in [Windows -> [Requests -> ViewStatus]]
      BY <1>3 DEF Before, ViewStatus, TerminalStatus
    <2> QED
      BY <1>1, <2>2, <2>3 DEF WindowTypeOK, NoRewrite
  <1>9. TypeOK
    BY <1>1, <1>5, <1>6, <1>7, <1>8, ChatAssumption DEF TypeOK
  <1>10. /\ row[1] = Stored1 /\ producer[1] = "over" /\ handler[1] = "ended" /\ terminal[1]
         /\ owner[1] = "main" /\ sock[1] = "closed" /\ queue[1] = <<>> /\ wire[1] = <<>>
    BY <1>0, <1>2 DEF Before
  <1>11. \A q \in Requests \ {1} :
           /\ row[q] = NoRow /\ producer[q] = "none" /\ handler[q] = "none" /\ ~terminal[q]
           /\ owner[q] = "nobody" /\ sock[q] = "none" /\ queue[q] = <<>> /\ wire[q] = <<>>
    BY <1>2 DEF Before
  <1>12. RowsInStore
    BY <1>1, <1>4, <1>10, <1>11, NoRowTyped DEF RowsInStore, Stored, ToSet
  <1>13. BegunCounted
    <2>1. Begun = {1}
      BY <1>0, <1>10, <1>11 DEF Begun
    <2> QED
      BY <1>1, <2>1, FS_Singleton DEF BegunCounted
  <1>14. SentInOrder
    <2>1. Sent = {1} /\ Cardinality({1}) = 1
      BY <1>0, <1>10, <1>11, FS_Singleton DEF Sent
    <2> QED
      BY <2>1 DEF SentInOrder
  <1>15. ViewsFit
    <2>1. Settled(1)
      BY <1>4, <1>10 DEF Settled
    <2>2. \A w \in Windows : Shows(view[w])
      BY <1>3, <2>1 DEF Shows, Before
    <2> QED
      BY <1>1, <2>2 DEF ViewsFit, NoRewrite
  <1>16. ASSUME NEW q \in Requests
         PROVE  LinkFits(q) /\ HandlerFits(q) /\ LeaseFits(q) /\ QueueFits(q) /\ WireFits(q)
    <2>1. CASE q = 1
      BY <1>0, <1>1, <1>4, <1>10, <2>1
         DEF LinkFits, HandlerFits, LeaseFits, QueueFits, WireFits, Stored, Streaming, Generating
    <2>2. CASE q # 1
      BY <1>0, <1>1, <1>11, <2>2, NoRowTyped
         DEF LinkFits, HandlerFits, LeaseFits, QueueFits, WireFits, Stored, Streaming, Generating,
             TerminalStatus
    <2> QED
      BY <2>1, <2>2
  <1> QED
    BY <1>9, <1>12, <1>13, <1>14, <1>15, <1>16 DEF ChatInvariant

LEMMA StutterHolds ==
  ChatInvariant /\ UNCHANGED vars => ChatInvariant'
  <1> SUFFICES ASSUME ChatInvariant, UNCHANGED vars PROVE ChatInvariant'
    OBVIOUS
  <1>1. /\ UNCHANGED <<storeVars, lease, serverVars>> /\ UNCHANGED windowVars
        /\ UNCHANGED <<handler, socketVars, linkVars>>
        /\ deleting' = deleting /\ faults' = faults /\ gestures' = gestures
    BY DEF vars, serverVars, bounds
  <1> QED
    BY <1>1, WindowTyped, WindowOnly, WindowsUnchanged, LinksUnchanged

LEMMA NextHolds ==
  ChatInvariant /\ [Next]_vars => ChatInvariant'
  <1> SUFFICES ASSUME ChatInvariant, [Next]_vars PROVE ChatInvariant'
    OBVIOUS
  <1>1. CASE \E r \in Requests : HandlerStep(r) \/ ProducerStep(r) \/ LinkStep(r)
    BY <1>1, HandlerKept, ProducerKept, ConnectStep, DeliverStep, NoticeLossStep DEF LinkStep
  <1>2. CASE \E w \in Windows : WindowStep(w)
    BY <1>2, ServeFetchStep, ApplyFetchStep, OnSignalStep, OnPendingSignalStep DEF WindowStep
  <1>3. CASE \E w \in Windows : UserStep(w)
    BY <1>3, SendStep, CancelStep, ResetStep, OpenStep, AmendStep, AskRewriteStep,
       CheckRewriteStep, DoRewriteStep DEF UserStep
  <1>4. CASE \E c \in Conversations : AskDelete(c) \/ Delete(c) \/ ExpireLease(c)
    BY <1>4, AskDeleteStep, DeleteStep, ExpireLeaseStep
  <1>5. CASE FaultStep
    BY <1>5, RestartStep, DisconnectStep, BeginFailsStep, CommitFailsStep, CancelFailsStep,
       FinallyFailsStep DEF FaultStep, StoreFails
  <1>6. CASE UNCHANGED vars
    BY <1>6, StutterHolds
  <1> QED
    BY <1>1, <1>2, <1>3, <1>4, <1>5, <1>6 DEF Next

\* ChatInvariant is what the handlers, the sockets and the windows keep together.
THEOREM InvariantHolds == Spec => []ChatInvariant
  BY InitHolds, NextHolds, PTL DEF Spec

\* Every variable keeps its type, through faults and restarts.
THEOREM TypeCorrect == Spec => []TypeOK
  <1>1. ChatInvariant => TypeOK
    BY DEF ChatInvariant
  <1> QED
    BY <1>1, InvariantHolds, PTL

\* What a window shows as complete is stored as complete, or was deleted.
THEOREM ShownRepliesAreStored == Spec => []ShownIsStored
  <1>1. ChatInvariant => ShownIsStored
    BY DEF ChatInvariant, ViewsFit, Shows, Settled, ShownIsStored
  <1> QED
    BY <1>1, InvariantHolds, PTL

\* The lease serialises generations: two replies stream into one conversation only
\* if one of their requests was given another conversation than it had claimed.
THEOREM GenerationsAreSerial == Spec => []OneGeneration
  <1>1. ChatInvariant => OneGeneration
    <2> SUFFICES ASSUME ChatInvariant, NEW q \in Requests, NEW r \in Requests, Generating(q),
                        Generating(r), row[q].conv = row[r].conv, ~Displaced(q), ~Displaced(r)
                 PROVE  q = r
      BY DEF OneGeneration
    <2>1. /\ HandlerFits(q) /\ HandlerFits(r) /\ LeaseFits(q) /\ LeaseFits(r)
      BY ServerTyped
    <2>2. conv[q] = conv[r] /\ lease[conv[q]] = q /\ lease[conv[r]] = r
      BY <2>1 DEF HandlerFits, LeaseFits, Generating
    <2> QED
      BY <2>2
  <1> QED
    BY <1>1, InvariantHolds, PTL

\* A handler that ends leaves a lease only if its conversation was deleted under it.
THEOREM LeasesEndWithSockets == Spec => []LeaseEndsWithSocket
  <1>1. ChatInvariant => LeaseEndsWithSocket
    <2> SUFFICES ASSUME ChatInvariant, NEW c \in Conversations, lease[c] # None,
                        handler[lease[c]] = "ended"
                 PROVE  Displaced(lease[c])
      BY DEF LeaseEndsWithSocket
    <2>1. PICK r \in Requests : lease[c] = r
      BY Typed
    <2>2. LeaseFits(r)
      BY ServerTyped
    <2> QED
      BY <2>1, <2>2 DEF LeaseFits
  <1> QED
    BY <1>1, InvariantHolds, PTL
-----------------------------------------------------------------------------
(* A terminal reply is final: what each step does to the rows. *)

RowsStand ==
  \A q \in Requests : row[q].status \in TerminalStatus => row'[q] \in {row[q], NoRow}

LEMMA CommitStands ==
  ASSUME ChatInvariant, NEW r \in Requests, NEW status \in TerminalStatus,
         CommitTerminal(r, status, latest[r]),
         producer[r] \notin {"none", "over"} \/ handler[r] # "ended"
  PROVE  RowsStand
  <1>1. /\ \A q \in Requests \ {r} : row'[q] = row[q]
        /\ terminal[r] => row'[r] = row[r]
    BY CommitStore
  <1>2. row[r].status \in TerminalStatus => terminal[r]
    BY ServerTyped DEF HandlerFits
  <1> QED
    BY <1>1, <1>2 DEF RowsStand

LEMMA StreamStands ==
  ASSUME ChatInvariant, NEW r \in Requests, NEW text \in Texts, UpdateStream(r, text)
  PROVE  RowsStand
  BY StreamStore DEF RowsStand, TerminalStatus

LEMMA ServerStands ==
  ASSUME ChatInvariant, NEW r \in Requests, HandlerStep(r) \/ ProducerStep(r)
  PROVE  RowsStand
  <1>1. {"complete", "cancelled", "error"} \subseteq TerminalStatus
    BY DEF TerminalStatus
  <1>2. row' = row => RowsStand
    BY DEF RowsStand
  <1>3. CASE \/ Claim(r) \/ RefuseBusy(r) \/ ReceiveDisconnect(r) \/ SendEvent(r)
             \/ Serve(r) \/ ModeRefused(r) \/ Delta(r) \/ EndStream(r) \/ Fail(r) \/ Emit(r)
    BY <1>2, <1>3 DEF Claim, RefuseBusy, Serve, ModeRefused, ReceiveDisconnect, SendEvent, Delta,
                      EndStream, Fail, Emit, storeVars
  <1>4. CASE Begin(r)
    <2>1. /\ handler[r] = "claimed" /\ row[r].status = "absent"
          /\ want[r] \in Conversations \cup {None} /\ BeginExchange(r, want[r])
      BY <1>4, ServerTyped DEF Begin, HandlerFits, Stored
    <2>2. \A q \in Requests \ {r} : row'[q] \in {row[q], NoRow}
      BY <2>1, BegunBelow, BeginStore
    <2> QED
      BY <2>1, <2>2 DEF RowsStand, TerminalStatus
  <1>5. CASE ReceiveCancel(r) \/ Finally(r)
    BY <1>1, <1>5, CommitStands DEF ReceiveCancel, Finally
  <1>6. CASE Commit(r) \/ CommitError(r)
    BY <1>1, <1>6, CommitStands DEF Commit, CommitError
  <1>7. CASE Flush(r)
    BY <1>7, ServerTyped, StreamStands DEF Flush
  <1>8. CASE Verify(r)
    BY <1>8, StreamStands DEF Verify, Texts
  <1> QED
    BY <1>3, <1>4, <1>5, <1>6, <1>7, <1>8 DEF HandlerStep, ProducerStep

LEMMA StepStands ==
  ASSUME ChatInvariant, [Next]_vars
  PROVE  RowsStand
  <1>1. row' = row \/ (\A q \in Requests : row'[q] \in {row[q], NoRow}) => RowsStand
    BY DEF RowsStand
  <1>2. CASE \E r \in Requests : HandlerStep(r) \/ ProducerStep(r)
    BY <1>2, ServerStands
  <1>3. CASE \E r \in Requests : LinkStep(r)
    BY <1>1, <1>3 DEF LinkStep, Connect, Deliver, NoticeLoss, storeVars
  <1>4. CASE \E w \in Windows : WindowStep(w)
    BY <1>1, <1>4 DEF WindowStep, ServeFetch, ApplyFetch, OnSignal, OnPendingSignal, storeVars
  <1>5. CASE \E w \in Windows : UserStep(w)
    <2>1. PICK w \in Windows : UserStep(w)
      BY <1>5
    <2>2. CASE DoRewrite(w)
      <3>1. PICK r \in Requests : r = rewriting[w].from
        BY <2>2 DEF DoRewrite, ChatInvariant, TypeOK, WindowTypeOK, ViewsFit
      <3>2. UNCHANGED storeVars \/ Rewind(row[r].conv, r)
        BY <2>2, <3>1 DEF DoRewrite
      <3> QED
        BY <1>1, <3>2, RewindStore DEF storeVars
    <2>3. CASE \/ Send(w) \/ Cancel(w) \/ Reset(w) \/ CheckRewrite(w)
               \/ \E r \in Requests : AskRewrite(w, r)
               \/ \E c \in Conversations : Open(w, c) \/ Amend(w, c)
      BY <1>1, <2>3 DEF Send, Cancel, Reset, CheckRewrite, AskRewrite, Open, Amend,
                        RenameConversation, UpdateContext, storeVars
    <2> QED
      BY <2>1, <2>2, <2>3 DEF UserStep
  <1>6. CASE \E c \in Conversations : AskDelete(c) \/ Delete(c) \/ ExpireLease(c)
    <2>1. PICK c \in Conversations : AskDelete(c) \/ Delete(c) \/ ExpireLease(c)
      BY <1>6
    <2>2. CASE Delete(c)
      BY <1>1, <2>2, DeleteStore DEF Delete
    <2>3. CASE AskDelete(c) \/ ExpireLease(c)
      BY <1>1, <2>3 DEF AskDelete, ExpireLease, storeVars
    <2> QED
      BY <2>1, <2>2, <2>3
  <1>7. CASE FaultStep
    <2>1. CASE Restart
      BY <2>1, InitializeStore DEF Restart, RowsStand, TerminalStatus
    <2>2. CASE \E r \in Requests : Disconnect(r) \/ StoreFails(r)
      BY <1>1, <2>2 DEF Disconnect, StoreFails, BeginFails, CommitFails, CancelFails,
                        FinallyFails, storeVars
    <2> QED
      BY <1>7, <2>1, <2>2 DEF FaultStep
  <1>8. CASE UNCHANGED vars
    BY <1>1, <1>8 DEF vars, storeVars
  <1> QED
    BY <1>2, <1>3, <1>4, <1>5, <1>6, <1>7, <1>8 DEF Next

\* A stored reply with a terminal status is never written again, whatever producer,
\* cancel, disconnect and restart do in what order.
THEOREM TerminalRepliesAreFinal == Spec => TerminalIsFinal
  <1>1. ChatInvariant /\ [Next]_vars =>
          [\A r \in Requests : row[r].status \in TerminalStatus => row'[r] \in {row[r], NoRow}]_vars
    BY StepStands DEF RowsStand
  <1> QED
    BY <1>1, InvariantHolds, PTL DEF Spec, TerminalIsFinal
=============================================================================
