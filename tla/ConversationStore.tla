--------------------------- MODULE ConversationStore ---------------------------
(***************************************************************************)
(* The durable conversation store (ConversationLifecycleService over       *)
(* ConversationStoreService) and the process-local registry of leases      *)
(* (CompanionConversationOwnershipService).  Each operation is one SQLite  *)
(* transaction or one critical section; CompanionChat puts them together.  *)
(*                                                                         *)
(* A request stands for its exchange: the user's message and the           *)
(* assistant's message are inserted and deleted together, so one row per   *)
(* request, the assistant's, is enough.  Titles, contexts and texts are    *)
(* left out; a text is "part" (none of it, or some), "full", or what the   *)
(* verifier puts in its place.                                             *)
(***************************************************************************)
EXTENDS Naturals, FiniteSets, Sequences, SequencesExt

CONSTANTS
  MaxConversations,  \* max_conversations of the store
  MaxCreated,        \* bound on conversations ever created
  MaxRequests        \* bound on requests ever sent, by all windows

ASSUME StoreAssumption ==
  /\ MaxConversations \in Nat \ {0}
  /\ MaxCreated \in Nat /\ MaxRequests \in Nat

Conversations == 1 .. MaxCreated
Requests == 1 .. MaxRequests
None == 0

VARIABLES
  recent,    \* conversations, the least recently updated first
  created,   \* conversations ever created
  row,       \* the assistant message of each request
  begun,     \* exchanges ever begun
  lease      \* _leases: the request that owns each conversation

storeVars == <<recent, created, row, begun>>

Texts == {"part", "full", "fallback"}
TerminalStatus == {"complete", "cancelled", "error"}
NoRow == [conv |-> None, status |-> "absent", content |-> "part", pos |-> 0]
RowType == [conv : Conversations \cup {None},
            status : TerminalStatus \cup {"streaming", "absent"},
            content : Texts,
            pos : 0 .. MaxRequests]

StoreTypeOK ==
  /\ recent \in Seq(Conversations) /\ Len(recent) <= MaxConversations
  /\ created \in 0 .. MaxCreated
  /\ row \in [Requests -> RowType]
  /\ begun \in 0 .. MaxRequests
  /\ lease \in [Conversations -> Requests \cup {None}]

Exists(c) == c \in ToSet(recent)
Stored(r) == row[r].status # "absent"
\* Mutant: the conversation is inserted once more.
TouchedTwice(s, c) == Append(s, c)
\* A conversation is listed once.
Without(s, c) ==
  IF c \in ToSet(s) THEN RemoveAt(s, CHOOSE i \in DOMAIN s : s[i] = c) ELSE s
\* updated_at becomes now.
Touched(s, c) == Append(Without(s, c), c)
\* Deleting a conversation deletes its messages (ON DELETE CASCADE).
RowsOf(f, kept) == [r \in Requests |-> IF f[r].conv \in kept THEN f[r] ELSE NoRow]
StreamingIn(c) == {r \in Requests : row[r].conv = c /\ row[r].status = "streaming"}

-----------------------------------------------------------------------------
(* Exchanges. *)

\* _trim_locked: the least recently updated conversations beyond the limit go.
Trimmed(s) == SubSeq(s, Len(s) - MaxConversations + 1, Len(s))
Kept(s) == IF Len(s) > MaxConversations THEN Trimmed(s) ELSE s

\* begin_exchange: an id that is not in the table gets a conversation of its own.
TargetOf(c) == IF Exists(c) THEN c ELSE created + 1

\* Its transaction, and nothing behind it: begin_exchange_with_context_mode writes the
\* title and the mode in transactions of their own, when the exchange is committed.
BeginExchange(r, c) ==
  LET kept == Kept(Touched(recent, TargetOf(c)))
      started == [row EXCEPT ![r] = [conv |-> TargetOf(c), status |-> "streaming",
                                     content |-> "part", pos |-> begun + 1]]
  IN /\ Exists(c) \/ created < MaxCreated
     /\ created' = IF Exists(c) THEN created ELSE created + 1
     /\ recent' = kept
     /\ begun' = begun + 1
     /\ row' = RowsOf(started, ToSet(kept))

\* Mutant: the status is not looked at.
UpdateStreamAnyway(r, text) ==
  /\ row' = IF Stored(r) THEN [row EXCEPT ![r].content = text] ELSE row
  /\ recent' = IF Stored(r) THEN Touched(recent, row[r].conv) ELSE recent
  /\ UNCHANGED <<created, begun>>
UpdateStream(r, text) ==
  LET live == row[r].status = "streaming"
  IN /\ row' = IF live THEN [row EXCEPT ![r].content = text] ELSE row
     /\ recent' = IF live THEN Touched(recent, row[r].conv) ELSE recent
     /\ UNCHANGED <<created, begun>>

FinalizeMessage(r, status, text) ==
  /\ row' = IF Stored(r) THEN [row EXCEPT ![r].status = status, ![r].content = text]
                         ELSE row
  /\ recent' = IF Stored(r) THEN Touched(recent, row[r].conv) ELSE recent
  /\ UNCHANGED <<created, begun>>

-----------------------------------------------------------------------------
(* Requests of the history panel. *)

RenameConversation(c) ==
  Exists(c) /\ recent' = Touched(recent, c) /\ UNCHANGED <<created, row, begun>>
\* update_context: the mode and texts are left out, the conversation is touched.
UpdateContext(c) ==
  Exists(c) /\ recent' = Touched(recent, c) /\ UNCHANGED <<created, row, begun>>

DeleteConversation(c) ==
  /\ recent' = Without(recent, c)
  /\ row' = RowsOf(row, ToSet(recent) \ {c})
  /\ UNCHANGED <<created, begun>>

RewoundRows(c, r) ==
  [q \in Requests |-> IF row[q].conv = c /\ row[q].pos >= row[r].pos THEN NoRow ELSE row[q]]
MayRewind(c, r) == Exists(c) /\ row[r].conv = c /\ StreamingIn(c) = {}
\* rewind_from_user_message, when it neither raises nor finds nothing.
Rewind(c, r) ==
  /\ MayRewind(c, r)
  /\ row' = RewoundRows(c, r)
  /\ UNCHANGED <<recent, created, begun>>

\* Mutant: the next process leaves the messages as they are.
InitializeNothing == UNCHANGED storeVars
\* _initialize of the next process: what was streaming was interrupted.
Initialize ==
  /\ row' = [r \in Requests |-> IF row[r].status = "streaming"
                                  THEN [row[r] EXCEPT !.status = "cancelled"] ELSE row[r]]
  /\ UNCHANGED <<recent, created, begun>>

-----------------------------------------------------------------------------
(* Leases.  Request ids are never used twice by one client, so the answers for *)
(* duplicates do not arise. *)

Available(c) == lease[c] = None
\* Mutant: whoever comes takes the lease over.
TakeLease(c, r) == lease' = [lease EXCEPT ![c] = r]
AcquireLease(c, r) == Available(c) /\ lease' = [lease EXCEPT ![c] = r]
\* Mutant: a lease is released only by the request that finds it unowned.
ReleasedUnowned(c, r) ==
  IF c \in Conversations /\ lease[c] = None THEN [lease EXCEPT ![c] = None] ELSE lease
\* release compares owner and request id.
ReleasedBy(c, r) ==
  IF c \in Conversations /\ lease[c] = r THEN [lease EXCEPT ![c] = None] ELSE lease
=============================================================================
