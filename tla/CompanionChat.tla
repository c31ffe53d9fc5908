----------------------------- MODULE CompanionChat -----------------------------
(***************************************************************************)
(* The companion chat from end to end: two desktop windows, the websocket  *)
(* of each request, the backend's handler with its producer thread, the    *)
(* history requests, and the store and leases of ConversationStore.        *)
(*                                                                         *)
(* A request r is one websocket: a window sends it, the handler claims the *)
(* requested conversation, begins the exchange, streams, and commits       *)
(* exactly one terminal status.  Deltas on the wire are left out: they     *)
(* only redraw the draft, and what they persist is Flush.                  *)
(***************************************************************************)
EXTENDS ConversationStore

CONSTANTS
  Windows,     \* surfaces that run useCompanionConversationRuntime
  Starts,      \* the sets of windows that may have the first conversation open
  MaxFaults,   \* bound on restarts, lost connections and store failures
  MaxGestures, \* bound on what users do besides sending
  MaxFetches   \* bound on background reads one window has under way

ASSUME ChatAssumption ==
  /\ MaxCreated > 0 /\ MaxRequests > 0
  /\ "main" \in Windows /\ Windows \subseteq {"main", "overlay"}
  /\ Starts \subseteq SUBSET Windows
  /\ MaxFaults \in Nat /\ MaxGestures \in Nat
  /\ MaxFetches \in Nat

VARIABLES
  \* stream_companion_chat, one per request
  handler, want, conv, cancelEvent, terminal, producer, latest, queue,
  \* the socket: its state, the cancel on its way in, the events on their way out
  sock, cancelSent, wire,
  \* streamCompanionChat: the closure's flags, the window and scope that sent it
  owner, scopeOf, cancelRequested, linkTerminal,
  \* useCompanionConversationRuntime, one per window
  win, view, fetches, rewriting, signals, pendingSignal,
  deleting,    \* the delete request that found its conversation idle
  faults, gestures

serverVars == <<handler, conv, cancelEvent, terminal, producer, latest, queue>>
socketVars == <<sock, cancelSent, wire>>
linkVars == <<want, owner, scopeOf, cancelRequested, linkTerminal>>
windowVars == <<win, view, fetches, rewriting, signals, pendingSignal>>
bounds == <<faults, gestures>>
vars == <<storeVars, lease, serverVars, socketVars, linkVars, windowVars, deleting, bounds>>

Peer(w) == Windows \ {w}
Idle == [conv |-> None, active |-> None, target |-> None, detached |-> FALSE,
         scope |-> None, opening |-> FALSE]
\* "local" is a streaming message under the window's own id, "streaming" a stored one.
ViewStatus == TerminalStatus \cup {"absent", "local", "streaming"}
Blank == [r \in Requests |-> "absent"]
Event(kind, c) == [type |-> kind, conv |-> c]
EventType == [type : {"accepted", "busy", "done", "cancelled", "error"},
              conv : Conversations \cup {None}]
\* A read: asked, then answered with what was stored, or missing.
FetchType == [kind : {"open", "refresh", "recover"}, conv : Conversations,
              scope : Conversations \cup {None},
              stage : {"asked", "answered", "missing"}, shown : [Requests -> ViewStatus]]
Signal == [conv : Conversations, kind : {"updated", "deleted"}]
NoRewrite == [from |-> None, checked |-> FALSE]

WinType == [conv : Conversations \cup {None}, active : Requests \cup {None},
            target : Conversations \cup {None}, detached : BOOLEAN,
            scope : Conversations \cup {None}, opening : BOOLEAN]

ServerTypeOK ==
  /\ handler \in [Requests -> {"none", "received", "claimed", "begun", "serving", "cancelling",
                               "closing", "raising", "ended", "broken"}]
  /\ conv \in [Requests -> Conversations \cup {None}]
  /\ cancelEvent \in [Requests -> BOOLEAN] /\ terminal \in [Requests -> BOOLEAN]
  /\ producer \in [Requests -> {"none", "streaming", "flushing", "verifying", "committing",
                                "failing", "done", "error", "over"}]
  /\ latest \in [Requests -> Texts]
  /\ queue \in [Requests -> Seq(EventType)]
LinkTypeOK ==
  /\ sock \in [Requests -> {"none", "connecting", "open", "closed", "lost"}]
  /\ cancelSent \in [Requests -> BOOLEAN] /\ wire \in [Requests -> Seq(EventType)]
  /\ want \in [Requests -> Conversations \cup {None}]
  /\ owner \in [Requests -> Windows \cup {"nobody"}]
  /\ scopeOf \in [Requests -> Conversations \cup {None}]
  /\ cancelRequested \in [Requests -> BOOLEAN] /\ linkTerminal \in [Requests -> BOOLEAN]
WindowTypeOK ==
  /\ win \in [Windows -> WinType] /\ view \in [Windows -> [Requests -> ViewStatus]]
  /\ fetches \in [Windows -> SUBSET FetchType]
  /\ rewriting \in [Windows -> [from : Requests \cup {None}, checked : BOOLEAN]]
  /\ signals \in [Windows -> SUBSET Signal] /\ pendingSignal \in [Windows -> SUBSET Signal]
TypeOK ==
  /\ StoreTypeOK /\ ServerTypeOK /\ LinkTypeOK /\ WindowTypeOK
  /\ deleting \in Conversations \cup {None}
  /\ faults \in 0 .. MaxFaults /\ gestures \in 0 .. MaxGestures

\* Every function of requests is as for a request that was never sent, except for
\* request 1: one earlier exchange is stored, and some windows have it open.
Before(first, later) == [r \in Requests |-> IF r = 1 THEN first ELSE later]
OnFirst == [Idle EXCEPT !.conv = 1, !.scope = 1]
Stored1 == [conv |-> 1, status |-> "complete", content |-> "full", pos |-> 1]

Init ==
  /\ recent = <<1>> /\ created = 1 /\ begun = 1
  /\ row = Before(Stored1, NoRow)
  /\ lease = [c \in Conversations |-> None]
  /\ handler = Before("ended", "none") /\ want = Before(None, None)
  /\ conv = Before(1, None) /\ latest = Before("full", "part")
  /\ cancelEvent = Before(TRUE, FALSE) /\ terminal = Before(TRUE, FALSE)
  /\ producer = Before("over", "none") /\ queue = Before(<<>>, <<>>)
  /\ sock = Before("closed", "none") /\ wire = Before(<<>>, <<>>)
  /\ cancelSent = Before(FALSE, FALSE)
  /\ owner = Before("main", "nobody") /\ scopeOf = Before(None, None)
  /\ cancelRequested = Before(FALSE, FALSE) /\ linkTerminal = Before(TRUE, FALSE)
  /\ \E opened \in Starts :
       /\ win = [w \in Windows |-> IF w \in opened THEN OnFirst ELSE Idle]
       /\ view = [w \in Windows |->
                    Before(IF w \in opened THEN "complete" ELSE "absent", "absent")]
  /\ fetches = [w \in Windows |-> {}] /\ rewriting = [w \in Windows |-> NoRewrite]
  /\ signals = [w \in Windows |-> {}] /\ pendingSignal = [w \in Windows |-> {}]
  /\ deleting = None /\ faults = 0 /\ gestures = 0

-----------------------------------------------------------------------------
(* The handler: receive, acquire and begin run without an await, so no other *)
(* handler comes between them; the history requests run in threads and may.  *)

LoopFree == \A q \in Requests : handler[q] \notin {"claimed", "begun"}
Reply(r, e) == wire' = [wire EXCEPT ![r] = IF sock[r] = "open" THEN Append(@, e) ELSE @]

\* acquire for the requested conversation, if the request names one.
Claim(r) ==
  /\ handler[r] = "received" /\ LoopFree
  /\ \/ want[r] = None /\ UNCHANGED lease
     \/ want[r] # None /\ AcquireLease(want[r], r)
  /\ handler' = [handler EXCEPT ![r] = "claimed"]
  /\ conv' = [conv EXCEPT ![r] = want[r]]
  /\ UNCHANGED <<storeVars, cancelEvent, terminal, producer, latest, queue, socketVars,
                 linkVars, windowVars, deleting, bounds>>

RefuseBusy(r) ==
  /\ handler[r] = "received" /\ LoopFree
  /\ want[r] # None /\ ~Available(want[r])
  /\ handler' = [handler EXCEPT ![r] = "ended"]
  /\ Reply(r, Event("busy", want[r]))
  /\ UNCHANGED <<storeVars, lease, conv, cancelEvent, terminal, producer, latest, queue,
                 sock, cancelSent, linkVars, windowVars, deleting, bounds>>

\* begin_exchange has committed: the reply streams, its context mode is still to be written.
Begin(r) ==
  /\ handler[r] = "claimed"
  /\ BeginExchange(r, want[r])
  /\ handler' = [handler EXCEPT ![r] = "begun"]
  /\ UNCHANGED <<lease, conv, cancelEvent, terminal, producer, latest, queue, socketVars,
                 linkVars, windowVars, deleting, bounds>>

\* _set_context_mode, and only now a lease on a conversation that was not requested.
Serve(r) ==
  /\ handler[r] = "begun" /\ Exists(row[r].conv)
  /\ IF want[r] = None THEN AcquireLease(row[r].conv, r) ELSE UNCHANGED lease
  /\ handler' = [handler EXCEPT ![r] = "serving"]
  /\ conv' = [conv EXCEPT ![r] = row[r].conv]
  /\ producer' = [producer EXCEPT ![r] = "streaming"]
  /\ Reply(r, Event("accepted", row[r].conv))
  /\ UNCHANGED <<storeVars, cancelEvent, terminal, latest, queue, sock, cancelSent, linkVars,
                 windowVars, deleting, bounds>>

\* The conversation was deleted meanwhile: its foreign key refuses the mode.
ModeRefused(r) ==
  /\ handler[r] = "begun" /\ ~Exists(row[r].conv)
  /\ handler' = [handler EXCEPT ![r] = "raising"]
  /\ UNCHANGED <<storeVars, lease, conv, cancelEvent, terminal, producer, latest, queue,
                 socketVars, linkVars, windowVars, deleting, bounds>>

\* Mutant: the flag is not looked at.
CommitTerminalAgain(r, status, text) ==
  /\ terminal' = [terminal EXCEPT ![r] = @ \/ producer[r] # "none"]
  /\ IF producer[r] = "none" THEN UNCHANGED storeVars ELSE FinalizeMessage(r, status, text)
\* commit_terminal: the first status wins, under terminal_lock.
CommitTerminal(r, status, text) ==
  /\ terminal' = [terminal EXCEPT ![r] = @ \/ producer[r] # "none"]
  /\ IF terminal[r] \/ producer[r] = "none" THEN UNCHANGED storeVars
                                            ELSE FinalizeMessage(r, status, text)

-----------------------------------------------------------------------------
(* produce, in its thread.  The cancel event is looked at between deltas only. *)

ProducerTo(r, step) == producer' = [producer EXCEPT ![r] = step]

Delta(r) ==
  /\ producer[r] = "streaming"
  /\ ProducerTo(r, IF cancelEvent[r] THEN "over" ELSE "flushing")
  /\ UNCHANGED <<storeVars, lease, handler, conv, cancelEvent, terminal, latest, queue, socketVars,
                 linkVars, windowVars, deleting, bounds>>

Flush(r) ==
  /\ producer[r] = "flushing"
  /\ UpdateStream(r, latest[r])
  /\ ProducerTo(r, "streaming")
  /\ UNCHANGED <<lease, handler, conv, cancelEvent, terminal, latest, queue, socketVars,
                 linkVars, windowVars, deleting, bounds>>

\* The provider's stream ends; with knowledge the text is verified and written first.
EndStream(r) ==
  /\ producer[r] = "streaming"
  /\ IF cancelEvent[r] THEN ProducerTo(r, "over") /\ UNCHANGED latest
     ELSE /\ latest' = [latest EXCEPT ![r] = "full"]
          /\ \E step \in {"committing", "verifying"} : ProducerTo(r, step)
  /\ UNCHANGED <<storeVars, lease, handler, conv, cancelEvent, terminal, queue, socketVars,
                 linkVars, windowVars, deleting, bounds>>

Verify(r) ==
  /\ producer[r] = "verifying"
  /\ \E text \in {"full", "fallback"} :
       /\ latest' = [latest EXCEPT ![r] = text]
       /\ UpdateStream(r, text)
  /\ ProducerTo(r, "committing")
  /\ UNCHANGED <<lease, handler, conv, cancelEvent, terminal, queue, socketVars, linkVars,
                 windowVars, deleting, bounds>>

Commit(r) ==
  /\ producer[r] = "committing"
  /\ CommitTerminal(r, "complete", latest[r])
  /\ ProducerTo(r, "done")
  /\ UNCHANGED <<lease, handler, conv, cancelEvent, latest, queue, socketVars, linkVars,
                 windowVars, deleting, bounds>>

\* The provider, update_stream or the verifier raises.
Fail(r) ==
  /\ producer[r] \in {"streaming", "flushing", "verifying"}
  /\ ProducerTo(r, IF cancelEvent[r] THEN "over" ELSE "failing")
  /\ UNCHANGED <<storeVars, lease, handler, conv, cancelEvent, terminal, latest, queue,
                 socketVars, linkVars, windowVars, deleting, bounds>>

CommitError(r) ==
  /\ producer[r] = "failing"
  /\ CommitTerminal(r, "error", latest[r])
  /\ ProducerTo(r, "error")
  /\ UNCHANGED <<lease, handler, conv, cancelEvent, latest, queue, socketVars, linkVars,
                 windowVars, deleting, bounds>>

\* emit: done or error is queued whether or not the commit was the first.
Emit(r) ==
  /\ producer[r] \in {"done", "error"}
  /\ queue' = [queue EXCEPT ![r] = Append(@, Event(producer[r], conv[r]))]
  /\ ProducerTo(r, "over")
  /\ UNCHANGED <<storeVars, lease, handler, conv, cancelEvent, terminal, latest, socketVars,
                 linkVars, windowVars, deleting, bounds>>

-----------------------------------------------------------------------------
(* The other tasks of the handler. *)

\* Mutant: the answer is queued before the queue is emptied.
ReceiveCancelSilently(r) ==
  /\ handler[r] = "serving" /\ cancelSent[r]
  /\ cancelSent' = [cancelSent EXCEPT ![r] = FALSE]
  /\ cancelEvent' = [cancelEvent EXCEPT ![r] = TRUE]
  /\ CommitTerminal(r, "cancelled", latest[r])
  /\ queue' = [queue EXCEPT ![r] = <<>>]
  /\ handler' = [handler EXCEPT ![r] = "cancelling"]
  /\ UNCHANGED <<lease, conv, producer, latest, sock, wire, linkVars, windowVars, deleting,
                 bounds>>
\* receive_control: commit, drop what is queued, queue the answer.
ReceiveCancel(r) ==
  /\ handler[r] = "serving" /\ cancelSent[r]
  /\ cancelSent' = [cancelSent EXCEPT ![r] = FALSE]
  /\ cancelEvent' = [cancelEvent EXCEPT ![r] = TRUE]
  /\ CommitTerminal(r, "cancelled", latest[r])
  /\ queue' = [queue EXCEPT ![r] = <<Event("cancelled", conv[r])>>]
  /\ handler' = [handler EXCEPT ![r] = "cancelling"]
  /\ UNCHANGED <<lease, conv, producer, latest, sock, wire, linkVars, windowVars, deleting,
                 bounds>>

ReceiveDisconnect(r) ==
  /\ handler[r] = "serving" /\ ~cancelSent[r] /\ sock[r] \in {"closed", "lost"}
  /\ cancelEvent' = [cancelEvent EXCEPT ![r] = TRUE]
  /\ handler' = [handler EXCEPT ![r] = "closing"]
  /\ UNCHANGED <<storeVars, lease, conv, terminal, producer, latest, queue, socketVars,
                 linkVars, windowVars, deleting, bounds>>

\* send_events: every queued event is terminal, so the first one ends the task.
SendEvent(r) ==
  /\ handler[r] \in {"serving", "cancelling"} /\ queue[r] # <<>>
  /\ Reply(r, Head(queue[r]))
  /\ queue' = [queue EXCEPT ![r] = Tail(@)]
  /\ handler' = [handler EXCEPT ![r] = "closing"]
  /\ UNCHANGED <<storeVars, lease, conv, cancelEvent, terminal, producer, latest, sock,
                 cancelSent, linkVars, windowVars, deleting, bounds>>

\* A handler that raises leaves its websocket to the server, which drops it.
Dropped(r) == [sock EXCEPT ![r] = IF @ = "open" THEN "lost" ELSE @]

Finally(r) ==
  /\ handler[r] \in {"closing", "raising"}
  /\ cancelEvent' = [cancelEvent EXCEPT ![r] = TRUE]
  /\ CommitTerminal(r, "cancelled", latest[r])
  /\ lease' = ReleasedBy(conv[r], r)
  /\ handler' = [handler EXCEPT ![r] = "ended"]
  /\ sock' = IF handler[r] = "raising" THEN Dropped(r) ELSE sock
  /\ UNCHANGED <<conv, producer, latest, queue, cancelSent, wire, linkVars, windowVars, deleting,
                 bounds>>

\* _cleanup_locked after fifteen minutes; a live stream touches its lease.
ExpireLease(c) ==
  /\ lease[c] # None /\ handler[lease[c]] \in {"ended", "broken"}
  /\ lease' = [lease EXCEPT ![c] = None]
  /\ UNCHANGED <<storeVars, serverVars, socketVars, linkVars, windowVars, deleting, bounds>>

-----------------------------------------------------------------------------
(* The window: what useCompanionConversationRuntime does with one event. *)

\* Shown now, by id: the rows of a stored conversation.
StoredView(c) == [r \in Requests |-> IF row[r].conv = c THEN row[r].status ELSE "absent"]
Ask(kind, c, scope) == [kind |-> kind, conv |-> c, scope |-> scope,
                        stage |-> "asked", shown |-> Blank]
SignalPeers(w, c, kind) ==
  [p \in Windows |-> IF p # w /\ c # None THEN signals[p] \cup {[conv |-> c, kind |-> kind]}
                                          ELSE signals[p]]
\* applyConversation.
Applied(W, c) == [W EXCEPT !.conv = c, !.scope = c]
\* finishRequest.
FinishedWith(W) == [W EXCEPT !.active = None]
\* Messages are found by the window's own id or by the stored one; an error only by the first.
Settle(V, r, status) ==
  [V EXCEPT ![r] = CASE @ = "absent" -> "absent"
                     [] status = "error" /\ @ # "local" -> @
                     [] OTHER -> status]

\* handleStreamEvent accepted.
Accepted(W, c) ==
  [W EXCEPT !.target = c, !.conv = IF W.detached /\ W.conv # c THEN W.conv ELSE c]

HandleEvent(w, r, e) ==
  IF win[w].active # r THEN UNCHANGED windowVars
  ELSE /\ win' = [win EXCEPT ![w] = IF e.type = "accepted" THEN Accepted(@, e.conv)
                                                           ELSE FinishedWith(@)]
       /\ view' = [view EXCEPT ![w] =
             CASE e.type = "accepted" -> @
               [] e.type = "busy" -> [@ EXCEPT ![r] = "absent"]
               [] e.type = "done" -> Settle(@, r, "complete")
               [] OTHER -> Settle(@, r, e.type)]
       /\ signals' = IF e.type \in {"accepted", "busy"} THEN signals
                                                        ELSE SignalPeers(w, e.conv, "updated")
       /\ UNCHANGED <<fetches, rewriting, pendingSignal>>

\* onTransportError: a scope that changed under an attached request makes it a no-op.
TransportError(w, r) ==
  LET W == win[w]
      persisted == IF W.target # None THEN W.target ELSE W.conv
  IN IF W.active # r \/ (W.scope # scopeOf[r] /\ ~W.detached) THEN UNCHANGED windowVars
     ELSE /\ win' = [win EXCEPT ![w] = FinishedWith(@)]
          /\ view' = [view EXCEPT ![w] = Settle(@, r, "error")]
          /\ fetches' = IF persisted = None THEN fetches
                        ELSE [fetches EXCEPT ![w] = @ \cup {Ask("recover", persisted, scopeOf[r])}]
          /\ UNCHANGED <<rewriting, signals, pendingSignal>>

-----------------------------------------------------------------------------
(* streamCompanionChat: the socket at the window's end. *)

Connect(r) ==
  /\ sock[r] = "connecting"
  /\ IF cancelRequested[r]
       THEN /\ sock' = [sock EXCEPT ![r] = "closed"]
            /\ linkTerminal' = [linkTerminal EXCEPT ![r] = TRUE]
            /\ HandleEvent(owner[r], r, Event("cancelled", None))
            /\ UNCHANGED handler
       ELSE /\ sock' = [sock EXCEPT ![r] = "open"]
            /\ handler' = [handler EXCEPT ![r] = "received"]
            /\ UNCHANGED <<linkTerminal, windowVars>>
  /\ UNCHANGED <<storeVars, lease, conv, cancelEvent, terminal, producer, latest, queue,
                 cancelSent, wire, want, owner, scopeOf, cancelRequested, deleting, bounds>>

Deliver(r) ==
  /\ wire[r] # <<>> /\ sock[r] \in {"open", "lost"} /\ ~linkTerminal[r]
  /\ wire' = [wire EXCEPT ![r] = Tail(@)]
  /\ HandleEvent(owner[r], r, Head(wire[r]))
  /\ IF Head(wire[r]).type = "accepted" THEN UNCHANGED <<sock, linkTerminal>>
     ELSE /\ linkTerminal' = [linkTerminal EXCEPT ![r] = TRUE]
          /\ sock' = [sock EXCEPT ![r] = "closed"]
  /\ UNCHANGED <<storeVars, lease, serverVars, cancelSent, want, owner, scopeOf,
                 cancelRequested, deleting, bounds>>

\* error and close: ignored once a cancel was asked for.
NoticeLoss(r) ==
  /\ sock[r] = "lost" /\ wire[r] = <<>> /\ ~linkTerminal[r] /\ ~cancelRequested[r]
  /\ linkTerminal' = [linkTerminal EXCEPT ![r] = TRUE]
  /\ TransportError(owner[r], r)
  /\ UNCHANGED <<storeVars, lease, serverVars, socketVars, want, owner, scopeOf,
                 cancelRequested, deleting, bounds>>

-----------------------------------------------------------------------------
(* What the user does. *)

\* The gestures counted by MaxGestures.
Gesture == gestures < MaxGestures /\ gestures' = gestures + 1

Sent == {r \in Requests : owner[r] # "nobody"}
NextRequest == Cardinality(Sent) + 1
Recovering(w) == \E f \in fetches[w] : f.kind = "recover"

\* sendMessage over the messages it is given.
StartRequest(w, W, V) ==
  LET r == NextRequest
  IN /\ r \in Requests
     /\ win' = [win EXCEPT ![w] = [W EXCEPT !.active = r, !.target = W.conv,
                                            !.detached = FALSE]]
     /\ view' = [view EXCEPT ![w] = [V EXCEPT ![r] = "local"]]
     /\ want' = [want EXCEPT ![r] = W.conv]
     /\ owner' = [owner EXCEPT ![r] = w]
     /\ scopeOf' = [scopeOf EXCEPT ![r] = W.scope]
     /\ sock' = [sock EXCEPT ![r] = "connecting"]

\* The composer is disabled while a conversation opens, the workspace's while a
\* branch is rewritten, the overlay's while it recovers.
MaySend(w) ==
  /\ win[w].active = None /\ ~win[w].opening
  /\ w = "main" => rewriting[w] = NoRewrite
  /\ w = "overlay" => ~Recovering(w)

Send(w) ==
  /\ MaySend(w)
  /\ StartRequest(w, win[w], view[w])
  /\ UNCHANGED <<storeVars, lease, serverVars, cancelSent, wire, cancelRequested,
                 linkTerminal, fetches, rewriting, signals, pendingSignal, deleting, bounds>>

\* cancelStream; a cancel of a connecting socket waits for its open event.
Cancel(w) ==
  LET r == win[w].active
  IN /\ Gesture /\ r # None /\ ~linkTerminal[r] /\ ~cancelRequested[r]
     /\ cancelRequested' = [cancelRequested EXCEPT ![r] = TRUE]
     /\ cancelSent' = [cancelSent EXCEPT ![r] = sock[r] = "open"]
     /\ UNCHANGED <<storeVars, lease, serverVars, sock, wire, want, owner, scopeOf,
                    linkTerminal, windowVars, deleting, faults>>

\* closeActiveStream: cancel, then close; a connecting socket never starts.
CloseLink(r) ==
  IF r = None \/ linkTerminal[r] THEN UNCHANGED <<sock, cancelSent, cancelRequested, linkTerminal>>
  ELSE /\ cancelSent' = [cancelSent EXCEPT ![r] = @ \/ (~cancelRequested[r] /\ sock[r] = "open")]
       /\ cancelRequested' = [cancelRequested EXCEPT ![r] = TRUE]
       /\ linkTerminal' = [linkTerminal EXCEPT ![r] = TRUE]
       /\ sock' = [sock EXCEPT ![r] = IF @ \in {"connecting", "open"} THEN "closed" ELSE @]
Released(W) == [W EXCEPT !.active = None, !.target = None, !.detached = FALSE]

\* reset: a new conversation and scope; a recovery for the old scope will be dropped.
Reset(w) ==
  /\ Gesture
  /\ win[w].conv # None \/ win[w].active # None
  /\ CloseLink(win[w].active)
  /\ win' = [win EXCEPT ![w] = [Idle EXCEPT !.opening = win[w].opening]]
  /\ view' = [view EXCEPT ![w] = Blank]
  /\ fetches' = [fetches EXCEPT ![w] = {f \in @ : f.kind # "recover" \/ f.scope # None}]
  /\ pendingSignal' = [pendingSignal EXCEPT ![w] = {}]
  /\ UNCHANGED <<storeVars, lease, serverVars, wire, want, owner, scopeOf, rewriting, signals,
                 deleting, faults>>

\* openConversation: the request under way goes on in the background, detached.
Open(w, c) ==
  /\ Gesture
  /\ ~win[w].opening /\ c <= created
  /\ win[w].conv # c \/ view[w] = Blank
  /\ IF win[w].active # None /\ win[w].conv # c
       THEN /\ win' = [win EXCEPT ![w].detached = TRUE, ![w].opening = TRUE]
            /\ UNCHANGED <<sock, cancelSent, cancelRequested, linkTerminal>>
       ELSE /\ CloseLink(win[w].active)
            /\ win' = [win EXCEPT ![w] = [Released(@) EXCEPT !.opening = TRUE]]
  /\ fetches' = [fetches EXCEPT ![w] = @ \cup {Ask("open", c, None)}]
  /\ UNCHANGED <<storeVars, lease, serverVars, wire, want, owner, scopeOf, view, rewriting,
                 signals, pendingSignal, deleting, faults>>

-----------------------------------------------------------------------------
(* Reads of a stored conversation, and the peer's signals. *)

ServeFetch(w, f) ==
  /\ f \in fetches[w] /\ f.stage = "asked"
  /\ fetches' = [fetches EXCEPT ![w] = (@ \ {f}) \cup
        IF f.kind = "recover" /\ win[w].scope # f.scope THEN {}
        ELSE {[f EXCEPT !.stage = IF Exists(f.conv) THEN "answered" ELSE "missing",
                        !.shown = IF Exists(f.conv) THEN StoredView(f.conv) ELSE Blank]}]
  /\ UNCHANGED <<storeVars, lease, serverVars, socketVars, linkVars, win, view, rewriting,
                 signals, pendingSignal, deleting, bounds>>

\* What each read looks at after its await.
StillWanted(w, f) ==
  CASE f.kind = "open" -> TRUE
    [] f.kind = "recover" -> win[w].scope = f.scope
    [] OTHER -> win[w].conv = f.conv /\ win[w].active = None /\ ~win[w].opening

ApplyFetch(w, f) ==
  /\ f \in fetches[w] /\ f.stage # "asked"
  /\ fetches' = [fetches EXCEPT ![w] = @ \ {f}]
  /\ LET apply == f.stage = "answered" /\ StillWanted(w, f)
         W == IF apply THEN Applied(win[w], f.conv) ELSE win[w]
     IN /\ win' = [win EXCEPT ![w] = IF f.kind = "open" THEN [W EXCEPT !.opening = FALSE] ELSE W]
        /\ view' = IF apply THEN [view EXCEPT ![w] = f.shown] ELSE view
  /\ UNCHANGED <<storeVars, lease, serverVars, socketVars, linkVars, rewriting, signals,
                 pendingSignal, deleting, bounds>>

\* refreshConversationFromExternalChange, up to its await.
AskRefresh(w, c) ==
  /\ Cardinality(fetches[w]) < MaxFetches
  /\ fetches' = [fetches EXCEPT ![w] = @ \cup {Ask("refresh", c, None)}]
  /\ UNCHANGED <<sock, cancelSent, cancelRequested, linkTerminal, win, view>>

\* applyExternalConversationDeletion.
ApplyDeletion(w) ==
  /\ CloseLink(win[w].active)
  /\ win' = [win EXCEPT ![w] = [Released(@) EXCEPT !.conv = None]]
  /\ view' = [view EXCEPT ![w] = Blank]
  /\ UNCHANGED fetches

\* companionExternalChangeDecision.
OnSignal(w, s) ==
  /\ s \in signals[w]
  /\ signals' = [signals EXCEPT ![w] = @ \ {s}]
  /\ CASE s.conv # win[w].conv ->
            UNCHANGED <<sock, cancelSent, cancelRequested, linkTerminal, win, view, fetches,
                        pendingSignal>>
       [] s.conv = win[w].conv /\ s.kind = "deleted" ->
            /\ ApplyDeletion(w)
            /\ pendingSignal' = [pendingSignal EXCEPT ![w] = {}]
       [] s.conv = win[w].conv /\ s.kind = "updated" /\ (win[w].active # None \/ win[w].opening) ->
            /\ pendingSignal' = [pendingSignal EXCEPT ![w] = {s}]
            /\ UNCHANGED <<sock, cancelSent, cancelRequested, linkTerminal, win, view, fetches>>
       [] OTHER -> AskRefresh(w, s.conv) /\ UNCHANGED pendingSignal
  /\ UNCHANGED <<storeVars, lease, serverVars, wire, want, owner, scopeOf, rewriting, deleting,
                 bounds>>

\* The effect that runs once the window is free again.
OnPendingSignal(w) ==
  /\ pendingSignal[w] # {} /\ win[w].active = None /\ ~win[w].opening /\ win[w].conv # None
  /\ pendingSignal' = [pendingSignal EXCEPT ![w] = {}]
  /\ \E s \in pendingSignal[w] :
       IF s.conv = win[w].conv THEN AskRefresh(w, s.conv)
       ELSE UNCHANGED <<sock, cancelSent, cancelRequested, linkTerminal, win, view, fetches>>
  /\ UNCHANGED <<storeVars, lease, serverVars, wire, want, owner, scopeOf, rewriting, signals,
                 deleting, bounds>>

-----------------------------------------------------------------------------
(* Requests that first look at the lease and then write. *)

IdleNow(c) == lease[c] = None

AskDelete(c) ==
  /\ Gesture
  /\ deleting = None /\ c <= created /\ IdleNow(c)
  /\ deleting' = c
  /\ UNCHANGED <<storeVars, lease, serverVars, socketVars, linkVars, windowVars, faults>>

\* The delete, its answer, the signal, and onDeletedActive in the main window.
Delete(c) ==
  /\ deleting = c /\ deleting' = None
  /\ DeleteConversation(c)
  /\ LET here == "main" \in Windows /\ win["main"].conv = c /\ Exists(c)
     IN /\ signals' = IF Exists(c) THEN SignalPeers("main", c, "deleted") ELSE signals
        /\ IF here
             THEN /\ CloseLink(win["main"].active)
                  /\ win' = [win EXCEPT !["main"] = Idle]
                  /\ view' = [view EXCEPT !["main"] = Blank]
                  /\ pendingSignal' = [pendingSignal EXCEPT !["main"] = {}]
             ELSE UNCHANGED <<sock, cancelSent, cancelRequested, linkTerminal, win, view,
                              pendingSignal>>
  /\ UNCHANGED <<lease, serverVars, wire, want, owner, scopeOf, fetches, rewriting, bounds>>

\* renameConversation from the history, or updateConversationContext by an idle window.
Amend(w, c) ==
  /\ Gesture
  /\ \/ RenameConversation(c)
     \/ win[w].conv = c /\ win[w].active = None /\ IdleNow(c) /\ UpdateContext(c)
  /\ signals' = SignalPeers(w, c, "updated")
  /\ UNCHANGED <<lease, serverVars, socketVars, linkVars, win, view, fetches, rewriting,
                 pendingSignal, deleting, faults>>

\* rewriteFromUser of a stored user message.
AskRewrite(w, r) ==
  /\ Gesture
  /\ rewriting[w] = NoRewrite /\ win[w].active = None /\ ~win[w].opening
  /\ win[w].conv # None /\ view[w][r] # "absent" /\ row[r].conv = win[w].conv
  /\ NextRequest \in Requests
  /\ rewriting' = [rewriting EXCEPT ![w] = [from |-> r, checked |-> FALSE]]
  /\ UNCHANGED <<storeVars, lease, serverVars, socketVars, linkVars, win, view, fetches,
                 signals, pendingSignal, deleting, faults>>

CheckRewrite(w) ==
  /\ rewriting[w].from # None /\ ~rewriting[w].checked
  /\ LET c == row[rewriting[w].from].conv
     IN rewriting' = [rewriting EXCEPT ![w] =
                        IF c # None /\ IdleNow(c) THEN [@ EXCEPT !.checked = TRUE] ELSE NoRewrite]
  /\ UNCHANGED <<storeVars, lease, serverVars, socketVars, linkVars, win, view, fetches,
                 signals, pendingSignal, deleting, bounds>>

\* rewind_from_user_message, its answer applied, and the replacement sent.
DoRewrite(w) ==
  /\ rewriting[w].checked
  /\ rewriting' = [rewriting EXCEPT ![w] = NoRewrite]
  /\ LET r == rewriting[w].from
         c == row[r].conv
         rewound == [q \in Requests |-> IF RewoundRows(c, r)[q].conv = c
                                          THEN RewoundRows(c, r)[q].status ELSE "absent"]
     IN IF c = None \/ ~MayRewind(c, r)
          THEN UNCHANGED <<storeVars, win, view, want, owner, scopeOf, sock, signals>>
          ELSE /\ Rewind(c, r)
               /\ signals' = SignalPeers(w, c, "updated")
               /\ IF win[w].active = None
                    THEN StartRequest(w, Applied(win[w], c), rewound)
                    ELSE /\ win' = [win EXCEPT ![w] = Applied(@, c)]
                         /\ view' = [view EXCEPT ![w] = rewound]
                         /\ UNCHANGED <<want, owner, scopeOf, sock>>
  /\ UNCHANGED <<lease, serverVars, cancelSent, wire, cancelRequested, linkTerminal, fetches,
                 pendingSignal, deleting, bounds>>

-----------------------------------------------------------------------------
(* The store refuses.  begin_exchange, the context mode and every terminal commit *)
(* are transactions of their own, and each of them may raise.                     *)

StoreFault == faults < MaxFaults /\ faults' = faults + 1

\* Before the exchange or, with the exchange already there, at its context mode: an
\* OSError or a ValueError is answered, a database error propagates.
BeginFails(r) ==
  /\ handler[r] \in {"claimed", "begun"} /\ StoreFault
  /\ \/ /\ handler' = [handler EXCEPT ![r] = "closing"]
        /\ Reply(r, Event("error", want[r]))
     \/ handler' = [handler EXCEPT ![r] = "raising"] /\ UNCHANGED wire
  /\ UNCHANGED <<storeVars, lease, conv, cancelEvent, terminal, producer, latest, queue,
                 sock, cancelSent, linkVars, windowVars, deleting, gestures>>

\* finalize_message is called, and raises: terminal_committed stays as it is.
CommitRefused(r) == producer[r] # "none" /\ ~terminal[r] /\ StoreFault

\* The answer is complete and cannot be stored: produce goes to its except clause, or,
\* when that was storing an error, ends without an event.
CommitFails(r) ==
  /\ producer[r] \in {"committing", "failing"} /\ CommitRefused(r)
  /\ ProducerTo(r, IF producer[r] = "committing" /\ ~cancelEvent[r] THEN "failing" ELSE "over")
  /\ UNCHANGED <<storeVars, lease, handler, conv, cancelEvent, terminal, latest, queue,
                 socketVars, linkVars, windowVars, deleting, gestures>>

\* receive_control raises, and with it the handler.
CancelFails(r) ==
  /\ handler[r] = "serving" /\ cancelSent[r] /\ CommitRefused(r)
  /\ cancelSent' = [cancelSent EXCEPT ![r] = FALSE]
  /\ cancelEvent' = [cancelEvent EXCEPT ![r] = TRUE]
  /\ handler' = [handler EXCEPT ![r] = "raising"]
  /\ UNCHANGED <<storeVars, lease, conv, terminal, producer, latest, queue, sock, wire,
                 linkVars, windowVars, deleting, gestures>>

\* The commit of the finally clause raises: the release behind it is skipped.
FinallyFails(r) ==
  /\ handler[r] \in {"closing", "raising"} /\ CommitRefused(r)
  /\ cancelEvent' = [cancelEvent EXCEPT ![r] = TRUE]
  /\ handler' = [handler EXCEPT ![r] = "broken"]
  /\ sock' = Dropped(r)
  /\ UNCHANGED <<storeVars, lease, conv, terminal, producer, latest, queue, cancelSent, wire,
                 linkVars, windowVars, deleting, gestures>>

-----------------------------------------------------------------------------
(* Other faults. *)

\* A connection breaks; what was on its way may or may not arrive.
Disconnect(r) ==
  /\ sock[r] = "open" /\ faults < MaxFaults
  /\ sock' = [sock EXCEPT ![r] = "lost"]
  /\ \E kept \in {wire[r], <<>>} : wire' = [wire EXCEPT ![r] = kept]
  /\ cancelSent' = [cancelSent EXCEPT ![r] = FALSE]
  /\ faults' = faults + 1
  /\ UNCHANGED <<storeVars, lease, serverVars, linkVars, windowVars, deleting, gestures>>

\* The backend dies and starts again: threads, leases and sockets are gone, the
\* store marks what was streaming as cancelled.
Restart ==
  /\ faults < MaxFaults /\ faults' = faults + 1
  /\ Initialize
  /\ lease' = [c \in Conversations |-> None]
  /\ handler' = [r \in Requests |-> IF handler[r] = "none" THEN "none" ELSE "ended"]
  /\ producer' = [r \in Requests |-> IF producer[r] = "none" THEN "none" ELSE "over"]
  /\ sock' = [r \in Requests |-> IF sock[r] = "open" THEN "lost" ELSE sock[r]]
  /\ cancelSent' = [r \in Requests |-> FALSE]
  /\ queue' = [r \in Requests |-> <<>>]
  /\ deleting' = None
  /\ rewriting' = [w \in Windows |-> NoRewrite]
  /\ UNCHANGED <<conv, cancelEvent, terminal, latest, wire, linkVars, win, view, fetches,
                 signals, pendingSignal, gestures>>

-----------------------------------------------------------------------------

HandlerStep(r) ==
  \/ Claim(r) \/ RefuseBusy(r) \/ Begin(r) \/ Serve(r) \/ ModeRefused(r)
  \/ ReceiveCancel(r) \/ ReceiveDisconnect(r) \/ SendEvent(r) \/ Finally(r)
ProducerStep(r) ==
  \/ Delta(r) \/ Flush(r) \/ EndStream(r) \/ Verify(r) \/ Commit(r)
  \/ Fail(r) \/ CommitError(r) \/ Emit(r)
LinkStep(r) == Connect(r) \/ Deliver(r) \/ NoticeLoss(r)
WindowStep(w) ==
  \/ \E f \in fetches[w] : ServeFetch(w, f) \/ ApplyFetch(w, f)
  \/ \E s \in signals[w] : OnSignal(w, s)
  \/ OnPendingSignal(w)
UserStep(w) ==
  \/ Send(w) \/ Cancel(w) \/ Reset(w)
  \/ \E c \in Conversations : Open(w, c) \/ Amend(w, c)
  \/ \E r \in Requests : AskRewrite(w, r)
  \/ CheckRewrite(w) \/ DoRewrite(w)
StoreFails(r) == BeginFails(r) \/ CommitFails(r) \/ CancelFails(r) \/ FinallyFails(r)
FaultStep == Restart \/ \E r \in Requests : Disconnect(r) \/ StoreFails(r)

Next ==
  \/ \E r \in Requests : HandlerStep(r) \/ ProducerStep(r) \/ LinkStep(r)
  \/ \E w \in Windows : WindowStep(w) \/ UserStep(w)
  \/ \E c \in Conversations : AskDelete(c) \/ Delete(c) \/ ExpireLease(c)
  \/ FaultStep

Spec == Init /\ [][Next]_vars

\* The event loop, the threads and the sockets make progress, and a provider's
\* stream ends; users and faults owe nothing.
Fairness ==
  /\ \A r \in Requests :
       /\ WF_vars(HandlerStep(r)) /\ WF_vars(LinkStep(r))
       /\ WF_vars(ProducerStep(r)) /\ SF_vars(EndStream(r))
  /\ \A w \in Windows : WF_vars(WindowStep(w))
FairSpec == Spec /\ Fairness

-----------------------------------------------------------------------------
(* Properties. *)

Streaming(r) == row[r].status = "streaming"
\* begin_exchange gave r another conversation than the one it holds the lease of.
Displaced(r) == want[r] # None /\ conv[r] # want[r]

\* A stored reply that is complete, cancelled or failed is never written again,
\* whatever producer, cancel, disconnect and restart do in what order: it goes
\* only with its conversation or its branch (finalize_message has no such guard).
TerminalIsFinal ==
  [][\A r \in Requests : row[r].status \in TerminalStatus => row'[r] \in {row[r], NoRow}]_vars

\* What a window shows as complete is stored as complete, or was deleted: no done
\* event is believed after another terminal status was committed.
ShownIsStored ==
  \A w \in Windows, r \in Requests :
    view[w][r] = "complete" => row[r].status \in {"complete", "absent"}

\* A reply that streams with a handler behind it, not one a failed handler left behind.
Generating(r) ==
  Streaming(r) /\ producer[r] # "none" /\ handler[r] \in {"serving", "closing", "raising"}

\* Two replies are generated into one conversation only if all but one asked for a
\* conversation that was deleted under them (their lease is on the old id).
OneGeneration ==
  \A q, r \in Requests :
    q # r /\ Generating(q) /\ Generating(r) /\ row[q].conv = row[r].conv
      => Displaced(q) \/ Displaced(r)

\* No exception, as the lease registry's own description has it: "one active
\* generation per conversation".  The code does not keep this: a request whose
\* conversation is deleted between claim and begin_exchange, or was deleted before
\* it, streams into another one that nobody holds the lease of.
OneActiveGeneration ==
  \A q, r \in Requests :
    q # r /\ Generating(q) /\ Generating(r) => row[q].conv # row[r].conv

\* A lease outlives its websocket only for a request whose conversation was deleted
\* before its exchange began, and where the finally clause itself was broken off.
LeaseEndsWithSocket ==
  \A c \in Conversations :
    lease[c] # None /\ handler[lease[c]] = "ended" => Displaced(lease[c])

\* Both commits of the producer were refused: no status, no event, and a handler that
\* waits for its client.
Mute(r) ==
  /\ handler[r] = "serving" /\ producer[r] = "over"
  /\ ~cancelEvent[r] /\ ~terminal[r]
\* Replies nobody settles before the next start: their context mode was refused after
\* the exchange was stored, or the last commit that could have settled them.
LeftStreaming(r) ==
  Streaming(r) /\ (handler[r] = "broken" \/ (handler[r] = "ended" /\ producer[r] = "none"))
\* Every other reply that starts to stream gets a terminal status or is deleted,
\* wherever a connection breaks, the process ends or one of its commits raises.
ReplySettles ==
  \A r \in Requests : Streaming(r) ~> ~Streaming(r) \/ LeftStreaming(r) \/ Mute(r)

\* A window whose socket was lost after it asked for a cancel, or after its scope
\* changed under the request, has no event left to free it.
Stranded(w) ==
  LET r == win[w].active
  IN r # None /\ sock[r] \in {"lost", "closed"}
       /\ (cancelRequested[r] \/ (win[w].scope # scopeOf[r] /\ ~win[w].detached))
\* Every other window gets its composer back, unless its reply has gone mute.
WindowRecovers ==
  \A w \in Windows, r \in Requests :
    win[w].active = r ~> win[w].active # r \/ Stranded(w) \/ Mute(r)
=============================================================================
