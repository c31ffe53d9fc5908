------------------------------- MODULE AgentRun -------------------------------
(***************************************************************************)
(* One Agent run: the LangGraph workflow of ReadingAgentGraph, its durable *)
(* checkpoint (one thread per run id), the executions that start, resume   *)
(* or retry the run, and the exchange and conversation lease that          *)
(* AgentConversationService keeps for it in the store and registry of      *)
(* ConversationStore.  Cancellation, an exhausted budget and an error of a *)
(* provider are one exception, raised wherever a node looks at the control *)
(* or calls out.                                                           *)
(*                                                                         *)
(* A node takes effect in one step and its checkpoint is put in the next;  *)
(* the process may stop between the two.  A write tool is two more steps,  *)
(* and so is the failure of a preparation.  The store may refuse any of    *)
(* the run's transactions.  The run was asked in conversation 1, which     *)
(* exists throughout: a run without one, whose exchange comes before its   *)
(* lease, is left out.  Execution e begins exchange e at most; exchange    *)
(* Other is another window's, Run owns the run's lease.                    *)
(***************************************************************************)
EXTENDS ConversationStore

CONSTANTS
  MaxIterations,  \* max_react_iterations of the execution policy
  MaxCalls,       \* max_tool_calls of the execution policy
  MaxRestarts,    \* bound on restarts of the backend
  Approvals       \* the approvals that requests to resume may carry

ASSUME AgentAssumption ==
  /\ MaxCreated > 0 /\ MaxRequests > 1
  /\ MaxIterations \in Nat \ {0} /\ MaxCalls \in Nat \ {0}
  /\ MaxRestarts \in Nat /\ Approvals \subseteq BOOLEAN

Executions == 1 .. (MaxRequests - 1)
Run == 1
Other == MaxRequests

VARIABLES
  ckpt,            \* the latest checkpoint of the thread: next node and state
  exec,            \* the executions of the run
  recentRequest,   \* _recent_requests holds the run's request
  other,           \* the other window's generation
  restarts,
  \* history, read by properties only
  solo,            \* no execution was accepted while another was alive
  unknown          \* the process stopped inside a write tool

agentVars == <<ckpt, exec>>
vars == <<storeVars, lease, agentVars, recentRequest, other, restarts, solo, unknown>>

Nodes == {"resolve_context", "prepare_conversation", "run_collaboration", "route_request",
          "execute_direct", "start_react", "decide_react", "execute_react_tool",
          "finalize_react", "finalize_conversation"}
Tools == {"read", "write"}
\* AgentState and conversation_run: what later steps or the properties look at.
\* action is the routed action, then the last ReAct decision.
AgentType == [approved : BOOLEAN, delivered : BOOLEAN,
              response : {"none", "completed", "confirmation_required"},
              action : Tools \cup {"none", "answer", "complex", "final"},
              iteration : 0 .. MaxIterations, calls : Nat,
              results : BOOLEAN, exchange : Executions \cup {None}]
NewAgent(approved) ==
  [approved |-> approved, delivered |-> FALSE, response |-> "none", action |-> "none",
   iteration |-> 0, calls |-> 0, results |-> FALSE, exchange |-> None]
NotStarted == [pc |-> "none", node |-> "resolve_context", agent |-> NewAgent(FALSE),
               kind |-> "new", asked |-> FALSE]

TypeOK ==
  /\ StoreTypeOK
  /\ ckpt \in [next : Nodes \cup {"none", "end"}, agent : AgentType]
  /\ exec \in [Executions ->
       [pc : {"none", "accepted", "node", "writing", "raising", "put", "ended", "broken"},
        node : Nodes \cup {"none", "end"}, agent : AgentType, kind : {"new", "resume", "retry"},
        asked : BOOLEAN]]
  /\ recentRequest \in BOOLEAN /\ solo \in BOOLEAN /\ unknown \in BOOLEAN
  /\ other \in {"idle", "generating", "done"}
  /\ restarts \in 0 .. MaxRestarts

Init ==
  /\ recent = <<1>> /\ created = 1 /\ begun = 0
  /\ row = [r \in Requests |-> NoRow]
  /\ lease = [c \in Conversations |-> None]
  /\ ckpt = [next |-> "none", agent |-> NewAgent(FALSE)]
  /\ exec = [e \in Executions |-> NotStarted]
  /\ recentRequest = FALSE /\ other = "idle" /\ restarts = 0
  /\ solo = TRUE /\ unknown = FALSE

Live(e) == exec[e].pc \notin {"none", "ended", "broken"}
Agent(e) == exec[e].agent
At(e, node) == exec[e].pc = "node" /\ exec[e].node = node
Quiet == UNCHANGED <<ckpt, recentRequest, other, restarts, solo, unknown>>
Stay == UNCHANGED <<storeVars, lease>> /\ Quiet

\* The node is done: its state and the next node wait to be checkpointed.
Goto(e, node, agent) ==
  exec' = [exec EXCEPT ![e].pc = "put", ![e].node = node, ![e].agent = agent]
\* What ended keeps the node it ended in.
Ended(node) == [NotStarted EXCEPT !.pc = "ended", !.node = node]
End(e) == exec' = [exec EXCEPT ![e] = Ended(exec[e].node)]
\* It ends on finalize_message, which the store refused.
Break(e) == exec' = [exec EXCEPT ![e] = [Ended(exec[e].node) EXCEPT !.pc = "broken"]]

-----------------------------------------------------------------------------
(* Requests.  A surface asks again when it saw the execution end, was reloaded *)
(* or lost the connection, so at any time: the backend does not look at what    *)
(* still runs.                                                                  *)

\* Mutant: only the direct route is looked at.
PendingRoutedWrite == ckpt.next = "execute_direct" /\ ckpt.agent.action = "write"
\* _pending_checkpoint_write_tool.
PendingWrite ==
  ckpt.next \in {"execute_direct", "execute_react_tool"} /\ ckpt.agent.action = "write"
\* checkpoint_state returns a state.
Restorable == ckpt.next # "none" /\ ~PendingWrite

MayAsk(e) ==
  exec[e].pc = "none" /\ \A f \in Executions : f < e => exec[f].pc # "none"
Accept(e, kind, approved, agent) ==
  /\ exec' = [exec EXCEPT ![e].pc = "accepted", ![e].kind = kind, ![e].asked = approved,
                          ![e].agent = agent]
  /\ solo' = (solo /\ ~\E f \in Executions : Live(f))
  /\ UNCHANGED <<storeVars, lease, ckpt, recentRequest, other, restarts, unknown>>

\* _state_from_run_request: a new run may carry the approval of its write tool.
StartRun(e, approved) ==
  MayAsk(e) /\ e = 1 /\ Accept(e, "new", approved, NewAgent(approved))

\* restore_checkpoint clears the approvals, the request's are laid over it.
ResumeRun(e, approved) ==
  /\ MayAsk(e) /\ e > 1 /\ Restorable
  /\ Accept(e, "resume", approved, [ckpt.agent EXCEPT !.approved = approved])

\* prepare_task_retry: the graph starts over from the restored state.
RetryTask(e) ==
  /\ MayAsk(e) /\ e > 1 /\ Restorable
  /\ Accept(e, "retry", FALSE, [ckpt.agent EXCEPT !.approved = FALSE, !.exchange = None])

\* execute: a new invocation puts its input; a resumed one goes on from the
\* checkpoint, whose own state the graph uses, and a finished thread runs nothing.
StartGraph(e) ==
  /\ exec[e].pc = "accepted"
  /\ \/ /\ exec[e].kind # "resume"
        /\ exec' = [exec EXCEPT ![e].pc = "node"]
        /\ ckpt' = [next |-> "resolve_context", agent |-> Agent(e)]
     \/ /\ exec[e].kind = "resume" /\ Restorable
        /\ exec' = [exec EXCEPT ![e] =
                      IF ckpt.next = "end" THEN Ended("end")
                        ELSE [@ EXCEPT !.pc = "node", !.node = ckpt.next,
                                       !.agent = ckpt.agent]]
        /\ UNCHANGED ckpt
     \/ End(e) /\ UNCHANGED ckpt
  /\ UNCHANGED <<storeVars, lease, recentRequest, other, restarts, solo, unknown>>

-----------------------------------------------------------------------------
(* The conversation of the run. *)

Release ==
  /\ lease' = ReleasedBy(1, Run)
  /\ recentRequest' = (recentRequest \/ lease[1] = Run)

\* Mutant: the lease is left to expire.
FailExchangeOnly(e) ==
  FinalizeMessage(Agent(e).exchange, "error", "part") /\ UNCHANGED <<lease, recentRequest>>
\* fail, and cancel, whose other status nothing here tells apart: whatever the
\* message holds is replaced.
FailExchange(e) == FinalizeMessage(Agent(e).exchange, "error", "part") /\ Release


\* begin: the lease, the exchange, its context mode, the context of the conversation.
Claimable == Available(1) /\ ~recentRequest
PrepareConversation(e) ==
  /\ At(e, "prepare_conversation") /\ Claimable
  /\ AcquireLease(1, Run) /\ BeginExchange(e, 1)
  /\ Goto(e, "run_collaboration", [Agent(e) EXCEPT !.exchange = e])
  /\ UNCHANGED <<ckpt, recentRequest, other, restarts, solo, unknown>>
\* The conversation cannot be read, or is busy, or has just seen this request.
ClaimFails(e) == At(e, "prepare_conversation") /\ End(e) /\ Stay
\* begin_exchange_with_context_mode raises: the lease goes back, and an exchange that
\* was committed before its title or its mode was refused is not known to begin.
ExchangeRefused(e) ==
  /\ At(e, "prepare_conversation") /\ Claimable
  /\ UNCHANGED storeVars \/ BeginExchange(e, 1)
  /\ End(e) /\ recentRequest' = TRUE
  /\ UNCHANGED <<lease, ckpt, other, restarts, solo, unknown>>
\* update_context raises: a reading without a source text, or the store.
ContextRefused(e) ==
  /\ At(e, "prepare_conversation") /\ Claimable
  /\ AcquireLease(1, Run) /\ BeginExchange(e, 1)
  /\ exec' = [exec EXCEPT ![e].pc = "raising"]
  /\ Quiet
\* The exception of begin; with finalize_message refused the release is not reached.
FailSetup(e) ==
  /\ exec[e].pc = "raising"
  /\ \/ FinalizeMessage(e, "error", "part") /\ Release /\ End(e)
     \/ UNCHANGED <<storeVars, lease, recentRequest>> /\ Break(e)
  /\ UNCHANGED <<ckpt, other, restarts, solo, unknown>>

\* _abort, then the exception ends the invocation; the checkpoint stays where it was.
\* The lease goes back whether or not the store takes the status (finally).
Abort(e) ==
  /\ \/ FailExchange(e) /\ End(e)
     \/ UNCHANGED storeVars /\ Release /\ Break(e)
  /\ UNCHANGED <<ckpt, other, restarts, solo, unknown>>

\* Mutant: an exchange that is no longer streaming is left alone.
StoreUnsettledReply(r) ==
  IF row[r].status = "streaming" THEN FinalizeMessage(r, "complete", "full")
                                 ELSE UNCHANGED storeVars
StoreReply(r) == FinalizeMessage(r, "complete", "full")
\* The exchange is rewound, with all that came after it; with another reply under way
\* rewind_from_user_message raises.
MayWithdraw(r) == Stored(r) => StreamingIn(1) \ {r} = {}
WithdrawExchange(r) ==
  /\ row' = IF Stored(r) THEN RewoundRows(1, r) ELSE row
  /\ UNCHANGED <<recent, created, begun>>

\* complete.  What comes behind finalize_message may raise: the grounding of a reply that
\* is stored, the rewind of an exchange that is cancelled.
FinalizeConversation(e) ==
  LET r == Agent(e).exchange
      asks == Agent(e).response = "confirmation_required"
  IN /\ At(e, "finalize_conversation")
     /\ \/ ~asks /\ StoreReply(r) /\ (Goto(e, "end", Agent(e)) \/ End(e))
        \/ asks /\ MayWithdraw(r) /\ WithdrawExchange(r) /\ Goto(e, "end", Agent(e))
        \/ asks /\ FinalizeMessage(r, "cancelled", "part") /\ End(e)
        \/ UNCHANGED storeVars /\ Break(e)
     /\ Release
     /\ UNCHANGED <<ckpt, other, restarts, solo, unknown>>

-----------------------------------------------------------------------------
(* The nodes before the answer.  Cancellation is cooperative: what a node has *)
(* returned after its last look at the control counts.                        *)

ResolveContext(e) ==
  /\ At(e, "resolve_context")
  /\ Goto(e, "prepare_conversation", Agent(e)) \/ End(e)
  /\ Stay

\* The orchestration may deliver the answer itself, hand its text to the language
\* tools, or add context only; cancel, budget and run-lease errors are not caught.
RunCollaboration(e) ==
  /\ At(e, "run_collaboration")
  /\ \/ \E agent \in {Agent(e), [Agent(e) EXCEPT !.delivered = FALSE],
                      [Agent(e) EXCEPT !.delivered = TRUE, !.response = "completed"]} :
          Goto(e, "route_request", agent)
     \/ End(e)
  /\ Stay

RouteRequest(e) ==
  /\ At(e, "route_request")
  /\ \/ /\ Agent(e).delivered /\ Agent(e).response = "completed"
        /\ Goto(e, "finalize_conversation", [Agent(e) EXCEPT !.action = "answer"])
        /\ Stay
     \/ /\ ~(Agent(e).delivered /\ Agent(e).response = "completed")
        /\ \E action \in Tools \cup {"answer", "complex"} :
             Goto(e, IF action = "complex" THEN "start_react" ELSE "execute_direct",
                  [Agent(e) EXCEPT !.action = action])
        /\ Stay
     \/ /\ ~(Agent(e).delivered /\ Agent(e).response = "completed")
        /\ Abort(e)

-----------------------------------------------------------------------------
(* Tools.  A write needs its approval, and then a last look at the control. *)

Called(agent, got) ==
  [agent EXCEPT !.calls = @ + 1, !.results = @ \/ got]
\* _observation_branch, once the tool has answered; the evidence gate may stop.
AfterTool(e, agent) ==
  IF agent.response = "confirmation_required"
    THEN Goto(e, "finalize_conversation", agent)
    ELSE \/ Goto(e, "finalize_react", agent)
         \/ /\ agent.calls < MaxCalls /\ agent.iteration < MaxIterations
            /\ Goto(e, "decide_react", agent)
Answered(e) ==
  IF exec[e].node = "execute_direct"
    THEN Goto(e, "finalize_conversation",
              [Called(Agent(e), TRUE) EXCEPT !.response = "completed"])
    ELSE AfterTool(e, Called(Agent(e), TRUE))
WithinCalls(e) == exec[e].node = "execute_direct" \/ Agent(e).calls < MaxCalls
AtTool(e, action) ==
  (At(e, "execute_direct") \/ At(e, "execute_react_tool")) /\ Agent(e).action = action

CallLimit(e) ==
  /\ At(e, "execute_react_tool") /\ ~WithinCalls(e)
  /\ Goto(e, "finalize_react", Agent(e)) /\ Stay

\* The text answer of the direct route, or a read tool with its retries.
Answer(e) ==
  /\ At(e, "execute_direct") /\ Agent(e).action = "answer"
  /\ Goto(e, "finalize_conversation", [Agent(e) EXCEPT !.response = "completed"])
  /\ Stay
Read(e) == AtTool(e, "read") /\ WithinCalls(e) /\ Answered(e) /\ Stay

AskConfirmation(e) ==
  /\ AtTool(e, "write") /\ WithinCalls(e) /\ ~Agent(e).approved
  /\ Goto(e, "finalize_conversation",
          [Called(Agent(e), FALSE) EXCEPT !.response = "confirmation_required"])
  /\ Stay

BeginWrite(e) ==
  /\ AtTool(e, "write") /\ WithinCalls(e) /\ Agent(e).approved
  /\ exec' = [exec EXCEPT ![e].pc = "writing"] /\ Stay
EndWrite(e) == exec[e].pc = "writing" /\ ((Answered(e) /\ Stay) \/ Abort(e))

ToolFails(e) ==
  /\ (At(e, "execute_direct") \/ At(e, "execute_react_tool")) /\ WithinCalls(e)
  /\ Abort(e)

-----------------------------------------------------------------------------
(* The bounded ReAct loop. *)

\* Mutant: a retry goes on counting where the loop before it stopped.
StartReactOn(e) ==
  /\ At(e, "start_react")
  /\ Goto(e, "decide_react", [Agent(e) EXCEPT !.action = "none"])
  /\ Stay
StartReact(e) ==
  /\ At(e, "start_react")
  /\ Goto(e, "decide_react", [Agent(e) EXCEPT !.action = "none", !.iteration = 0])
  /\ Stay

\* A repeated action, or one search too many, goes the way of a limit.  Another
\* iteration is left whenever this node is next (AfterTool), as the node checks again.
DecideReact(e) ==
  /\ At(e, "decide_react")
  /\ \/ /\ \E action \in Tools \cup {"final"} :
             \E node \in IF action = "final" THEN {"finalize_react"}
                                             ELSE {"execute_react_tool", "finalize_react"} :
               Goto(e, node, [Agent(e) EXCEPT !.action = action, !.iteration = @ + 1])
        /\ Stay
     \/ Abort(e)

\* Without a result only a final decision answers.
FinalizeReact(e) ==
  /\ At(e, "finalize_react")
  /\ \/ /\ Agent(e).results \/ Agent(e).action = "final"
        /\ Goto(e, "finalize_conversation", [Agent(e) EXCEPT !.response = "completed"])
        /\ Stay
     \/ Abort(e)

\* A checkpoint after every completed node.
PutCheckpoint(e) ==
  /\ exec[e].pc = "put"
  /\ ckpt' = [next |-> exec[e].node, agent |-> Agent(e)]
  /\ exec' = [exec EXCEPT ![e] = IF @.node = "end" THEN Ended("end")
                                                  ELSE [@ EXCEPT !.pc = "node"]]
  /\ UNCHANGED <<storeVars, lease, recentRequest, other, restarts, solo, unknown>>

-----------------------------------------------------------------------------
(* What else uses the conversation, time, and the process. *)

OtherBegins ==
  /\ other = "idle" /\ AcquireLease(1, Other) /\ BeginExchange(Other, 1)
  /\ other' = "generating"
  /\ UNCHANGED <<agentVars, recentRequest, restarts, solo, unknown>>
OtherEnds ==
  /\ other = "generating" /\ StoreReply(Other)
  /\ lease' = ReleasedBy(1, Other) /\ other' = "done"
  /\ UNCHANGED <<agentVars, recentRequest, restarts, solo, unknown>>

\* Two minutes after the release.
ForgetRequest ==
  /\ recentRequest /\ recentRequest' = FALSE
  /\ UNCHANGED <<storeVars, lease, agentVars, other, restarts, solo, unknown>>

\* _cleanup_locked, 15 minutes after acquire; an execution is over by then.
ExpireLease ==
  /\ lease[1] = Run /\ \A e \in Executions : Live(e) => exec[e].kind = "resume"
  /\ lease' = [lease EXCEPT ![1] = None]
  /\ UNCHANGED <<storeVars, agentVars, recentRequest, other, restarts, solo, unknown>>

\* The process stops and the next one initializes the store; leases and recent
\* requests were the process's own.
Restart ==
  /\ restarts < MaxRestarts /\ \E e \in Executions : Live(e)
  /\ restarts' = restarts + 1
  /\ exec' = [e \in Executions |-> IF Live(e) THEN Ended("none") ELSE exec[e]]
  /\ unknown' = (unknown \/ \E e \in Executions : exec[e].pc = "writing")
  /\ Initialize
  /\ lease' = [c \in Conversations |-> None] /\ recentRequest' = FALSE
  /\ other' = IF other = "generating" THEN "done" ELSE other
  /\ UNCHANGED <<ckpt, solo>>

Step(e) ==
  \/ StartGraph(e) \/ ResolveContext(e) \/ PrepareConversation(e) \/ ClaimFails(e)
  \/ ExchangeRefused(e) \/ ContextRefused(e) \/ FailSetup(e) \/ RunCollaboration(e)
  \/ RouteRequest(e) \/ CallLimit(e) \/ Answer(e) \/ Read(e) \/ AskConfirmation(e)
  \/ BeginWrite(e) \/ EndWrite(e) \/ ToolFails(e) \/ StartReact(e) \/ DecideReact(e)
  \/ FinalizeReact(e) \/ FinalizeConversation(e) \/ PutCheckpoint(e)

Next ==
  \/ \E e \in Executions : \/ \E approved \in BOOLEAN : StartRun(e, approved)
                           \/ \E approved \in Approvals : ResumeRun(e, approved)
                           \/ RetryTask(e) \/ Step(e)
  \/ OtherBegins \/ OtherEnds \/ ForgetRequest \/ ExpireLease \/ Restart

Spec == Init /\ [][Next]_vars

-----------------------------------------------------------------------------
(* Properties. *)

Over == \A e \in Executions : ~Live(e)

\* A write tool whose effect is unknown because the process stopped inside it is
\* never started again by a later execution of the run, whatever is resumed or
\* retried and whatever is approved.  (With two executions alive at once the later
\* one's checkpoints may cover the write's; solo leaves that out.)
InterruptedWriteStays ==
  solo /\ unknown => \A e \in Executions : exec[e].pc # "writing"

\* Ends that settle nothing: the exception of a collaboration, which no handler settles;
\* a context mode, or a title, refused behind the exchange; finalize_message refused.
LeftStreaming(e) ==
  \/ exec[e].pc = "ended" /\ exec[e].node \in {"run_collaboration", "prepare_conversation"}
  \/ exec[e].pc = "broken"
\* Ends that keep the lease: only these leave it to its 15 minutes.
LeaseLeft(e) ==
  \/ exec[e].pc = "ended" /\ exec[e].node = "run_collaboration"
  \/ exec[e].pc = "broken" /\ exec[e].node = "prepare_conversation"

\* When nothing of the run executes any more, whatever was refused or raised in any of
\* its executions: an exchange streams on only if the execution that began it ended in
\* one of the ways of LeftStreaming, and the conversation is still claimed only if some
\* execution ended in one of those of LeaseLeft.
EndedRunSettles ==
  Over => /\ \A e \in Executions : row[e].status = "streaming" => LeftStreaming(e)
          /\ lease[1] = Run => \E e \in Executions : LeaseLeft(e)

\* A run whose thread has finished with an answer shows that answer in its
\* conversation, also when a restart had settled the exchange as cancelled before
\* the run was resumed.
FinishedRunIsStored ==
  solo /\ ckpt.next = "end" /\ ckpt.agent.response = "completed"
    => row[ckpt.agent.exchange].status = "complete"

\* "A resumed or retried task must request a fresh confirmation if it reaches a
\* write": a write is approved by the request of the execution that makes it.
FreshApproval == \A e \in Executions : exec[e].pc = "writing" => exec[e].asked

\* "A lease is released when the owning WebSocket reaches a terminal state": what the
\* code does not keep in the ways of LeaseLeft; stated, and not run.
EndedRunFreesConversation == Over => lease[1] # Run
=============================================================================
