---------------------------- MODULE AgentRunProofs ----------------------------
(***************************************************************************)
(* The safety properties of AgentRun for any number of executions of the   *)
(* run and of restarts, any limits of the policy and any approvals.        *)
(***************************************************************************)
EXTENDS AgentRun, ConversationStoreProofs, FiniteSetTheorems

Early == {"resolve_context", "prepare_conversation"}
Late == Nodes \ Early
Running(e) == exec[e].pc \in {"node", "writing", "put"}
\* An execution that has its exchange and has not settled it.
Holding(e) == Running(e) /\ exec[e].node \in Late
\* An execution whose preparation has raised behind its exchange.
Raising(e) == exec[e].pc = "raising"

\* The store as the run sees it: one conversation, which nothing deletes.
OneConversation ==
  /\ 1 \in ToSet(recent) /\ created = 1
  /\ \A r \in Requests : Stored(r) => row[r].conv = 1

\* Each execution begins one exchange at most, before it has passed that node.
Passed == {e \in Executions : \/ exec[e].pc \in {"raising", "ended", "broken"}
                              \/ Running(e) /\ exec[e].node \notin Early}
Begun == Passed \cup {r \in {Other} : other # "idle"}
ExchangesCounted == begun <= Cardinality(Begun)

\* Where an execution, or the checkpoint, may be, and what its state then says.
StateFits(node, agent) ==
  /\ node \in Late \cup {"end"} => agent.exchange \in Executions
  /\ node = "decide_react" => agent.iteration < MaxIterations
ExecutionsFit ==
  /\ StateFits(ckpt.next, ckpt.agent)
  /\ \A e \in Executions :
       /\ exec[e].pc # "none" => exec[1].pc # "none"
       /\ exec[e].pc \in {"none", "accepted"} => exec[e].node = "resolve_context"
       /\ exec[e].pc \in {"node", "writing"} => exec[e].node \in Nodes
       /\ exec[e].pc = "put" => exec[e].node \in Nodes \cup {"end"}
       /\ exec[e].pc = "raising" => exec[e].node = "prepare_conversation"
       /\ Running(e) => StateFits(exec[e].node, Agent(e))
       /\ exec[e].pc = "writing" =>
            exec[e].node \in {"execute_direct", "execute_react_tool"} /\ Agent(e).action = "write"

\* While executions follow one another, the live one is where the checkpoint is, or one
\* node ahead of it.
SoloInStep ==
  solo => \A e \in Executions :
    /\ \A f \in Executions : Live(e) /\ Live(f) => e = f
    /\ exec[e].pc \in {"node", "writing", "raising"} =>
         ckpt.next = exec[e].node /\ ckpt.agent = Agent(e)
    /\ exec[e].pc = "put" => ckpt.next \in Nodes

\* The write whose effect is unknown is the one the checkpoint is at.
UnknownIsPending ==
  solo /\ unknown => PendingWrite /\ exec[1].pc # "none" /\ \A e \in Executions : ~Live(e)

\* A streaming reply, and the lease, have an execution that will settle them, or that
\* ended in one of the ways that leave them.
AnswersForReply(e) ==
  (Holding(e) /\ Agent(e).exchange = e) \/ Raising(e) \/ LeftStreaming(e)
AnswersForLease(e) == Holding(e) \/ Raising(e) \/ LeaseLeft(e)
RepliesHaveExecutions ==
  /\ \A e \in Executions : row[e].status = "streaming" => AnswersForReply(e)
  /\ lease[1] = Run => \E e \in Executions : AnswersForLease(e)

\* While executions follow one another, an exchange is stored until it is withdrawn for
\* a confirmation, and complete from the last node on.
SoloIsStored ==
  solo =>
    /\ ckpt.next \in Late =>
         \/ Stored(ckpt.agent.exchange)
         \/ ckpt.next = "finalize_conversation" /\ ckpt.agent.response = "confirmation_required"
    /\ ckpt.next = "end" /\ ckpt.agent.response # "confirmation_required" =>
         row[ckpt.agent.exchange].status = "complete"
    /\ \A e \in Executions : exec[e].pc = "put" =>
         /\ exec[e].node \in Late => Stored(Agent(e).exchange)
         /\ exec[e].node = "end" /\ Agent(e).response # "confirmation_required" =>
              row[Agent(e).exchange].status = "complete"

RunInvariant ==
  /\ TypeOK /\ OneConversation /\ ExchangesCounted /\ ExecutionsFit /\ SoloInStep
  /\ UnknownIsPending /\ RepliesHaveExecutions /\ SoloIsStored
-----------------------------------------------------------------------------
(* Executions. *)

ExecType == [pc : {"none", "accepted", "node", "writing", "raising", "put", "ended", "broken"},
             node : Nodes \cup {"none", "end"}, agent : AgentType,
             kind : {"new", "resume", "retry"}, asked : BOOLEAN]

LEMMA AgentTyped ==
  ASSUME TypeOK, NEW e \in Executions
  PROVE  /\ exec[e] \in ExecType /\ Agent(e) \in AgentType /\ exec \in [Executions -> ExecType]
         /\ Agent(e).calls \in Nat /\ Agent(e).iteration \in 0 .. MaxIterations
  BY DEF TypeOK, ExecType, Agent, AgentType

LEMMA NewAgentTyped ==
  \A approved \in BOOLEAN : NewAgent(approved) \in AgentType /\ NotStarted \in ExecType
  BY AgentAssumption DEF NewAgent, NotStarted, AgentType, ExecType, Nodes, None

LEMMA GotoIs ==
  ASSUME TypeOK, NEW e \in Executions, NEW node, NEW agent, Goto(e, node, agent)
  PROVE  /\ exec'[e].pc = "put" /\ exec'[e].node = node /\ exec'[e].agent = agent
         /\ \A f \in Executions \ {e} : exec'[f] = exec[f]
         /\ node \in Nodes \cup {"end"} /\ agent \in AgentType => exec' \in [Executions -> ExecType]
  <1>1. exec[e] \in ExecType /\ exec \in [Executions -> ExecType]
    BY AgentTyped
  <1> DEFINE x == [exec[e] EXCEPT !.pc = "put", !.node = node, !.agent = agent]
  <1>2. exec' = [exec EXCEPT ![e] = x]
    BY <1>1 DEF Goto
  <1>3. /\ x.pc = "put" /\ x.node = node /\ x.agent = agent
        /\ node \in Nodes \cup {"end"} /\ agent \in AgentType => x \in ExecType
    BY <1>1 DEF ExecType
  <1> HIDE DEF x
  <1> QED
    BY <1>1, <1>2, <1>3

LEMMA EndIs ==
  ASSUME TypeOK, NEW e \in Executions, End(e)
  PROVE  /\ exec' = [exec EXCEPT ![e] = Ended(exec[e].node)]
         /\ exec'[e].pc = "ended" /\ exec'[e].node = exec[e].node /\ exec'[e] \in ExecType
  BY AgentTyped, NewAgentTyped DEF End, Ended, NotStarted, ExecType

LEMMA BreakIs ==
  ASSUME TypeOK, NEW e \in Executions, Break(e)
  PROVE  /\ exec'[e].pc = "broken" /\ exec'[e].node = exec[e].node
         /\ \A f \in Executions \ {e} : exec'[f] = exec[f]
         /\ exec' \in [Executions -> ExecType]
  <1> DEFINE x == [Ended(exec[e].node) EXCEPT !.pc = "broken"]
  <1>1. exec[e] \in ExecType /\ exec \in [Executions -> ExecType]
    BY AgentTyped
  <1>2. x \in ExecType /\ x.pc = "broken" /\ x.node = exec[e].node
    BY <1>1, NewAgentTyped DEF Ended, NotStarted, ExecType
  <1>3. exec' = [exec EXCEPT ![e] = x]
    BY DEF Break
  <1> HIDE DEF x
  <1> QED
    BY <1>1, <1>2, <1>3

\* An execution that has nothing to say to the store goes one node on, ...
Moves(e) ==
  /\ exec[e].pc \in {"node", "writing"}
  /\ \E node \in Nodes, agent \in AgentType :
       /\ Goto(e, node, agent)
       /\ \/ exec[e].node = "resolve_context" /\ node = "prepare_conversation"
          \/ /\ exec[e].node \in Late \ {"finalize_conversation"} /\ node \in Late
             /\ agent.exchange = Agent(e).exchange
       /\ node = "decide_react" => agent.iteration < MaxIterations
  /\ Stay
\* ... or ends where nothing is to be settled or nothing settles it, ...
EndsUnsettled(e) ==
  /\ exec[e].pc = "node" /\ exec[e].node \in {"resolve_context", "run_collaboration"}
  /\ End(e) /\ Stay
\* ... or ends with its exchange in error.
Aborts(e) ==
  exec[e].pc \in {"node", "writing"} /\ exec[e].node \in Late /\ Abort(e)

LEMMA SameAnswers ==
  ASSUME NEW f \in Executions, exec'[f] = exec[f]
  PROVE  /\ AnswersForReply(f)' <=> AnswersForReply(f)
         /\ AnswersForLease(f)' <=> AnswersForLease(f)
  BY DEF AnswersForReply, AnswersForLease, Holding, Raising, LeftStreaming, LeaseLeft, Running,
         Agent

\* An execution that is alive answers by what it holds, ...
LEMMA LiveAnswers ==
  ASSUME NEW e \in Executions, Live(e), exec[e].pc # "raising"
  PROVE  /\ AnswersForReply(e) <=> (Holding(e) /\ Agent(e).exchange = e)
         /\ AnswersForLease(e) <=> Holding(e)
  BY DEF AnswersForReply, AnswersForLease, Raising, LeftStreaming, LeaseLeft, Live

LEMMA NodeNames ==
  /\ Late = {"run_collaboration", "route_request", "execute_direct", "start_react",
             "decide_react", "execute_react_tool", "finalize_react", "finalize_conversation"}
  /\ Late \subseteq Nodes /\ Early \subseteq Nodes
  /\ "end" \notin Nodes /\ "none" \notin Nodes
  BY DEF Late, Early, Nodes

\* A state with one of its fields changed, in each of the ways the nodes change it.
LEMMA AgentFields ==
  ASSUME NEW agent \in AgentType
  PROVE  /\ \A r \in {"completed", "confirmation_required"} :
              /\ [agent EXCEPT !.response = r] \in AgentType
              /\ [agent EXCEPT !.response = r].exchange = agent.exchange
              /\ [agent EXCEPT !.response = r].iteration = agent.iteration
         /\ \A x \in Tools \cup {"none", "answer", "complex", "final"} :
              /\ [agent EXCEPT !.action = x] \in AgentType
              /\ [agent EXCEPT !.action = x].exchange = agent.exchange
         /\ \A x \in Tools \cup {"none", "final"}, i \in 0 .. MaxIterations :
              /\ [agent EXCEPT !.action = x, !.iteration = i] \in AgentType
              /\ [agent EXCEPT !.action = x, !.iteration = i].exchange = agent.exchange
              /\ [agent EXCEPT !.action = x, !.iteration = i].iteration = i
         /\ \A n \in Nat, b \in BOOLEAN :
              /\ [agent EXCEPT !.calls = n, !.results = b] \in AgentType
              /\ [agent EXCEPT !.calls = n, !.results = b].exchange = agent.exchange
  <1>1. \A r \in {"completed", "confirmation_required"} :
          /\ [agent EXCEPT !.response = r] \in AgentType
          /\ [agent EXCEPT !.response = r].exchange = agent.exchange
          /\ [agent EXCEPT !.response = r].iteration = agent.iteration
    BY DEF AgentType
  <1>2. \A x \in Tools \cup {"none", "answer", "complex", "final"} :
          /\ [agent EXCEPT !.action = x] \in AgentType
          /\ [agent EXCEPT !.action = x].exchange = agent.exchange
    BY DEF AgentType, Tools
  <1>3. \A x \in Tools \cup {"none", "final"}, i \in 0 .. MaxIterations :
          /\ [agent EXCEPT !.action = x, !.iteration = i] \in AgentType
          /\ [agent EXCEPT !.action = x, !.iteration = i].exchange = agent.exchange
          /\ [agent EXCEPT !.action = x, !.iteration = i].iteration = i
    BY DEF AgentType, Tools
  <1>4. \A n \in Nat, b \in BOOLEAN :
          /\ [agent EXCEPT !.calls = n, !.results = b] \in AgentType
          /\ [agent EXCEPT !.calls = n, !.results = b].exchange = agent.exchange
    BY DEF AgentType
  <1> QED
    BY <1>1, <1>2, <1>3, <1>4

LEMMA CalledTyped ==
  ASSUME NEW agent \in AgentType, NEW got \in BOOLEAN
  PROVE  Called(agent, got) \in AgentType /\ Called(agent, got).exchange = agent.exchange
  <1>1. (agent.results \/ got) \in BOOLEAN /\ agent.calls + 1 \in Nat
    BY DEF AgentType
  <1>2. Called(agent, got) =
          [agent EXCEPT !.calls = agent.calls + 1, !.results = agent.results \/ got]
    BY DEF Called
  <1> DEFINE results == agent.results \/ got
  <1> HIDE DEF results
  <1>3. [agent EXCEPT !.calls = agent.calls + 1, !.results = results] \in AgentType
        /\ [agent EXCEPT !.calls = agent.calls + 1, !.results = results].exchange = agent.exchange
    <2> DEFINE n == agent.calls + 1
    <2>1. n \in Nat /\ results \in BOOLEAN
      BY <1>1 DEF results
    <2> HIDE DEF n
    <2>2. [agent EXCEPT !.calls = n, !.results = results] \in AgentType
          /\ [agent EXCEPT !.calls = n, !.results = results].exchange = agent.exchange
      BY <2>1, AgentFields
    <2> QED
      BY <2>2 DEF n
  <1> QED
    BY <1>2, <1>3 DEF results

LEMMA AnsweredMoves ==
  ASSUME RunInvariant, NEW e \in Executions, exec[e].pc \in {"node", "writing"},
         exec[e].node \in {"execute_direct", "execute_react_tool"}, Answered(e), Stay
  PROVE  Moves(e)
  <1> DEFINE agent == Called(Agent(e), TRUE)
  <1>1. /\ agent \in AgentType /\ agent.exchange = Agent(e).exchange
        /\ [agent EXCEPT !.response = "completed"] \in AgentType
        /\ [agent EXCEPT !.response = "completed"].exchange = Agent(e).exchange
    BY AgentTyped, CalledTyped, AgentFields DEF RunInvariant
  <1> HIDE DEF agent
  <1>2. CASE exec[e].node = "execute_direct"
    <2>1. Goto(e, "finalize_conversation", [agent EXCEPT !.response = "completed"])
      BY <1>2 DEF Answered, agent
    <2> QED
      BY <1>1, <1>2, <2>1, NodeNames DEF Moves
  <1>3. CASE exec[e].node = "execute_react_tool"
    <2>1. \E node \in {"finalize_conversation", "finalize_react", "decide_react"} :
            Goto(e, node, agent) /\ (node = "decide_react" => agent.iteration < MaxIterations)
      BY <1>3 DEF Answered, AfterTool, agent
    <2> QED
      BY <1>1, <1>3, <2>1, NodeNames DEF Moves
  <1> QED
    BY <1>2, <1>3

\* The steps between the first and the last node.
InnerStep(e) ==
  \/ ResolveContext(e) \/ RunCollaboration(e) \/ RouteRequest(e) \/ CallLimit(e) \/ Answer(e)
  \/ Read(e) \/ AskConfirmation(e) \/ EndWrite(e) \/ ToolFails(e) \/ StartReact(e)
  \/ DecideReact(e) \/ FinalizeReact(e)

LEMMA InnerKinds ==
  ASSUME RunInvariant, NEW e \in Executions, InnerStep(e)
  PROVE  Moves(e) \/ EndsUnsettled(e) \/ Aborts(e)
  <1> DEFINE a == Agent(e)
  <1>0. a \in AgentType /\ TypeOK
    BY AgentTyped DEF RunInvariant
  <1> HIDE DEF a
  <1>1. ASSUME ResolveContext(e) PROVE Moves(e) \/ EndsUnsettled(e)
    BY <1>0, <1>1, NodeNames DEF ResolveContext, At, Moves, EndsUnsettled, a, Early
  <1>2. ASSUME RunCollaboration(e) PROVE Moves(e) \/ EndsUnsettled(e)
    <2>1. /\ [a EXCEPT !.delivered = FALSE] \in AgentType
          /\ [a EXCEPT !.delivered = TRUE, !.response = "completed"] \in AgentType
          /\ [a EXCEPT !.delivered = FALSE].exchange = a.exchange
          /\ [a EXCEPT !.delivered = TRUE, !.response = "completed"].exchange = a.exchange
      BY <1>0 DEF AgentType
    <2> QED
      BY <1>0, <1>2, <2>1, NodeNames DEF RunCollaboration, At, Moves, EndsUnsettled, a
  <1>3. ASSUME RouteRequest(e) PROVE Moves(e) \/ Aborts(e)
    <2>1. \A action \in Tools \cup {"answer", "complex"} :
            /\ [a EXCEPT !.action = action] \in AgentType
            /\ [a EXCEPT !.action = action].exchange = a.exchange
      BY <1>0 DEF AgentType
    <2> QED
      BY <1>0, <1>3, <2>1, NodeNames DEF RouteRequest, At, Moves, Aborts, a
  <1>4. ASSUME CallLimit(e) PROVE Moves(e)
    BY <1>0, <1>4, NodeNames DEF CallLimit, At, Moves, a
  <1>5. ASSUME Answer(e) PROVE Moves(e)
    <2>1. [a EXCEPT !.response = "completed"] \in AgentType
          /\ [a EXCEPT !.response = "completed"].exchange = a.exchange
      BY <1>0 DEF AgentType
    <2> QED
      BY <1>0, <1>5, <2>1, NodeNames DEF Answer, At, Moves, a
  <1>6. ASSUME Read(e) PROVE Moves(e)
    BY <1>6, AnsweredMoves DEF Read, AtTool, At
  <1>7. ASSUME AskConfirmation(e) PROVE Moves(e)
    <2> DEFINE b == [Called(a, FALSE) EXCEPT !.response = "confirmation_required"]
    <2>1. b \in AgentType /\ b.exchange = a.exchange
      BY <1>0, CalledTyped, AgentFields
    <2>2. Goto(e, "finalize_conversation", b) /\ Stay /\ exec[e].pc = "node"
          /\ exec[e].node \in {"execute_direct", "execute_react_tool"}
      BY <1>7 DEF AskConfirmation, AtTool, At, a
    <2> HIDE DEF b
    <2> QED
      BY <2>1, <2>2, NodeNames DEF Moves, a
  <1>8. ASSUME EndWrite(e) PROVE Moves(e) \/ Aborts(e)
    <2>1. exec[e].pc = "writing" /\ exec[e].node \in {"execute_direct", "execute_react_tool"}
      BY <1>8 DEF EndWrite, RunInvariant, ExecutionsFit
    <2> QED
      BY <1>8, <2>1, AnsweredMoves, NodeNames DEF EndWrite, Aborts
  <1>9. ASSUME ToolFails(e) PROVE Aborts(e)
    BY <1>9, NodeNames DEF ToolFails, At, Aborts
  <1>10. ASSUME StartReact(e) PROVE Moves(e)
    <2> DEFINE b == [a EXCEPT !.action = "none", !.iteration = 0]
    <2>0. 0 \in 0 .. MaxIterations /\ 0 < MaxIterations
      BY AgentAssumption
    <2>1. b \in AgentType /\ b.exchange = a.exchange /\ b.iteration < MaxIterations
      BY <1>0, <2>0 DEF AgentType
    <2>2. Goto(e, "decide_react", b) /\ Stay /\ exec[e].pc = "node" /\ exec[e].node = "start_react"
      BY <1>10 DEF StartReact, At, a
    <2> HIDE DEF b
    <2> QED
      BY <2>1, <2>2, NodeNames DEF Moves, a
  <1>11. ASSUME DecideReact(e) PROVE Moves(e) \/ Aborts(e)
    <2>1. exec[e].pc = "node" /\ exec[e].node = "decide_react"
      BY <1>11 DEF DecideReact, At
    <2>2. a.iteration < MaxIterations
      BY <2>1 DEF RunInvariant, ExecutionsFit, StateFits, Running, a
    <2> DEFINE i == a.iteration + 1
    <2>3. \A action \in Tools \cup {"final"} :
            /\ [a EXCEPT !.action = action, !.iteration = i] \in AgentType
            /\ [a EXCEPT !.action = action, !.iteration = i].exchange = a.exchange
      <3>1. Tools \cup {"final"} \subseteq Tools \cup {"none", "final"} /\ i \in 0 .. MaxIterations
        BY <1>0, <2>2, AgentAssumption DEF AgentType
      <3> HIDE DEF i
      <3> QED
        BY <1>0, <3>1 DEF AgentType, Tools
    <2>4. CASE Abort(e)
      BY <2>1, <2>4, NodeNames DEF Aborts
    <2>5. CASE ~Abort(e)
      <3>1. PICK action \in Tools \cup {"final"},
                 node \in {"finalize_react", "execute_react_tool"} :
              Goto(e, node, [a EXCEPT !.action = action, !.iteration = i])
        BY <1>11, <2>5 DEF DecideReact, a
      <3>2. Stay
        BY <1>11, <2>5 DEF DecideReact
      <3> HIDE DEF i
      <3> QED
        BY <2>1, <2>3, <3>1, <3>2, NodeNames DEF Moves, a
    <2> QED
      BY <2>4, <2>5
  <1>12. ASSUME FinalizeReact(e) PROVE Moves(e) \/ Aborts(e)
    <2>1. [a EXCEPT !.response = "completed"] \in AgentType
          /\ [a EXCEPT !.response = "completed"].exchange = a.exchange
      BY <1>0 DEF AgentType
    <2> QED
      BY <1>0, <1>12, <2>1, NodeNames DEF FinalizeReact, At, Moves, Aborts, a
  <1> QED
    BY <1>1, <1>2, <1>3, <1>4, <1>5, <1>6, <1>7, <1>8, <1>9, <1>10, <1>11, <1>12 DEF InnerStep

-----------------------------------------------------------------------------
(* The store and the registry of leases, with their one conversation. *)

LEMMA Ids ==
  /\ Executions \subseteq Requests /\ Other \in Requests \ Executions
  /\ Run # Other /\ Run # None /\ None \notin Requests /\ 1 \in Conversations
  /\ Run \in Executions /\ 1 \in Executions
  BY StoreAssumption, AgentAssumption DEF Executions, Requests, Other, Run, None, Conversations

StoreTyped ==
  /\ recent \in Seq(Conversations) /\ Len(recent) <= MaxConversations
  /\ created \in 0 .. MaxCreated /\ row \in [Requests -> RowType]

LEMMA NoRowTyped ==
  NoRow \in RowType /\ NoRow.status = "absent"
  BY StoreAssumption DEF NoRow, RowType, Texts, TerminalStatus

LEMMA RowTyped ==
  ASSUME TypeOK, NEW r \in Requests
  PROVE  row[r] \in RowType /\ row[r].pos \in 0 .. MaxRequests /\ StoreTyped
  BY DEF TypeOK, StoreTypeOK, StoreTyped, RowType

\* Touching the one conversation keeps the list within its limit.
LEMMA TouchOne ==
  ASSUME TypeOK, OneConversation
  PROVE  /\ Touched(recent, 1) \in Seq(Conversations)
         /\ Len(Touched(recent, 1)) <= MaxConversations /\ Len(Touched(recent, 1)) > 0
         /\ 1 \in ToSet(Touched(recent, 1))
         /\ Kept(Touched(recent, 1)) = Touched(recent, 1)
  <1>1. recent \in Seq(Conversations) /\ Len(recent) <= MaxConversations /\ 1 \in ToSet(recent)
    BY DEF TypeOK, StoreTypeOK, OneConversation
  <1>2. /\ Touched(recent, 1) \in Seq(Conversations)
        /\ ToSet(Touched(recent, 1)) = ToSet(recent) \cup {1}
        /\ Len(Touched(recent, 1)) = Len(recent)
    BY <1>1, Ids, TouchedType
  <1>3. Len(recent) > 0
    BY <1>1 DEF ToSet
  <1> QED
    BY <1>1, <1>2, <1>3, KeptType

LEMMA FinalizeStore ==
  ASSUME TypeOK, OneConversation, NEW r \in Requests, NEW status \in TerminalStatus,
         NEW text \in Texts, FinalizeMessage(r, status, text)
  PROVE  /\ StoreTyped' /\ OneConversation' /\ UNCHANGED begun
         /\ \A q \in Requests \ {r} : row'[q] = row[q]
         /\ row'[r].status = IF Stored(r) THEN status ELSE "absent"
  <1>1. row \in [Requests -> RowType] /\ row[r] \in RowType /\ StoreTyped
    BY RowTyped DEF TypeOK, StoreTypeOK
  <1>2. CASE ~Stored(r)
    <2>1. row' = row /\ recent' = recent /\ created' = created /\ begun' = begun
      BY <1>2 DEF FinalizeMessage
    <2> QED
      BY <1>1, <1>2, <2>1 DEF StoreTyped, OneConversation, Stored
  <1>3. CASE Stored(r)
    <2> DEFINE x == [row[r] EXCEPT !.status = status, !.content = text]
    <2>1. row' = [row EXCEPT ![r] = x] /\ recent' = Touched(recent, row[r].conv)
          /\ created' = created /\ begun' = begun /\ row[r].conv = 1
      BY <1>1, <1>3 DEF FinalizeMessage, OneConversation
    <2>2. x \in RowType /\ x.status = status /\ x.conv = 1
      BY <1>1, <2>1 DEF RowType
    <2> HIDE DEF x
    <2>3. /\ row' \in [Requests -> RowType] /\ row'[r] = x
          /\ \A q \in Requests \ {r} : row'[q] = row[q]
      BY <1>1, <2>1, <2>2
    <2>4. StoreTyped'
      BY <1>1, <2>1, <2>3, TouchOne DEF StoreTyped
    <2>5. OneConversation'
      BY <2>1, <2>2, <2>3, TouchOne DEF OneConversation, Stored
    <2> QED
      BY <1>3, <2>1, <2>2, <2>3, <2>4, <2>5
  <1> QED
    BY <1>2, <1>3

LEMMA BeginStore ==
  ASSUME TypeOK, OneConversation, NEW r \in Requests, BeginExchange(r, 1), begun < MaxRequests
  PROVE  /\ StoreTyped' /\ OneConversation' /\ begun' = begun + 1
         /\ \A q \in Requests \ {r} :
              row'[q].status = row[q].status /\ (Stored(q) => row'[q] = row[q])
         /\ row'[r].status = "streaming"
  <1>1. row \in [Requests -> RowType] /\ StoreTyped /\ begun \in Nat /\ Exists(1)
    BY RowTyped DEF TypeOK, StoreTypeOK, OneConversation, Exists
  <1> DEFINE x == [conv |-> 1, status |-> "streaming", content |-> "part", pos |-> begun + 1]
             kept == Touched(recent, 1)
             started == [row EXCEPT ![r] = x]
  <1>2. /\ created' = created /\ recent' = kept /\ begun' = begun + 1
        /\ row' = RowsOf(started, ToSet(kept))
    BY <1>1, TouchOne DEF BeginExchange, TargetOf
  <1>3. x \in RowType /\ x.conv = 1 /\ x.status = "streaming"
    <2>1. begun + 1 \in 0 .. MaxRequests
      BY <1>1, StoreAssumption
    <2> QED
      BY <2>1, Ids DEF RowType, Texts
  <1>4. 1 \in ToSet(kept) /\ kept \in Seq(Conversations) /\ Len(kept) <= MaxConversations
    BY TouchOne
  <1> HIDE DEF x, kept
  <1>5. /\ started[r] = x /\ \A q \in Requests \ {r} : started[q] = row[q]
        /\ started \in [Requests -> RowType]
    BY <1>1, <1>3
  <1> HIDE DEF started
  <1>6. \A q \in Requests : row'[q] = IF started[q].conv \in ToSet(kept) THEN started[q] ELSE NoRow
    BY <1>2 DEF RowsOf
  <1>7. row' \in [Requests -> RowType]
    BY <1>2, <1>5, NoRowTyped DEF RowsOf
  <1>8. \A q \in Requests \ {r} :
          row'[q].status = row[q].status /\ (Stored(q) => row'[q] = row[q])
    BY <1>4, <1>5, <1>6, NoRowTyped DEF OneConversation, Stored
  <1>9. row'[r] = x
    BY <1>3, <1>4, <1>5, <1>6
  <1>10. OneConversation'
    BY <1>2, <1>3, <1>4, <1>8, <1>9 DEF OneConversation, Stored
  <1>11. StoreTyped'
    BY <1>1, <1>2, <1>4, <1>7 DEF StoreTyped
  <1> QED
    BY <1>2, <1>3, <1>8, <1>9, <1>10, <1>11

LEMMA WithdrawStore ==
  ASSUME TypeOK, OneConversation, NEW r \in Requests, WithdrawExchange(r)
  PROVE  /\ StoreTyped' /\ OneConversation' /\ UNCHANGED begun
         /\ \A q \in Requests : row'[q].status = "streaming" => row[q].status = "streaming"
         /\ row'[r].status # "streaming"
  <1>1. row \in [Requests -> RowType] /\ row[r] \in RowType /\ StoreTyped
    BY RowTyped DEF TypeOK, StoreTypeOK
  <1>2. recent' = recent /\ created' = created /\ begun' = begun
    BY DEF WithdrawExchange
  <1>3. /\ row' \in [Requests -> RowType] /\ row'[r].status # "streaming"
        /\ \A q \in Requests :
             /\ row'[q].status = "streaming" => row[q].status = "streaming"
             /\ row'[q].status # "absent" => row'[q].conv = row[q].conv /\ Stored(q)
    <2>1. CASE ~Stored(r)
      BY <1>1, <2>1 DEF WithdrawExchange, Stored
    <2>2. CASE Stored(r)
      <3>1. row' = RewoundRows(1, r) /\ row[r].conv = 1
        BY <2>2 DEF WithdrawExchange, OneConversation
      <3>2. row[r].pos \in Nat
        BY RowTyped
      <3>3. \A q \in Requests : row'[q] \in {row[q], NoRow}
        BY <3>1 DEF RewoundRows
      <3>4. row' \in [Requests -> RowType]
        BY <1>1, <3>1, NoRowTyped DEF RewoundRows
      <3>5. row'[r] = NoRow
        BY <3>1, <3>2 DEF RewoundRows
      <3> QED
        BY <3>3, <3>4, <3>5, NoRowTyped DEF Stored
    <2> QED
      BY <2>1, <2>2
  <1>4. OneConversation'
    BY <1>2, <1>3 DEF OneConversation, Stored
  <1> QED
    BY <1>1, <1>2, <1>3, <1>4 DEF StoreTyped

LEMMA InitializeStore ==
  ASSUME TypeOK, OneConversation, Initialize
  PROVE  /\ StoreTyped' /\ OneConversation' /\ UNCHANGED begun
         /\ \A q \in Requests :
              /\ row'[q].status # "streaming"
              /\ row[q].status # "streaming" => row'[q] = row[q]
              /\ Stored(q) => row'[q].status # "absent"
  <1>1. row \in [Requests -> RowType] /\ StoreTyped
    BY Ids, RowTyped DEF TypeOK, StoreTypeOK
  <1>2. recent' = recent /\ created' = created /\ begun' = begun
    BY DEF Initialize
  <1>3. \A q \in Requests :
          /\ row'[q] \in RowType /\ row'[q].conv = row[q].conv
          /\ row'[q].status = IF row[q].status = "streaming" THEN "cancelled" ELSE row[q].status
          /\ row[q].status # "streaming" => row'[q] = row[q]
    BY <1>1 DEF Initialize, RowType, TerminalStatus
  <1>4. row' \in [Requests -> RowType]
    BY <1>3 DEF Initialize
  <1>5. OneConversation'
    BY <1>2, <1>3 DEF OneConversation, Stored
  <1> QED
    BY <1>1, <1>2, <1>3, <1>4, <1>5 DEF StoreTyped, Stored

LEMMA LeaseTyped ==
  ASSUME TypeOK
  PROVE  /\ lease \in [Conversations -> Requests \cup {None}]
         /\ \A r \in Requests :
              /\ ReleasedBy(1, r) \in [Conversations -> Requests \cup {None}]
              /\ ReleasedBy(1, r)[1] = IF lease[1] = r THEN None ELSE lease[1]
              /\ AcquireLease(1, r) => /\ lease' \in [Conversations -> Requests \cup {None}]
                                       /\ lease'[1] = r
  BY Ids DEF TypeOK, StoreTypeOK, ReleasedBy, AcquireLease

-----------------------------------------------------------------------------
(* Exchanges begun. *)

LEMMA BegunBound ==
  /\ Begun \subseteq Requests /\ IsFiniteSet(Begun) /\ Cardinality(Begun) <= MaxRequests
  <1>1. Begun \subseteq Requests
    BY Ids DEF Begun, Passed
  <1>2. IsFiniteSet(Requests) /\ Cardinality(Requests) = MaxRequests
    BY FS_Interval, StoreAssumption DEF Requests
  <1>3. IsFiniteSet(Begun) /\ Cardinality(Begun) <= Cardinality(Requests)
    BY <1>1, <1>2, FS_Subset
  <1> QED
    BY <1>1, <1>2, <1>3

LEMMA NothingBegun ==
  ASSUME ExchangesCounted, UNCHANGED begun, TypeOK, Begun \subseteq Begun'
  PROVE  ExchangesCounted'
  <1>1. IsFiniteSet(Begun') /\ IsFiniteSet(Begun)
    <2>1. Begun' \subseteq Requests
      BY Ids DEF Begun, Passed
    <2>2. IsFiniteSet(Requests)
      BY FS_Interval, StoreAssumption DEF Requests
    <2> QED
      BY <2>1, <2>2, FS_Subset, BegunBound
  <1>2. Cardinality(Begun) <= Cardinality(Begun') /\ Cardinality(Begun) \in Nat
        /\ Cardinality(Begun') \in Nat
    BY <1>1, FS_Subset, FS_CardinalityType
  <1>3. begun \in Nat
    BY DEF TypeOK, StoreTypeOK
  <1> QED
    BY <1>2, <1>3 DEF ExchangesCounted

LEMMA OneBegun ==
  ASSUME ExchangesCounted, TypeOK, NEW r \in Requests, r \notin Begun,
         Begun \cup {r} \subseteq Begun', begun' = begun + 1
  PROVE  ExchangesCounted' /\ begun < MaxRequests
  <1>1. Begun' \subseteq Requests
    BY Ids DEF Begun, Passed
  <1>2. IsFiniteSet(Requests) /\ Cardinality(Requests) = MaxRequests
    BY FS_Interval, StoreAssumption DEF Requests
  <1>3. IsFiniteSet(Begun') /\ Cardinality(Begun') <= MaxRequests /\ IsFiniteSet(Begun)
    BY <1>1, <1>2, FS_Subset, BegunBound
  <1>4. Cardinality(Begun \cup {r}) = Cardinality(Begun) + 1 /\ IsFiniteSet(Begun \cup {r})
    BY <1>3, FS_AddElement
  <1>5. Cardinality(Begun \cup {r}) <= Cardinality(Begun')
    BY <1>3, FS_Subset
  <1>6. Cardinality(Begun) \in Nat /\ Cardinality(Begun') \in Nat /\ begun \in Nat
    BY <1>3, FS_CardinalityType DEF TypeOK, StoreTypeOK
  <1> QED
    BY <1>3, <1>4, <1>5, <1>6, StoreAssumption DEF ExchangesCounted

-----------------------------------------------------------------------------
(* Requests, and the start of the graph. *)

\* A request may be accepted where it is the first, or where the checkpoint may be resumed.
LEMMA AcceptStep ==
  ASSUME RunInvariant, NEW e \in Executions, MayAsk(e), e = 1 \/ ~PendingWrite,
         NEW kind \in {"new", "resume", "retry"}, NEW approved \in BOOLEAN,
         NEW agent \in AgentType, Accept(e, kind, approved, agent)
  PROVE  RunInvariant'
  <1> DEFINE x == [exec[e] EXCEPT !.pc = "accepted", !.kind = kind, !.asked = approved,
                                  !.agent = agent]
  <1>0. TypeOK /\ exec[e] \in ExecType /\ exec \in [Executions -> ExecType]
        /\ exec[e].pc = "none" /\ exec[e].node = "resolve_context"
    BY AgentTyped DEF RunInvariant, ExecutionsFit, MayAsk
  <1>1. x \in ExecType /\ x.pc = "accepted" /\ x.node = "resolve_context"
    BY <1>0 DEF ExecType
  <1>2. exec' = [exec EXCEPT ![e] = x]
    BY <1>0 DEF Accept
  <1> HIDE DEF x
  <1>3. /\ exec' \in [Executions -> ExecType] /\ exec'[e] = x
        /\ \A f \in Executions \ {e} : exec'[f] = exec[f]
    BY <1>0, <1>1, <1>2
  <1>4. /\ recent' = recent /\ created' = created /\ row' = row /\ begun' = begun
        /\ lease' = lease /\ ckpt' = ckpt /\ recentRequest' = recentRequest
        /\ other' = other /\ restarts' = restarts /\ unknown' = unknown
        /\ solo' = (solo /\ ~\E f \in Executions : Live(f))
    BY DEF Accept, storeVars
  <1>5. solo' \in BOOLEAN /\ (solo' => solo /\ \A f \in Executions : ~Live(f))
    BY <1>4
  <1>6. TypeOK'
    BY <1>0, <1>3, <1>4, <1>5 DEF TypeOK, StoreTypeOK, ExecType
  <1>7. OneConversation'
    BY <1>4 DEF RunInvariant, OneConversation, Stored
  <1>8. ExchangesCounted'
    <2>1. Begun \subseteq Begun'
      BY <1>0, <1>3, <1>4 DEF Begun, Passed, Running
    <2> QED
      BY <1>0, <1>4, <2>1, NothingBegun DEF RunInvariant
  <1>9. ExecutionsFit'
    <2>1. exec'[1].pc # "none"
      BY <1>0, <1>1, <1>3, Ids DEF MayAsk, Executions
    <2>2. StateFits(ckpt.next, ckpt.agent)'
      BY <1>4 DEF RunInvariant, ExecutionsFit, StateFits
    <2>3. ASSUME NEW f \in Executions \ {e}
          PROVE  /\ exec[f].pc \in {"none", "accepted"} => exec[f].node = "resolve_context"
                 /\ exec[f].pc \in {"node", "writing"} => exec[f].node \in Nodes
                 /\ exec[f].pc = "put" => exec[f].node \in Nodes \cup {"end"}
                 /\ exec[f].pc = "raising" => exec[f].node = "prepare_conversation"
                 /\ Running(f) => StateFits(exec[f].node, Agent(f))
                 /\ exec[f].pc = "writing" =>
                      /\ exec[f].node \in {"execute_direct", "execute_react_tool"}
                      /\ Agent(f).action = "write"
      BY DEF RunInvariant, ExecutionsFit
    <2> QED
      BY <1>1, <1>3, <2>1, <2>2, <2>3 DEF ExecutionsFit, Running, StateFits, Agent
  <1>10. SoloInStep'
    BY <1>1, <1>3, <1>4, <1>5 DEF SoloInStep, Live
  <1>11. UnknownIsPending'
    <2>1. ~(solo' /\ unknown)
      BY <1>0, <1>4, <1>5 DEF RunInvariant, UnknownIsPending
    <2> QED
      BY <1>4, <2>1 DEF UnknownIsPending
  <1>12. RepliesHaveExecutions'
    <2>1. ~AnswersForReply(e) /\ ~AnswersForLease(e)
      BY <1>0 DEF AnswersForReply, AnswersForLease, Holding, Running, Raising, LeftStreaming, LeaseLeft
    <2> QED
      BY <1>3, <1>4, <2>1, SameAnswers, Ids DEF RunInvariant, RepliesHaveExecutions
  <1>13. SoloIsStored'
    BY <1>1, <1>3, <1>4, <1>5 DEF RunInvariant, SoloIsStored, Stored, Agent
  <1> QED
    BY <1>6, <1>7, <1>8, <1>9, <1>10, <1>11, <1>12, <1>13 DEF RunInvariant

LEMMA RequestStep ==
  ASSUME RunInvariant, NEW e \in Executions,
         \/ \E approved \in BOOLEAN : StartRun(e, approved)
         \/ \E approved \in Approvals : ResumeRun(e, approved)
         \/ RetryTask(e)
  PROVE  RunInvariant'
  <1>1. CASE \E approved \in BOOLEAN : StartRun(e, approved)
    BY <1>1, AcceptStep, NewAgentTyped DEF StartRun
  <1>2. CASE \E approved \in Approvals : ResumeRun(e, approved)
    <2>1. PICK approved \in BOOLEAN : ResumeRun(e, approved)
      BY <1>2, AgentAssumption
    <2>2. [ckpt.agent EXCEPT !.approved = approved] \in AgentType
      BY DEF RunInvariant, TypeOK, AgentType
    <2> QED
      BY <2>1, <2>2, AcceptStep DEF ResumeRun, Restorable
  <1>3. CASE RetryTask(e)
    <2>1. [ckpt.agent EXCEPT !.approved = FALSE, !.exchange = None] \in AgentType
      BY DEF RunInvariant, TypeOK, AgentType
    <2> QED
      BY <1>3, <2>1, AcceptStep DEF RetryTask, Restorable
  <1> QED
    BY <1>1, <1>2, <1>3

\* What a step that leaves the store and the bookkeeping alone must keep.
LEMMA InnerInvariant ==
  ASSUME RunInvariant, NEW e \in Executions, Live(e),
         UNCHANGED <<recent, created, row, begun, lease, recentRequest, other, restarts,
                     solo, unknown>>,
         ckpt' \in [next : Nodes \cup {"none", "end"}, agent : AgentType],
         exec' \in [Executions -> ExecType],
         \A f \in Executions \ {e} : exec'[f] = exec[f],
         StateFits(ckpt.next, ckpt.agent)',
         exec'[e].pc # "none" /\ exec'[e].pc # "accepted",
         exec'[e].pc \in {"node", "writing"} => exec'[e].node \in Nodes,
         exec'[e].pc = "put" => exec'[e].node \in Nodes \cup {"end"},
         Running(e)' => StateFits(exec[e].node, Agent(e))',
         exec'[e].pc = "writing" =>
           exec'[e].node \in {"execute_direct", "execute_react_tool"} /\ exec'[e].agent.action = "write",
         solo /\ exec'[e].pc \in {"node", "writing"} =>
           ckpt'.next = exec'[e].node /\ ckpt'.agent = exec'[e].agent,
         solo /\ exec'[e].pc = "put" => ckpt'.next \in Nodes,
         e \in Passed => e \in Passed',
         exec[e].pc # "raising" /\ exec'[e].pc # "raising",
         Holding(e) =>
           \/ LeftStreaming(e)' /\ LeaseLeft(e)'
           \/ Holding(e)' /\ (Agent(e).exchange = e => exec'[e].agent.exchange = e),
         SoloIsStored'
  PROVE  RunInvariant'
  <1>0. TypeOK /\ ~(solo /\ unknown)
    BY DEF RunInvariant, UnknownIsPending
  <1>1. TypeOK'
    BY DEF RunInvariant, TypeOK, StoreTypeOK, ExecType
  <1>2. OneConversation'
    BY DEF RunInvariant, OneConversation, Stored
  <1>3. ExchangesCounted'
    <2>1. Begun \subseteq Begun'
      BY DEF Begun, Passed, Running
    <2> QED
      BY <1>0, <2>1, NothingBegun DEF RunInvariant
  <1>4. ExecutionsFit'
    <2>1. exec'[1].pc # "none" \/ \A f \in Executions : exec'[f].pc = "none"
      BY Ids DEF RunInvariant, ExecutionsFit, Live
    <2>2. ASSUME NEW f \in Executions \ {e}
          PROVE  /\ exec[f].pc \in {"none", "accepted"} => exec[f].node = "resolve_context"
                 /\ exec[f].pc \in {"node", "writing"} => exec[f].node \in Nodes
                 /\ exec[f].pc = "put" => exec[f].node \in Nodes \cup {"end"}
                 /\ exec[f].pc = "raising" => exec[f].node = "prepare_conversation"
                 /\ Running(f) => StateFits(exec[f].node, Agent(f))
                 /\ exec[f].pc = "writing" =>
                      /\ exec[f].node \in {"execute_direct", "execute_react_tool"}
                      /\ Agent(f).action = "write"
      BY DEF RunInvariant, ExecutionsFit
    <2> QED
      BY <2>1, <2>2 DEF ExecutionsFit, Running, StateFits, Agent
  <1>5. SoloInStep'
    <2>1. ASSUME solo, NEW f \in Executions, Live(f) PROVE f = e
      BY <2>1 DEF RunInvariant, SoloInStep
    <2>2. ASSUME solo, NEW f \in Executions, Live(f)' PROVE f = e
      BY <2>1, <2>2 DEF Live
    <2> QED
      BY <2>2 DEF SoloInStep, Live, Agent
  <1>6. UnknownIsPending'
    BY <1>0 DEF UnknownIsPending
  <1>7. RepliesHaveExecutions'
    <2>1. /\ AnswersForReply(e) => AnswersForReply(e)'
          /\ AnswersForLease(e) => AnswersForLease(e)'
      BY LiveAnswers DEF AnswersForReply, AnswersForLease, Agent
    <2>2. \A f \in Executions \ {e} :
            /\ AnswersForReply(f)' <=> AnswersForReply(f)
            /\ AnswersForLease(f)' <=> AnswersForLease(f)
      BY SameAnswers
    <2>3. \A f \in Executions : row'[f].status = "streaming" => AnswersForReply(f)'
      BY <2>1, <2>2 DEF RunInvariant, RepliesHaveExecutions
    <2>4. lease'[1] = Run => \E f \in Executions : AnswersForLease(f)'
      BY <2>1, <2>2 DEF RunInvariant, RepliesHaveExecutions
    <2> QED
      BY <2>3, <2>4 DEF RepliesHaveExecutions
  <1> QED
    BY <1>1, <1>2, <1>3, <1>4, <1>5, <1>6, <1>7 DEF RunInvariant

LEMMA StartGraphStep ==
  ASSUME RunInvariant, NEW e \in Executions, StartGraph(e)
  PROVE  RunInvariant'
  <1>0. /\ TypeOK /\ exec[e] \in ExecType /\ exec \in [Executions -> ExecType]
        /\ Agent(e) \in AgentType /\ exec[e].pc = "accepted" /\ exec[e].node = "resolve_context"
        /\ Live(e) /\ ~Holding(e) /\ e \notin Passed
        /\ ckpt \in [next : Nodes \cup {"none", "end"}, agent : AgentType]
    BY AgentTyped
       DEF RunInvariant, ExecutionsFit, StartGraph, Live, Holding, Running, Passed, TypeOK
  <1>1. UNCHANGED <<recent, created, row, begun, lease, recentRequest, other, restarts,
                    solo, unknown>>
    BY DEF StartGraph, storeVars
  <1>2. solo => \A f \in Executions \ {e} : exec[f].pc # "put"
    BY <1>0 DEF RunInvariant, SoloInStep, Live
  <1>3. StateFits(ckpt.next, ckpt.agent)
    BY DEF RunInvariant, ExecutionsFit
  <1>4. ASSUME exec[e].kind # "resume",
               exec' = [exec EXCEPT ![e].pc = "node"],
               ckpt' = [next |-> "resolve_context", agent |-> Agent(e)]
        PROVE  RunInvariant'
    <2> DEFINE x == [exec[e] EXCEPT !.pc = "node"]
    <2>1. x \in ExecType /\ x.pc = "node" /\ x.node = "resolve_context" /\ x.agent = Agent(e)
      BY <1>0 DEF ExecType, Agent
    <2>2. exec' = [exec EXCEPT ![e] = x]
      BY <1>0, <1>4
    <2> HIDE DEF x
    <2>3. /\ exec' \in [Executions -> ExecType] /\ exec'[e] = x
          /\ \A f \in Executions \ {e} : exec'[f] = exec[f]
      BY <1>0, <2>1, <2>2
    <2>4. "resolve_context" \in Nodes /\ "resolve_context" \notin Late \cup {"end"}
          /\ ckpt' \in [next : Nodes \cup {"none", "end"}, agent : AgentType]
          /\ ckpt'.next = "resolve_context" /\ ckpt'.agent = Agent(e)
      BY <1>0, <1>4 DEF Nodes, Late, Early
    <2>5. StateFits("resolve_context", Agent(e))
      BY <2>4 DEF StateFits
    <2>6. SoloIsStored'
      BY <1>1, <1>2, <2>1, <2>3, <2>4 DEF SoloIsStored
    <2>7. StateFits(ckpt.next, ckpt.agent)' /\ StateFits(exec[e].node, Agent(e))'
      BY <2>1, <2>3, <2>4, <2>5 DEF StateFits, Agent
    <2> QED
      BY <1>0, <1>1, <2>1, <2>3, <2>4, <2>6, <2>7, InnerInvariant
  <1>5. ASSUME Restorable, ckpt.next # "end", ckpt' = ckpt,
               exec' = [exec EXCEPT ![e] = [@ EXCEPT !.pc = "node", !.node = ckpt.next,
                                                     !.agent = ckpt.agent]]
        PROVE  RunInvariant'
    <2> DEFINE x == [exec[e] EXCEPT !.pc = "node", !.node = ckpt.next, !.agent = ckpt.agent]
    <2>0. ckpt.next \in Nodes
      BY <1>0, <1>5 DEF Restorable
    <2>1. x \in ExecType /\ x.pc = "node" /\ x.node = ckpt.next /\ x.agent = ckpt.agent
      BY <1>0, <2>0 DEF ExecType
    <2>2. exec' = [exec EXCEPT ![e] = x]
      BY <1>0, <1>5
    <2> HIDE DEF x
    <2>3. /\ exec' \in [Executions -> ExecType] /\ exec'[e] = x
          /\ \A f \in Executions \ {e} : exec'[f] = exec[f]
      BY <1>0, <2>1, <2>2
    <2>4. SoloIsStored'
      BY <1>1, <1>2, <1>5, <2>1, <2>3 DEF RunInvariant, SoloIsStored, Stored
    <2>5. StateFits(ckpt.next, ckpt.agent)' /\ StateFits(exec[e].node, Agent(e))'
      BY <1>3, <1>5, <2>1, <2>3 DEF StateFits, Agent
    <2> QED
      BY <1>0, <1>1, <1>5, <2>0, <2>1, <2>3, <2>4, <2>5, InnerInvariant
  <1>6. ASSUME NEW node \in {"end", "resolve_context"}, ckpt' = ckpt,
               exec' = [exec EXCEPT ![e] = Ended(node)]
        PROVE  RunInvariant'
    <2>1. Ended(node) \in ExecType /\ Ended(node).pc = "ended"
      BY NewAgentTyped DEF Ended, NotStarted, ExecType, Nodes
    <2>2. /\ exec' \in [Executions -> ExecType] /\ exec'[e] = Ended(node)
          /\ \A f \in Executions \ {e} : exec'[f] = exec[f]
      BY <1>0, <1>6, <2>1
    <2>3. SoloIsStored'
      BY <1>1, <1>2, <1>6, <2>1, <2>2 DEF RunInvariant, SoloIsStored, Stored
    <2>4. StateFits(ckpt.next, ckpt.agent)' /\ ~Running(e)'
      BY <1>3, <1>6, <2>1, <2>2 DEF StateFits, Running
    <2> QED
      BY <1>0, <1>1, <1>6, <2>1, <2>2, <2>3, <2>4, InnerInvariant
  <1>7. CASE exec[e].kind # "resume" /\ exec' = [exec EXCEPT ![e].pc = "node"]
             /\ ckpt' = [next |-> "resolve_context", agent |-> Agent(e)]
    BY <1>4, <1>7
  <1>8. CASE /\ Restorable /\ UNCHANGED ckpt
             /\ exec' = [exec EXCEPT ![e] =
                           IF ckpt.next = "end" THEN Ended("end")
                             ELSE [@ EXCEPT !.pc = "node", !.node = ckpt.next,
                                            !.agent = ckpt.agent]]
    <2>1. CASE ckpt.next = "end"
      BY <1>6, <1>8, <2>1
    <2>2. CASE ckpt.next # "end"
      BY <1>5, <1>8, <2>2
    <2> QED
      BY <2>1, <2>2
  <1>9. CASE End(e) /\ UNCHANGED ckpt
    BY <1>0, <1>6, <1>9 DEF End
  <1> QED
    BY <1>7, <1>8, <1>9 DEF StartGraph

-----------------------------------------------------------------------------
(* Steps that leave the store alone. *)

LEMMA MovesStep ==
  ASSUME RunInvariant, NEW e \in Executions, Moves(e)
  PROVE  RunInvariant'
  <1>0. /\ TypeOK /\ exec[e] \in ExecType /\ exec \in [Executions -> ExecType]
        /\ Running(e) /\ exec[e].pc \in {"node", "writing"} /\ Live(e)
        /\ StateFits(exec[e].node, Agent(e)) /\ exec[e].node \in Nodes
        /\ ckpt \in [next : Nodes \cup {"none", "end"}, agent : AgentType]
    BY AgentTyped DEF RunInvariant, ExecutionsFit, Moves, Live, Running, TypeOK
  <1>1. PICK node \in Nodes, agent \in AgentType :
          /\ Goto(e, node, agent)
          /\ \/ exec[e].node = "resolve_context" /\ node = "prepare_conversation"
             \/ /\ exec[e].node \in Late \ {"finalize_conversation"} /\ node \in Late
                /\ agent.exchange = Agent(e).exchange
          /\ node = "decide_react" => agent.iteration < MaxIterations
    BY DEF Moves
  <1>2. UNCHANGED <<recent, created, row, begun, lease, recentRequest, other, restarts,
                    solo, unknown>> /\ ckpt' = ckpt
    BY DEF Moves, Stay, Quiet, storeVars
  <1>3. /\ exec'[e].pc = "put" /\ exec'[e].node = node /\ exec'[e].agent = agent
        /\ \A f \in Executions \ {e} : exec'[f] = exec[f]
        /\ exec' \in [Executions -> ExecType]
    BY <1>0, <1>1, GotoIs
  <1>4. StateFits(ckpt.next, ckpt.agent)'
    BY <1>2 DEF RunInvariant, ExecutionsFit, StateFits
  <1>5. StateFits(exec[e].node, Agent(e))'
    BY <1>0, <1>1, <1>3, NodeNames DEF StateFits, Agent
  <1>6. solo => ckpt.next = exec[e].node /\ ckpt.agent = Agent(e)
    BY <1>0 DEF RunInvariant, SoloInStep
  <1>7. SoloIsStored'
    <2>1. solo => \A f \in Executions \ {e} : exec[f].pc # "put"
      BY <1>0 DEF RunInvariant, SoloInStep, Live
    <2>2. solo /\ node \in Late => Stored(agent.exchange)
      BY <1>1, <1>6, NodeNames DEF RunInvariant, SoloIsStored
    <2> QED
      BY <1>1, <1>2, <1>3, <2>1, <2>2, NodeNames DEF RunInvariant, SoloIsStored, Stored, Agent
  <1>8. (e \in Passed => e \in Passed') /\ (Holding(e) => Holding(e)' /\ agent.exchange = Agent(e).exchange)
    BY <1>0, <1>1, <1>3, NodeNames DEF Passed, Running, Holding, Late
  <1> QED
    BY <1>0, <1>2, <1>3, <1>4, <1>5, <1>6, <1>7, <1>8, InnerInvariant

LEMMA EndsUnsettledStep ==
  ASSUME RunInvariant, NEW e \in Executions, EndsUnsettled(e)
  PROVE  RunInvariant'
  <1>0. /\ TypeOK /\ exec[e] \in ExecType /\ exec \in [Executions -> ExecType]
        /\ Running(e) /\ exec[e].pc = "node" /\ Live(e)
        /\ ckpt \in [next : Nodes \cup {"none", "end"}, agent : AgentType]
    BY AgentTyped DEF RunInvariant, EndsUnsettled, Live, Running, TypeOK
  <1>1. UNCHANGED <<recent, created, row, begun, lease, recentRequest, other, restarts,
                    solo, unknown>> /\ ckpt' = ckpt
    BY DEF EndsUnsettled, Stay, Quiet, storeVars
  <1>2. /\ exec' = [exec EXCEPT ![e] = Ended(exec[e].node)]
        /\ exec'[e].pc = "ended" /\ exec'[e].node = exec[e].node /\ exec'[e] \in ExecType
    BY <1>0, EndIs DEF EndsUnsettled
  <1>3. exec' \in [Executions -> ExecType] /\ \A f \in Executions \ {e} : exec'[f] = exec[f]
    BY <1>0, <1>2
  <1>4. StateFits(ckpt.next, ckpt.agent)'
    BY <1>1 DEF RunInvariant, ExecutionsFit, StateFits
  <1>5. SoloIsStored'
    BY <1>1, <1>2, <1>3 DEF RunInvariant, SoloIsStored, Stored, Agent
  <1>6. /\ e \in Passed' /\ ~Running(e)' /\ (Holding(e) => LeftStreaming(e)' /\ LeaseLeft(e)')
        /\ exec[e].pc # "raising" /\ exec'[e].pc # "raising"
    BY <1>0, <1>2, NodeNames
       DEF Passed, Running, Holding, LeftStreaming, LeaseLeft, EndsUnsettled, Late, Early
  <1> QED
    BY <1>0, <1>1, <1>2, <1>3, <1>4, <1>5, <1>6, InnerInvariant

LEMMA BeginWriteStep ==
  ASSUME RunInvariant, NEW e \in Executions, BeginWrite(e)
  PROVE  RunInvariant'
  <1> DEFINE x == [exec[e] EXCEPT !.pc = "writing"]
  <1>0. /\ TypeOK /\ exec[e] \in ExecType /\ exec \in [Executions -> ExecType]
        /\ Running(e) /\ exec[e].pc = "node" /\ Live(e)
        /\ exec[e].node \in {"execute_direct", "execute_react_tool"} /\ Agent(e).action = "write"
        /\ StateFits(exec[e].node, Agent(e)) /\ exec[e].node \in Nodes
        /\ ckpt \in [next : Nodes \cup {"none", "end"}, agent : AgentType]
    BY AgentTyped
       DEF RunInvariant, ExecutionsFit, BeginWrite, AtTool, At, Live, Running, TypeOK
  <1>1. UNCHANGED <<recent, created, row, begun, lease, recentRequest, other, restarts,
                    solo, unknown>> /\ ckpt' = ckpt
    BY DEF BeginWrite, Stay, Quiet, storeVars
  <1>2. /\ x \in ExecType /\ x.pc = "writing" /\ x.node = exec[e].node /\ x.agent = Agent(e)
        /\ exec' = [exec EXCEPT ![e] = x]
    BY <1>0 DEF ExecType, Agent, BeginWrite
  <1> HIDE DEF x
  <1>3. /\ exec' \in [Executions -> ExecType] /\ exec'[e] = x
        /\ \A f \in Executions \ {e} : exec'[f] = exec[f]
    BY <1>0, <1>2
  <1>4. StateFits(ckpt.next, ckpt.agent)' /\ StateFits(exec[e].node, Agent(e))'
    BY <1>0, <1>1, <1>2, <1>3 DEF RunInvariant, ExecutionsFit, StateFits, Agent
  <1>5. solo => ckpt.next = exec[e].node /\ ckpt.agent = Agent(e)
    BY <1>0 DEF RunInvariant, SoloInStep
  <1>6. SoloIsStored'
    BY <1>1, <1>2, <1>3 DEF RunInvariant, SoloIsStored, Stored, Agent
  <1>7. (e \in Passed => e \in Passed') /\ (Holding(e) => Holding(e)')
    BY <1>0, <1>2, <1>3 DEF Passed, Running, Holding
  <1>8. /\ exec'[e].pc = "writing" /\ exec'[e].node = exec[e].node
        /\ exec'[e].agent = Agent(e) /\ Agent(e).action = "write"
    BY <1>0, <1>2, <1>3
  <1> QED
    BY <1>0, <1>1, <1>3, <1>4, <1>5, <1>6, <1>7, <1>8, InnerInvariant

LEMMA PutCheckpointStep ==
  ASSUME RunInvariant, NEW e \in Executions, PutCheckpoint(e)
  PROVE  RunInvariant'
  <1> DEFINE x == IF exec[e].node = "end" THEN Ended("end") ELSE [exec[e] EXCEPT !.pc = "node"]
  <1>0. /\ TypeOK /\ exec[e] \in ExecType /\ exec \in [Executions -> ExecType]
        /\ Running(e) /\ exec[e].pc = "put" /\ Live(e) /\ Agent(e) \in AgentType
        /\ exec[e].node \in Nodes \cup {"end"}
        /\ StateFits(exec[e].node, Agent(e))
    BY AgentTyped
       DEF RunInvariant, ExecutionsFit, PutCheckpoint, Live, Running, TypeOK
  <1>1. UNCHANGED <<recent, created, row, begun, lease, recentRequest, other, restarts,
                    solo, unknown>>
    BY DEF PutCheckpoint, storeVars
  <1>2. /\ ckpt' \in [next : Nodes \cup {"none", "end"}, agent : AgentType]
        /\ ckpt'.next = exec[e].node /\ ckpt'.agent = Agent(e)
    BY <1>0 DEF PutCheckpoint
  <1>3. /\ x \in ExecType
        /\ exec[e].node = "end" => x.pc = "ended"
        /\ exec[e].node # "end" => x.pc = "node" /\ x.node = exec[e].node /\ x.agent = Agent(e)
    BY <1>0, NewAgentTyped DEF Ended, NotStarted, ExecType, Agent
  <1>4. exec' = [exec EXCEPT ![e] = x]
    BY <1>0 DEF PutCheckpoint
  <1> HIDE DEF x
  <1>5. /\ exec' \in [Executions -> ExecType] /\ exec'[e] = x
        /\ \A f \in Executions \ {e} : exec'[f] = exec[f]
    BY <1>0, <1>3, <1>4
  <1>6. StateFits(ckpt.next, ckpt.agent)' /\ (Running(e)' => StateFits(exec[e].node, Agent(e))')
    BY <1>0, <1>2, <1>3, <1>5 DEF StateFits, Agent, Running
  <1>7. SoloIsStored'
    <2>1. solo => \A f \in Executions \ {e} : exec[f].pc # "put"
      BY <1>0 DEF RunInvariant, SoloInStep, Live
    <2>2. x.pc # "put"
      BY <1>3
    <2> QED
      BY <1>0, <1>1, <1>2, <1>5, <2>1, <2>2 DEF RunInvariant, SoloIsStored, Stored, Agent
  <1>8. (e \in Passed => e \in Passed') /\ (Holding(e) => Holding(e)' /\ Agent(e)' = Agent(e))
    BY <1>0, <1>3, <1>5, NodeNames DEF Passed, Running, Holding, Agent
  <1>9. x.pc # "none" /\ x.pc # "accepted" /\ x.pc # "writing" /\ x.pc # "put"
        /\ x.pc # "raising" /\ exec[e].pc # "raising"
        /\ (x.pc = "node" => x.node \in Nodes /\ ckpt'.next = x.node /\ ckpt'.agent = x.agent)
    BY <1>0, <1>2, <1>3
  <1> QED
    BY <1>0, <1>1, <1>2, <1>5, <1>6, <1>7, <1>8, <1>9, InnerInvariant DEF Agent

-----------------------------------------------------------------------------
(* Steps that settle the exchange, or begin it. *)

\* What a step that settles e's exchange and gives the conversation back must keep.
LEMMA SettleInvariant ==
  ASSUME RunInvariant, NEW e \in Executions, exec[e].pc \in {"node", "writing"},
         exec[e].node \in Late,
         UNCHANGED <<begun, ckpt, other, restarts, solo, unknown>>,
         StoreTyped', OneConversation',
         row'[Agent(e).exchange].status # "streaming" \/ Break(e),
         \A q \in Requests : row'[q].status = "streaming" => row[q].status = "streaming",
         Release,
         End(e) \/ Break(e) \/ Goto(e, "end", Agent(e)),
         SoloIsStored'
  PROVE  RunInvariant'
  <1>0. /\ TypeOK /\ exec[e] \in ExecType /\ exec \in [Executions -> ExecType]
        /\ Running(e) /\ Live(e) /\ Agent(e) \in AgentType
        /\ StateFits(exec[e].node, Agent(e)) /\ exec[e].node \in Nodes
    BY AgentTyped DEF RunInvariant, ExecutionsFit, Live, Running
  <1>1. ~(solo /\ unknown) /\ Agent(e).exchange \in Executions
    BY <1>0 DEF RunInvariant, UnknownIsPending, StateFits
  <1>2. /\ exec' \in [Executions -> ExecType]
        /\ \A f \in Executions \ {e} : exec'[f] = exec[f]
        /\ \/ exec'[e].pc \in {"ended", "broken"}
           \/ exec'[e].pc = "put" /\ exec'[e].node = "end" /\ exec'[e].agent = Agent(e)
        /\ Break(e) => exec'[e].pc = "broken"
    <2>1. CASE End(e)
      BY <1>0, <2>1, EndIs, BreakIs DEF End
    <2>2. CASE Break(e)
      BY <1>0, <2>2, BreakIs
    <2>3. CASE Goto(e, "end", Agent(e))
      BY <1>0, <2>3, GotoIs, BreakIs
    <2> QED
      BY <2>1, <2>2, <2>3
  <1>3. /\ lease' \in [Conversations -> Requests \cup {None}] /\ lease'[1] # Run
        /\ recentRequest' \in BOOLEAN
    BY <1>0, Ids, LeaseTyped DEF Release, TypeOK
  <1>4. TypeOK'
    BY <1>0, <1>2, <1>3 DEF TypeOK, StoreTypeOK, StoreTyped, ExecType
  <1>5. ExchangesCounted'
    <2>1. Begun \subseteq Begun'
      BY <1>2, NodeNames DEF Begun, Passed, Running, Late
    <2> QED
      BY <1>0, <2>1, NothingBegun DEF RunInvariant
  <1>6. ExecutionsFit'
    <2>1. exec'[1].pc # "none"
      BY <1>0, <1>2, Ids DEF RunInvariant, ExecutionsFit, Live
    <2>2. StateFits(ckpt.next, ckpt.agent)' /\ StateFits("end", Agent(e))
      BY <1>1 DEF RunInvariant, ExecutionsFit, StateFits
    <2>3. ASSUME NEW f \in Executions \ {e}
          PROVE  /\ exec[f].pc \in {"none", "accepted"} => exec[f].node = "resolve_context"
                 /\ exec[f].pc \in {"node", "writing"} => exec[f].node \in Nodes
                 /\ exec[f].pc = "put" => exec[f].node \in Nodes \cup {"end"}
                 /\ exec[f].pc = "raising" => exec[f].node = "prepare_conversation"
                 /\ Running(f) => StateFits(exec[f].node, Agent(f))
                 /\ exec[f].pc = "writing" =>
                      /\ exec[f].node \in {"execute_direct", "execute_react_tool"}
                      /\ Agent(f).action = "write"
      BY DEF RunInvariant, ExecutionsFit
    <2> QED
      BY <1>2, <2>1, <2>2, <2>3 DEF ExecutionsFit, Running, StateFits, Agent
  <1>7. SoloInStep'
    <2>1. ASSUME solo, NEW f \in Executions, Live(f)' PROVE f = e
      BY <1>0, <1>2, <2>1 DEF RunInvariant, SoloInStep, Live
    <2>2. solo => ckpt.next \in Nodes
      BY <1>0 DEF RunInvariant, SoloInStep
    <2> QED
      BY <1>2, <2>1, <2>2 DEF SoloInStep, Live, Agent
  <1>8. UnknownIsPending'
    BY <1>1 DEF UnknownIsPending
  <1>9. RepliesHaveExecutions'
    <2>1. \A f \in Executions \ {e} :
            /\ AnswersForReply(f)' <=> AnswersForReply(f)
            /\ AnswersForLease(f)' <=> AnswersForLease(f)
      BY <1>2, SameAnswers
    <2>2. row'[e].status = "streaming" => AnswersForReply(e)'
      <3>1. exec'[e].pc = "broken" => AnswersForReply(e)'
        BY DEF AnswersForReply, LeftStreaming
      <3>2. row[e].status = "streaming" => Agent(e).exchange = e
        BY <1>0, LiveAnswers DEF RunInvariant, RepliesHaveExecutions
      <3> QED
        BY <1>2, <3>1, <3>2, Ids
    <2>3. \A f \in Executions : row'[f].status = "streaming" => AnswersForReply(f)'
      BY <2>1, <2>2, Ids DEF RunInvariant, RepliesHaveExecutions
    <2> QED
      BY <1>3, <2>3 DEF RepliesHaveExecutions
  <1> QED
    BY <1>4, <1>5, <1>6, <1>7, <1>8, <1>9 DEF RunInvariant

LEMMA HeldExchange ==
  ASSUME RunInvariant, NEW e \in Executions, exec[e].pc \in {"node", "writing"},
         exec[e].node \in Late
  PROVE  /\ Agent(e).exchange \in Executions /\ Agent(e).exchange \in Requests
         /\ solo => ckpt.next = exec[e].node /\ ckpt.agent = Agent(e)
         /\ solo => \A f \in Executions \ {e} : exec[f].pc # "put"
         /\ TypeOK /\ OneConversation
  <1>1. Running(e) /\ Live(e)
    BY DEF Running, Live
  <1>2. StateFits(exec[e].node, Agent(e))
    BY <1>1 DEF RunInvariant, ExecutionsFit
  <1> QED
    BY <1>1, <1>2, Ids DEF RunInvariant, SoloInStep, StateFits, Live

LEMMA AbortsStep ==
  ASSUME RunInvariant, NEW e \in Executions, Aborts(e)
  PROVE  RunInvariant'
  <1> DEFINE r == Agent(e).exchange
  <1>0. /\ exec[e].pc \in {"node", "writing"} /\ exec[e].node \in Late /\ Release
        /\ UNCHANGED <<ckpt, other, restarts, solo, unknown>>
        /\ \/ FinalizeMessage(r, "error", "part") /\ End(e)
           \/ UNCHANGED storeVars /\ Break(e)
    BY DEF Aborts, Abort, FailExchange
  <1>1. /\ r \in Executions /\ r \in Requests /\ TypeOK /\ OneConversation
        /\ solo => ckpt.next \in Late /\ \A f \in Executions \ {e} : exec[f].pc # "put"
    BY <1>0, HeldExchange
  <1> HIDE DEF r
  <1>2. /\ StoreTyped' /\ OneConversation' /\ UNCHANGED begun
        /\ \A q \in Requests : row'[q].status = "streaming" => row[q].status = "streaming"
        /\ row'[r].status # "streaming" \/ Break(e)
        /\ \A q \in Requests : Stored(q) => row'[q].status # "absent"
    <2>1. CASE FinalizeMessage(r, "error", "part") /\ End(e)
      <3>1. /\ StoreTyped' /\ OneConversation' /\ UNCHANGED begun
            /\ \A q \in Requests \ {r} : row'[q] = row[q]
            /\ row'[r].status = IF Stored(r) THEN "error" ELSE "absent"
        BY <1>1, <2>1, FinalizeStore DEF TerminalStatus, Texts
      <3> QED
        BY <3>1 DEF Stored
    <2>2. CASE UNCHANGED storeVars /\ Break(e)
      BY <1>1, <2>2, RowTyped DEF storeVars, StoreTyped, OneConversation, Stored
    <2> QED
      BY <1>0, <2>1, <2>2
  <1>3. exec'[e].pc \in {"ended", "broken"} /\ \A f \in Executions \ {e} : exec'[f] = exec[f]
    BY <1>0, <1>1, AgentTyped, EndIs, BreakIs DEF End
  <1>4. SoloIsStored'
    <2>1. ASSUME solo
          PROVE  Stored(ckpt.agent.exchange) => row'[ckpt.agent.exchange].status # "absent"
      BY <1>0, <1>1, <1>2, <2>1, HeldExchange DEF r
    <2>2. solo => /\ ckpt.next # "end"
                  /\ \/ Stored(ckpt.agent.exchange)
                     \/ ckpt.next = "finalize_conversation"
                        /\ ckpt.agent.response = "confirmation_required"
      BY <1>1, NodeNames DEF RunInvariant, SoloIsStored
    <2> QED
      BY <1>0, <1>1, <1>3, <2>1, <2>2 DEF SoloIsStored, Stored
  <1> QED
    BY <1>0, <1>1, <1>2, <1>4, SettleInvariant DEF r

LEMMA FinalizeConversationStep ==
  ASSUME RunInvariant, NEW e \in Executions, FinalizeConversation(e)
  PROVE  RunInvariant'
  <1> DEFINE r == Agent(e).exchange
             asks == Agent(e).response = "confirmation_required"
  <1>0. /\ exec[e].pc \in {"node", "writing"} /\ exec[e].node = "finalize_conversation"
        /\ exec[e].node \in Late /\ Release
        /\ UNCHANGED <<ckpt, other, restarts, solo, unknown>>
        /\ exec \in [Executions -> ExecType] /\ exec[e] \in ExecType
    BY NodeNames, AgentTyped DEF FinalizeConversation, At, RunInvariant
  <1>1. /\ r \in Executions /\ r \in Requests /\ TypeOK /\ OneConversation
        /\ solo => /\ ckpt.next = "finalize_conversation" /\ ckpt.agent = Agent(e)
                   /\ \A f \in Executions \ {e} : exec[f].pc # "put"
    BY <1>0, HeldExchange
  <1> HIDE DEF r
  <1>2. ASSUME FinalizeMessage(r, "complete", "full") \/ FinalizeMessage(r, "cancelled", "part")
        PROVE  /\ StoreTyped' /\ OneConversation' /\ UNCHANGED begun
               /\ \A q \in Requests :
                    row'[q].status = "streaming" => row[q].status = "streaming"
               /\ row'[r].status # "streaming"
               /\ \A q \in Requests : Stored(q) => row'[q].status # "absent"
               /\ FinalizeMessage(r, "complete", "full") =>
                    row'[r].status = IF Stored(r) THEN "complete" ELSE "absent"
    <2>1. PICK status \in {"complete", "cancelled"}, text \in Texts :
            /\ FinalizeMessage(r, status, text)
            /\ FinalizeMessage(r, "complete", "full") => status = "complete"
      BY <1>2 DEF Texts
    <2>2. /\ StoreTyped' /\ OneConversation' /\ UNCHANGED begun
          /\ \A q \in Requests \ {r} : row'[q] = row[q]
          /\ row'[r].status = IF Stored(r) THEN status ELSE "absent"
      BY <1>1, <2>1, FinalizeStore DEF TerminalStatus
    <2> QED
      BY <2>1, <2>2 DEF Stored
  <1>3. CASE ~asks /\ StoreReply(r) /\ Goto(e, "end", Agent(e))
    <2>1. /\ exec'[e].pc = "put" /\ exec'[e].node = "end" /\ exec'[e].agent = Agent(e)
          /\ \A f \in Executions \ {e} : exec'[f] = exec[f]
      BY <1>1, <1>3, GotoIs
    <2>2. solo => row'[r].status = "complete"
      BY <1>0, <1>1, <1>2, <1>3 DEF RunInvariant, SoloIsStored, StoreReply, r
    <2>3. SoloIsStored'
      BY <1>0, <1>1, <2>1, <2>2, NodeNames DEF SoloIsStored, Stored, Agent, r
    <2> QED
      BY <1>0, <1>1, <1>2, <1>3, <2>3, SettleInvariant DEF StoreReply, r
  \* The execution ends, and what the checkpoint says stays true.
  <1>4. ASSUME StoreTyped', OneConversation', UNCHANGED begun, End(e) \/ Break(e),
               \A q \in Requests : row'[q].status = "streaming" => row[q].status = "streaming",
               row'[r].status # "streaming" \/ Break(e),
               \A q \in Requests : Stored(q) => row'[q].status # "absent"
        PROVE  RunInvariant'
    <2>1. exec'[e].pc \in {"ended", "broken"} /\ \A f \in Executions \ {e} : exec'[f] = exec[f]
      BY <1>0, <1>1, <1>4, EndIs, BreakIs DEF End
    <2>2. solo => \/ Stored(r)
                  \/ ckpt.next = "finalize_conversation"
                     /\ ckpt.agent.response = "confirmation_required"
      BY <1>0, <1>1 DEF RunInvariant, SoloIsStored, r
    <2>3. SoloIsStored'
      BY <1>0, <1>1, <1>4, <2>1, <2>2, NodeNames DEF SoloIsStored, Stored, r
    <2> QED
      BY <1>0, <1>1, <1>4, <2>3, SettleInvariant DEF r
  <1>5. CASE ~asks /\ StoreReply(r) /\ End(e)
    BY <1>2, <1>4, <1>5 DEF StoreReply
  <1>6. CASE asks /\ WithdrawExchange(r) /\ Goto(e, "end", Agent(e))
    <2>1. /\ StoreTyped' /\ OneConversation' /\ UNCHANGED begun
          /\ \A q \in Requests : row'[q].status = "streaming" => row[q].status = "streaming"
          /\ row'[r].status # "streaming"
      BY <1>1, <1>6, WithdrawStore
    <2>2. /\ exec'[e].pc = "put" => exec'[e].node = "end" /\ exec'[e].agent = Agent(e)
          /\ \A f \in Executions \ {e} : exec'[f] = exec[f]
      BY <1>1, <1>6, GotoIs
    <2>3. SoloIsStored'
      BY <1>0, <1>1, <1>6, <2>2, NodeNames DEF SoloIsStored, Stored, Agent
    <2> QED
      BY <1>0, <1>1, <1>6, <2>1, <2>3, SettleInvariant DEF r
  <1>7. CASE asks /\ FinalizeMessage(r, "cancelled", "part") /\ End(e)
    BY <1>2, <1>4, <1>7
  <1>8. CASE UNCHANGED storeVars /\ Break(e)
    <2>1. /\ StoreTyped' /\ OneConversation' /\ UNCHANGED begun /\ row' = row
      BY <1>1, <1>8, RowTyped DEF storeVars, StoreTyped, OneConversation, Stored
    <2> QED
      BY <1>4, <1>8, <2>1 DEF Stored
  <1> QED
    BY <1>3, <1>5, <1>6, <1>7, <1>8 DEF FinalizeConversation, r

LEMMA PrepareRefused ==
  ASSUME RunInvariant, NEW e \in Executions, At(e, "prepare_conversation"), End(e),
         UNCHANGED <<storeVars, lease>>, recentRequest' \in BOOLEAN,
         UNCHANGED <<ckpt, other, restarts, solo, unknown>>
  PROVE  RunInvariant'
  <1>0. /\ TypeOK /\ exec[e] \in ExecType /\ exec \in [Executions -> ExecType]
        /\ Running(e) /\ Live(e) /\ ~Holding(e)
        /\ exec[e].pc = "node" /\ exec[e].node = "prepare_conversation"
        /\ ~(solo /\ unknown)
    BY AgentTyped, NodeNames DEF RunInvariant, UnknownIsPending, Live, Running, At, Holding
  <1>1. /\ recent' = recent /\ created' = created /\ row' = row /\ begun' = begun
        /\ lease' = lease /\ ckpt' = ckpt /\ other' = other /\ restarts' = restarts
        /\ solo' = solo /\ unknown' = unknown
    BY DEF storeVars
  <1>2. /\ exec'[e].pc = "ended" /\ exec'[e].node = exec[e].node
        /\ exec' \in [Executions -> ExecType]
        /\ \A f \in Executions \ {e} : exec'[f] = exec[f]
    BY <1>0, EndIs DEF End
  <1>3. TypeOK'
    BY <1>0, <1>1, <1>2 DEF TypeOK, StoreTypeOK, ExecType
  <1>4. OneConversation'
    BY <1>1 DEF RunInvariant, OneConversation, Stored
  <1>5. ExchangesCounted'
    <2>1. Begun \subseteq Begun'
      BY <1>1, <1>2 DEF Begun, Passed, Running
    <2> QED
      BY <1>0, <1>1, <2>1, NothingBegun DEF RunInvariant
  <1>6. ExecutionsFit'
    <2>1. exec'[1].pc # "none"
      BY <1>0, <1>2, Ids DEF RunInvariant, ExecutionsFit, Live
    <2>2. StateFits(ckpt.next, ckpt.agent)'
      BY <1>1 DEF RunInvariant, ExecutionsFit, StateFits
    <2> QED
      BY <1>2, <2>1, <2>2 DEF RunInvariant, ExecutionsFit, Running, StateFits, Agent
  <1>7. SoloInStep'
    <2>1. ASSUME solo, NEW f \in Executions PROVE ~Live(f)'
      BY <1>0, <1>2, <2>1 DEF RunInvariant, SoloInStep, Live
    <2> QED
      BY <1>1, <2>1 DEF SoloInStep, Live
  <1>8. UnknownIsPending'
    BY <1>0, <1>1 DEF UnknownIsPending
  <1>9. RepliesHaveExecutions'
    <2>1. \A f \in Executions \ {e} :
            /\ AnswersForReply(f)' <=> AnswersForReply(f)
            /\ AnswersForLease(f)' <=> AnswersForLease(f)
      BY <1>2, SameAnswers
    <2>2. ~AnswersForReply(e) /\ ~AnswersForLease(e)
      BY <1>0, LiveAnswers
    <2> QED
      BY <1>0, <1>1, <2>1, <2>2 DEF RunInvariant, RepliesHaveExecutions, Agent
  <1>10. SoloIsStored'
    BY <1>1, <1>2 DEF RunInvariant, SoloIsStored, Stored, Agent
  <1> QED
    BY <1>3, <1>4, <1>5, <1>6, <1>7, <1>8, <1>9, <1>10 DEF RunInvariant

\* What a preparation that has begun its exchange must keep, whether it goes on, raises, or
\* never hears of the exchange.
LEMMA BeginsInvariant ==
  ASSUME RunInvariant, NEW e \in Executions, At(e, "prepare_conversation"),
         BeginExchange(e, 1), recentRequest' \in BOOLEAN,
         lease' \in [Conversations -> Requests \cup {None}],
         UNCHANGED <<ckpt, other, restarts, solo, unknown>>,
         exec' \in [Executions -> ExecType],
         \A f \in Executions \ {e} : exec'[f] = exec[f],
         \/ /\ exec'[e].pc = "put" /\ exec'[e].node = "run_collaboration"
            /\ exec'[e].agent.exchange = e
         \/ /\ exec'[e].pc = "raising" /\ exec'[e].node = "prepare_conversation"
            /\ exec'[e].agent = Agent(e)
         \/ /\ exec'[e].pc = "ended" /\ exec'[e].node = "prepare_conversation"
            /\ lease' = lease
  PROVE  RunInvariant'
  <1>0. /\ TypeOK /\ OneConversation
        /\ Running(e) /\ Live(e) /\ ~Holding(e) /\ e \notin Passed
        /\ exec[e].pc = "node" /\ exec[e].node = "prepare_conversation" /\ ~(solo /\ unknown)
    BY NodeNames
       DEF RunInvariant, UnknownIsPending, Live, Running, At, Holding, Passed, Early
  <1>1. e \in Passed'
    BY NodeNames DEF Passed, Running, Early
  <1>2. begun' = begun + 1
    BY DEF BeginExchange
  <1>3. ExchangesCounted' /\ begun < MaxRequests
    <2>1. e \notin Begun /\ Begun \cup {e} \subseteq Begun'
      BY <1>0, <1>1, Ids DEF Begun, Passed, Running
    <2> QED
      BY <1>0, <1>2, <2>1, Ids, OneBegun DEF RunInvariant
  <1>4. /\ StoreTyped' /\ OneConversation'
        /\ \A q \in Requests \ {e} :
             row'[q].status = row[q].status /\ (Stored(q) => row'[q] = row[q])
        /\ row'[e].status = "streaming"
    BY <1>0, <1>3, Ids, BeginStore
  <1>5. TypeOK'
    <2>1. begun' \in 0 .. MaxRequests
      BY <1>0, <1>2, <1>3, StoreAssumption DEF TypeOK, StoreTypeOK
    <2> QED
      BY <1>0, <1>4, <2>1 DEF TypeOK, StoreTypeOK, StoreTyped, ExecType
  <1>6. ExecutionsFit'
    <2>1. exec'[1].pc # "none"
      BY <1>0, Ids DEF RunInvariant, ExecutionsFit, Live
    <2>2. /\ StateFits(ckpt.next, ckpt.agent)'
          /\ \A agent : agent.exchange = e => StateFits("run_collaboration", agent)
      BY DEF RunInvariant, ExecutionsFit, StateFits
    <2>3. ASSUME NEW f \in Executions \ {e}
          PROVE  /\ exec[f].pc \in {"none", "accepted"} => exec[f].node = "resolve_context"
                 /\ exec[f].pc \in {"node", "writing"} => exec[f].node \in Nodes
                 /\ exec[f].pc = "put" => exec[f].node \in Nodes \cup {"end"}
                 /\ exec[f].pc = "raising" => exec[f].node = "prepare_conversation"
                 /\ Running(f) => StateFits(exec[f].node, Agent(f))
                 /\ exec[f].pc = "writing" =>
                      /\ exec[f].node \in {"execute_direct", "execute_react_tool"}
                      /\ Agent(f).action = "write"
      BY DEF RunInvariant, ExecutionsFit
    <2> QED
      BY <2>1, <2>2, <2>3, NodeNames DEF ExecutionsFit, Running, StateFits, Agent
  <1>7. solo => /\ ckpt.next = "prepare_conversation" /\ ckpt.agent = Agent(e)
                /\ \A f \in Executions \ {e} : ~Live(f)
    BY <1>0 DEF RunInvariant, SoloInStep
  <1>8. SoloInStep'
    BY <1>0, <1>7, NodeNames DEF SoloInStep, Live, Agent, Early
  <1>9. UnknownIsPending'
    BY <1>0 DEF UnknownIsPending
  <1>10. RepliesHaveExecutions'
    <2>1. \A f \in Executions \ {e} :
            /\ AnswersForReply(f)' <=> AnswersForReply(f)
            /\ AnswersForLease(f)' <=> AnswersForLease(f)
      BY SameAnswers
    <2>2. AnswersForReply(e)' /\ ~AnswersForLease(e) /\ (AnswersForLease(e)' \/ lease' = lease)
      BY <1>0, LiveAnswers, NodeNames
         DEF AnswersForReply, AnswersForLease, Holding, Raising, LeftStreaming, Running, Agent
    <2> QED
      BY <1>4, <2>1, <2>2, Ids DEF RunInvariant, RepliesHaveExecutions
  <1>11. SoloIsStored'
    BY <1>0, <1>4, <1>7, NodeNames, Ids DEF SoloIsStored, Stored, Agent, Live, Early
  <1> QED
    BY <1>3, <1>4, <1>5, <1>6, <1>8, <1>9, <1>10, <1>11 DEF RunInvariant

\* The lease is taken, and the exchange is begun, refused, or begun and not known to begin.
LEMMA PrepareStep ==
  ASSUME RunInvariant, NEW e \in Executions,
         PrepareConversation(e) \/ ClaimFails(e) \/ ExchangeRefused(e) \/ ContextRefused(e)
  PROVE  RunInvariant'
  <1> DEFINE agent == [Agent(e) EXCEPT !.exchange = e]
             x == [exec[e] EXCEPT !.pc = "raising"]
  <1>0. /\ TypeOK /\ exec[e] \in ExecType /\ exec \in [Executions -> ExecType]
        /\ exec[e].pc = "node" /\ exec[e].node = "prepare_conversation"
        /\ At(e, "prepare_conversation") /\ recentRequest \in BOOLEAN
        /\ lease \in [Conversations -> Requests \cup {None}]
    BY AgentTyped
       DEF RunInvariant, At, PrepareConversation, ClaimFails, ExchangeRefused,
           ContextRefused, TypeOK, StoreTypeOK
  <1>1. /\ agent \in AgentType /\ agent.exchange = e
        /\ x \in ExecType /\ x.pc = "raising" /\ x.node = exec[e].node /\ x.agent = Agent(e)
    BY <1>0, AgentTyped, Ids DEF AgentType, ExecType, Agent
  <1>2. ASSUME AcquireLease(1, Run) PROVE lease' \in [Conversations -> Requests \cup {None}]
    BY <1>0, <1>2, Ids, LeaseTyped
  <1>3. CASE PrepareConversation(e)
    <2>1. /\ BeginExchange(e, 1) /\ Goto(e, "run_collaboration", agent) /\ AcquireLease(1, Run)
          /\ UNCHANGED <<ckpt, recentRequest, other, restarts, solo, unknown>>
      BY <1>3 DEF PrepareConversation
    <2> HIDE DEF agent
    <2>2. /\ exec'[e].pc = "put" /\ exec'[e].node = "run_collaboration"
          /\ exec'[e].agent = agent
          /\ \A f \in Executions \ {e} : exec'[f] = exec[f]
          /\ exec' \in [Executions -> ExecType]
      BY <1>0, <1>1, <2>1, GotoIs DEF Nodes
    <2> QED
      BY <1>0, <1>1, <1>2, <2>1, <2>2, BeginsInvariant
  <1>4. CASE ClaimFails(e)
    <2>1. End(e) /\ UNCHANGED <<storeVars, lease, ckpt, recentRequest, other, restarts, solo,
                                unknown>>
      BY <1>4 DEF ClaimFails, Stay, Quiet, storeVars
    <2> QED
      BY <1>0, <2>1, PrepareRefused
  <1>5. CASE ExchangeRefused(e)
    <2>1. /\ UNCHANGED storeVars \/ BeginExchange(e, 1)
          /\ End(e) /\ recentRequest' = TRUE
          /\ UNCHANGED <<lease, ckpt, other, restarts, solo, unknown>>
      BY <1>5 DEF ExchangeRefused
    <2>2. CASE UNCHANGED storeVars
      BY <1>0, <2>1, <2>2, PrepareRefused
    <2>3. CASE BeginExchange(e, 1)
      <3>1. /\ exec'[e].pc = "ended" /\ exec'[e].node = "prepare_conversation"
            /\ exec' \in [Executions -> ExecType]
            /\ \A f \in Executions \ {e} : exec'[f] = exec[f]
        BY <1>0, <2>1, EndIs DEF End
      <3> QED
        BY <1>0, <2>1, <2>3, <3>1, BeginsInvariant
    <2> QED
      BY <2>1, <2>2, <2>3
  <1>6. CASE ContextRefused(e)
    <2>1. /\ BeginExchange(e, 1) /\ AcquireLease(1, Run) /\ exec' = [exec EXCEPT ![e] = x]
          /\ UNCHANGED <<ckpt, recentRequest, other, restarts, solo, unknown>>
      BY <1>0, <1>6 DEF ContextRefused, Quiet
    <2> HIDE DEF x
    <2>2. /\ exec'[e] = x /\ exec' \in [Executions -> ExecType]
          /\ \A f \in Executions \ {e} : exec'[f] = exec[f]
      BY <1>0, <1>1, <2>1
    <2> QED
      BY <1>0, <1>1, <1>2, <2>1, <2>2, BeginsInvariant
  <1> QED
    BY <1>3, <1>4, <1>5, <1>6

LEMMA FailSetupStep ==
  ASSUME RunInvariant, NEW e \in Executions, FailSetup(e)
  PROVE  RunInvariant'
  <1>0. /\ TypeOK /\ OneConversation /\ exec \in [Executions -> ExecType]
        /\ exec[e].pc = "raising" /\ exec[e].node = "prepare_conversation"
        /\ Live(e) /\ Raising(e) /\ ~Running(e) /\ e \in Passed /\ ~(solo /\ unknown)
        /\ UNCHANGED <<ckpt, other, restarts, solo, unknown>>
        /\ solo => /\ ckpt.next = "prepare_conversation"
                   /\ \A f \in Executions \ {e} : ~Live(f)
    BY AgentTyped
       DEF RunInvariant, ExecutionsFit, SoloInStep, UnknownIsPending, Live, Raising, Running,
           Passed, FailSetup
  <1>1. /\ StoreTyped' /\ OneConversation' /\ UNCHANGED begun
        /\ lease' \in [Conversations -> Requests \cup {None}] /\ recentRequest' \in BOOLEAN
        /\ \A q \in Executions \ {e} : row'[q] = row[q]
        /\ exec' \in [Executions -> ExecType]
        /\ \A f \in Executions \ {e} : exec'[f] = exec[f]
        /\ \/ exec'[e].pc = "ended" /\ lease'[1] # Run /\ row'[e].status # "streaming"
           \/ exec'[e].pc = "broken" /\ exec'[e].node = "prepare_conversation"
              /\ lease' = lease
    <2>1. CASE FinalizeMessage(e, "error", "part") /\ Release /\ End(e)
      <3>1. /\ StoreTyped' /\ OneConversation' /\ UNCHANGED begun
            /\ \A q \in Requests \ {e} : row'[q] = row[q]
            /\ row'[e].status = IF Stored(e) THEN "error" ELSE "absent"
        BY <1>0, <2>1, Ids, FinalizeStore DEF TerminalStatus, Texts
      <3>2. /\ lease' \in [Conversations -> Requests \cup {None}] /\ lease'[1] # Run
            /\ recentRequest' \in BOOLEAN
        BY <1>0, <2>1, Ids, LeaseTyped DEF Release, TypeOK
      <3>3. /\ exec'[e].pc = "ended" /\ exec' \in [Executions -> ExecType]
            /\ \A f \in Executions \ {e} : exec'[f] = exec[f]
        BY <1>0, <2>1, EndIs DEF End
      <3> QED
        BY <3>1, <3>2, <3>3, Ids
    <2>2. CASE UNCHANGED <<storeVars, lease, recentRequest>> /\ Break(e)
      <3>1. StoreTyped' /\ OneConversation' /\ UNCHANGED begun /\ row' = row
        BY <1>0, <2>2, Ids, RowTyped DEF storeVars, StoreTyped, OneConversation, Stored
      <3> QED
        BY <1>0, <2>2, <3>1, BreakIs DEF TypeOK, StoreTypeOK
    <2> QED
      BY <2>1, <2>2 DEF FailSetup
  <1>2. TypeOK'
    BY <1>0, <1>1 DEF TypeOK, StoreTypeOK, StoreTyped, ExecType
  <1>3. ExchangesCounted'
    <2>1. Begun \subseteq Begun'
      BY <1>0, <1>1 DEF Begun, Passed, Running
    <2> QED
      BY <1>0, <1>1, <2>1, NothingBegun DEF RunInvariant
  <1>4. ExecutionsFit'
    <2>1. exec'[1].pc # "none"
      BY <1>0, <1>1, Ids DEF RunInvariant, ExecutionsFit, Live
    <2>2. StateFits(ckpt.next, ckpt.agent)'
      BY <1>0 DEF RunInvariant, ExecutionsFit, StateFits
    <2> QED
      BY <1>1, <2>1, <2>2 DEF RunInvariant, ExecutionsFit, Running, StateFits, Agent
  <1>5. SoloInStep'
    BY <1>0, <1>1 DEF SoloInStep, Live
  <1>6. UnknownIsPending'
    BY <1>0 DEF UnknownIsPending
  <1>7. RepliesHaveExecutions'
    <2>1. \A f \in Executions \ {e} :
            /\ AnswersForReply(f)' <=> AnswersForReply(f)
            /\ AnswersForLease(f)' <=> AnswersForLease(f)
      BY <1>1, SameAnswers
    <2>2. row'[e].status = "streaming" => AnswersForReply(e)'
      BY <1>1 DEF AnswersForReply, LeftStreaming
    <2>3. lease'[1] = Run => AnswersForLease(e)'
      BY <1>1 DEF AnswersForLease, LeaseLeft
    <2> QED
      BY <1>1, <2>1, <2>2, <2>3 DEF RunInvariant, RepliesHaveExecutions
  <1>8. SoloIsStored'
    BY <1>0, <1>1, NodeNames DEF SoloIsStored, Live, Early
  <1> QED
    BY <1>1, <1>2, <1>3, <1>4, <1>5, <1>6, <1>7, <1>8 DEF RunInvariant

-----------------------------------------------------------------------------
(* The other window, time and restarts. *)

LEMMA OtherBeginsStep ==
  ASSUME RunInvariant, OtherBegins
  PROVE  RunInvariant'
  <1>1. /\ TypeOK /\ OneConversation
        /\ exec' = exec /\ ckpt' = ckpt /\ recentRequest' = recentRequest
        /\ restarts' = restarts /\ solo' = solo /\ unknown' = unknown
        /\ other = "idle" /\ other' = "generating"
        /\ AcquireLease(1, Other) /\ BeginExchange(Other, 1)
    BY DEF RunInvariant, OtherBegins, agentVars
  <1>2. begun' = begun + 1
    BY <1>1 DEF BeginExchange
  <1>3. ExchangesCounted' /\ begun < MaxRequests
    <2>1. Other \notin Begun /\ Begun \cup {Other} \subseteq Begun'
      BY <1>1, Ids DEF Begun, Passed, Running
    <2> QED
      BY <1>1, <1>2, <2>1, Ids, OneBegun DEF RunInvariant
  <1>4. /\ StoreTyped' /\ OneConversation'
        /\ \A q \in Requests \ {Other} :
             row'[q].status = row[q].status /\ (Stored(q) => row'[q] = row[q])
    BY <1>1, <1>3, Ids, BeginStore
  <1>5. lease' \in [Conversations -> Requests \cup {None}] /\ lease'[1] = Other
    BY <1>1, Ids, LeaseTyped
  <1>6. TypeOK'
    <2>1. begun' \in 0 .. MaxRequests
      BY <1>1, <1>2, <1>3, StoreAssumption DEF TypeOK, StoreTypeOK
    <2> QED
      BY <1>1, <1>4, <1>5, <2>1 DEF TypeOK, StoreTypeOK, StoreTyped
  <1>7. ExecutionsFit' /\ SoloInStep' /\ UnknownIsPending'
    BY <1>1 DEF RunInvariant, ExecutionsFit, SoloInStep, UnknownIsPending, StateFits, Running,
                Live, Agent, PendingWrite
  <1>8. RepliesHaveExecutions'
    BY <1>1, <1>4, <1>5, Ids, SameAnswers DEF RunInvariant, RepliesHaveExecutions
  <1>9. SoloIsStored'
    <2>1. /\ ckpt.next \in Late \cup {"end"} => ckpt.agent.exchange \in Executions
          /\ \A e \in Executions :
               exec[e].pc = "put" /\ exec[e].node \in Late \cup {"end"}
                 => Agent(e).exchange \in Executions
      BY DEF RunInvariant, ExecutionsFit, StateFits, Running
    <2>2. \A q \in Executions : row'[q].status = row[q].status
      BY <1>4, Ids
    <2> QED
      BY <1>1, <2>1, <2>2 DEF RunInvariant, SoloIsStored, Stored, Agent
  <1> QED
    BY <1>3, <1>4, <1>6, <1>7, <1>8, <1>9 DEF RunInvariant

LEMMA OtherEndsStep ==
  ASSUME RunInvariant, OtherEnds
  PROVE  RunInvariant'
  <1>1. /\ TypeOK /\ OneConversation
        /\ exec' = exec /\ ckpt' = ckpt /\ recentRequest' = recentRequest
        /\ restarts' = restarts /\ solo' = solo /\ unknown' = unknown
        /\ other = "generating" /\ other' = "done"
        /\ lease' = ReleasedBy(1, Other) /\ FinalizeMessage(Other, "complete", "full")
    BY DEF RunInvariant, OtherEnds, agentVars, StoreReply
  <1>2. /\ StoreTyped' /\ OneConversation' /\ UNCHANGED begun
        /\ \A q \in Requests \ {Other} : row'[q] = row[q]
    BY <1>1, Ids, FinalizeStore DEF TerminalStatus, Texts
  <1>3. ExchangesCounted'
    <2>1. Begun \subseteq Begun'
      BY <1>1 DEF Begun, Passed, Running
    <2> QED
      BY <1>1, <1>2, <2>1, NothingBegun DEF RunInvariant
  <1>4. lease' \in [Conversations -> Requests \cup {None}] /\ (lease'[1] = Run => lease[1] = Run)
    BY <1>1, Ids, LeaseTyped
  <1>5. TypeOK'
    BY <1>1, <1>2, <1>4 DEF TypeOK, StoreTypeOK, StoreTyped
  <1>6. ExecutionsFit' /\ SoloInStep' /\ UnknownIsPending'
    BY <1>1 DEF RunInvariant, ExecutionsFit, SoloInStep, UnknownIsPending, StateFits, Running,
                Live, Agent, PendingWrite
  <1>7. RepliesHaveExecutions'
    BY <1>1, <1>2, <1>4, Ids, SameAnswers DEF RunInvariant, RepliesHaveExecutions
  <1>8. SoloIsStored'
    <2>1. /\ ckpt.next \in Late \cup {"end"} => ckpt.agent.exchange \in Executions
          /\ \A e \in Executions :
               exec[e].pc = "put" /\ exec[e].node \in Late \cup {"end"}
                 => Agent(e).exchange \in Executions
      BY DEF RunInvariant, ExecutionsFit, StateFits, Running
    <2>2. \A q \in Executions : row'[q] = row[q]
      BY <1>2, Ids
    <2> QED
      BY <1>1, <2>1, <2>2 DEF RunInvariant, SoloIsStored, Stored, Agent
  <1> QED
    BY <1>2, <1>3, <1>5, <1>6, <1>7, <1>8 DEF RunInvariant

LEMMA TimeStep ==
  ASSUME RunInvariant, ForgetRequest \/ ExpireLease
  PROVE  RunInvariant'
  <1>1. /\ TypeOK /\ UNCHANGED <<recent, created, row, begun, exec, ckpt, other, restarts, solo, unknown>>
        /\ recentRequest' \in BOOLEAN
        /\ lease' \in {lease, [lease EXCEPT ![1] = None]}
    BY DEF RunInvariant, TypeOK, ForgetRequest, ExpireLease, agentVars, storeVars
  <1>2. lease' \in [Conversations -> Requests \cup {None}] /\ (lease'[1] = Run => lease[1] = Run)
    BY <1>1, Ids DEF TypeOK, StoreTypeOK
  <1>3. TypeOK' /\ OneConversation'
    BY <1>1, <1>2 DEF RunInvariant, TypeOK, StoreTypeOK, OneConversation, Stored
  <1>4. ExchangesCounted'
    BY <1>1 DEF RunInvariant, ExchangesCounted, Begun, Passed, Running
  <1>5. ExecutionsFit' /\ SoloInStep' /\ UnknownIsPending'
    BY <1>1 DEF RunInvariant, ExecutionsFit, SoloInStep, UnknownIsPending, StateFits, Running,
                Live, Agent, PendingWrite
  <1>6. RepliesHaveExecutions'
    BY <1>1, <1>2, SameAnswers DEF RunInvariant, RepliesHaveExecutions
  <1>7. SoloIsStored'
    BY <1>1 DEF RunInvariant, SoloIsStored, Stored, Agent
  <1> QED
    BY <1>3, <1>4, <1>5, <1>6, <1>7 DEF RunInvariant

LEMMA RestartStep ==
  ASSUME RunInvariant, Restart
  PROVE  RunInvariant'
  <1>1. /\ TypeOK /\ OneConversation /\ Initialize
        /\ exec' = [e \in Executions |-> IF Live(e) THEN Ended("none") ELSE exec[e]]
        /\ unknown' = (unknown \/ \E e \in Executions : exec[e].pc = "writing")
        /\ lease' = [c \in Conversations |-> None] /\ recentRequest' = FALSE
        /\ restarts' \in 0 .. MaxRestarts /\ other' \in {"idle", "generating", "done"}
        /\ (other # "idle" => other' # "idle") /\ ckpt' = ckpt /\ solo' = solo
    BY AgentAssumption DEF RunInvariant, TypeOK, Restart
  <1>2. /\ StoreTyped' /\ OneConversation' /\ UNCHANGED begun
        /\ \A q \in Requests :
             /\ row'[q].status # "streaming"
             /\ row[q].status # "streaming" => row'[q] = row[q]
             /\ Stored(q) => row'[q].status # "absent"
    BY <1>1, InitializeStore
  <1>3. Ended("none") \in ExecType /\ Ended("none").pc = "ended"
    BY NewAgentTyped DEF Ended, NotStarted, ExecType
  <1>4. /\ exec' \in [Executions -> ExecType]
        /\ \A e \in Executions :
             /\ exec'[e].pc \in {"none", "ended", "broken"}
             /\ exec'[e].pc = "none" <=> exec[e].pc = "none"
             /\ ~Live(e) => exec'[e] = exec[e]
    BY <1>1, <1>3, AgentTyped DEF Live
  <1>5. TypeOK'
    <2>1. lease' \in [Conversations -> Requests \cup {None}] /\ unknown' \in BOOLEAN
      BY <1>1 DEF TypeOK
    <2> QED
      BY <1>1, <1>2, <1>4, <2>1 DEF TypeOK, StoreTypeOK, StoreTyped, ExecType
  <1>6. ExchangesCounted'
    <2>1. Begun \subseteq Begun'
      BY <1>1, <1>4 DEF Begun, Passed, Running, Live
    <2> QED
      BY <1>1, <1>2, <2>1, NothingBegun DEF RunInvariant
  <1>7. ExecutionsFit'
    <2>1. StateFits(ckpt.next, ckpt.agent)'
      BY <1>1 DEF RunInvariant, ExecutionsFit, StateFits
    <2> QED
      BY <1>4, <2>1, Ids DEF RunInvariant, ExecutionsFit, Running, Live
  <1>8. SoloInStep'
    BY <1>4 DEF SoloInStep, Live
  <1>9. UnknownIsPending'
    <2>1. ASSUME solo, unknown PROVE PendingWrite /\ exec'[1].pc # "none"
      BY <1>4, <2>1, Ids DEF RunInvariant, UnknownIsPending
    <2>2. ASSUME solo, NEW e \in Executions, exec[e].pc = "writing"
          PROVE  PendingWrite /\ exec'[1].pc # "none"
      BY <1>4, <2>2, Ids
         DEF RunInvariant, SoloInStep, ExecutionsFit, PendingWrite, Agent
    <2>3. ASSUME NEW e \in Executions PROVE ~Live(e)'
      BY <1>4 DEF Live
    <2> QED
      BY <1>1, <2>1, <2>2, <2>3 DEF UnknownIsPending, PendingWrite
  <1>10. RepliesHaveExecutions'
    BY <1>1, <1>2, Ids DEF RepliesHaveExecutions
  <1>11. SoloIsStored'
    <2>1. /\ ckpt.next \in Late \cup {"end"} => ckpt.agent.exchange \in Requests
      BY Ids DEF RunInvariant, ExecutionsFit, StateFits
    <2> QED
      BY <1>1, <1>2, <1>4, <2>1 DEF RunInvariant, SoloIsStored, Stored
  <1> QED
    BY <1>2, <1>5, <1>6, <1>7, <1>8, <1>9, <1>10, <1>11 DEF RunInvariant

-----------------------------------------------------------------------------
(* The theorems. *)

LEMMA InitHolds == Init => RunInvariant
  <1> SUFFICES ASSUME Init PROVE RunInvariant
    OBVIOUS
  <1>1. /\ \A e \in Executions : exec[e] = NotStarted
        /\ NotStarted.pc = "none" /\ NotStarted.node = "resolve_context"
        /\ ckpt.next = "none"
    BY DEF Init, NotStarted
  <1>2. TypeOK
    <2>1. /\ recent \in Seq(Conversations) /\ Len(recent) = 1 /\ MaxConversations >= 1
      BY Ids, StoreAssumption DEF Init
    <2>2. created \in 0 .. MaxCreated /\ begun \in 0 .. MaxRequests /\ restarts \in 0 .. MaxRestarts
      BY StoreAssumption, AgentAssumption DEF Init
    <2>3. /\ row \in [Requests -> RowType]
          /\ lease \in [Conversations -> Requests \cup {None}]
      BY NoRowTyped DEF Init
    <2>4. /\ ckpt \in [next : Nodes \cup {"none", "end"}, agent : AgentType]
          /\ exec \in [Executions -> ExecType]
      BY NewAgentTyped DEF Init
    <2> QED
      BY <2>1, <2>2, <2>3, <2>4, StoreAssumption DEF Init, TypeOK, StoreTypeOK, ExecType
  <1>3. OneConversation
    BY NoRowTyped DEF Init, OneConversation, Stored, ToSet
  <1>4. ExchangesCounted
    <2>1. Cardinality(Begun) \in Nat
      BY BegunBound, FS_CardinalityType
    <2> QED
      BY <2>1 DEF Init, ExchangesCounted
  <1>5. ExecutionsFit
    BY <1>1, Ids, NodeNames DEF ExecutionsFit, StateFits, Running
  <1>6. SoloInStep /\ UnknownIsPending
    BY <1>1 DEF Init, SoloInStep, UnknownIsPending, Live
  <1>7. RepliesHaveExecutions
    <2>1. lease[1] # Run /\ \A e \in Executions : row[e].status # "streaming"
      BY Ids, NoRowTyped DEF Init
    <2> QED
      BY <2>1 DEF RepliesHaveExecutions
  <1>8. SoloIsStored
    BY <1>1, NodeNames DEF SoloIsStored
  <1> QED
    BY <1>2, <1>3, <1>4, <1>5, <1>6, <1>7, <1>8 DEF RunInvariant

LEMMA NextHolds == RunInvariant /\ [Next]_vars => RunInvariant'
  <1> SUFFICES ASSUME RunInvariant, [Next]_vars PROVE RunInvariant'
    OBVIOUS
  <1>1. ASSUME NEW e \in Executions, Step(e) PROVE RunInvariant'
    <2>1. CASE InnerStep(e)
      BY <2>1, InnerKinds, MovesStep, EndsUnsettledStep, AbortsStep
    <2> QED
      BY <1>1, <2>1, StartGraphStep, PrepareStep, FailSetupStep, BeginWriteStep,
         FinalizeConversationStep, PutCheckpointStep DEF Step, InnerStep
  <1>2. CASE UNCHANGED vars
    <2>1. UNCHANGED <<recent, created, row, begun, lease, ckpt, exec, recentRequest, other,
                      restarts, solo, unknown>>
      BY <1>2 DEF vars, storeVars, agentVars
    <2>2. TypeOK' /\ OneConversation' /\ ExchangesCounted'
      BY <2>1 DEF RunInvariant, TypeOK, StoreTypeOK, OneConversation, Stored, ExchangesCounted,
                  Begun, Passed, Running
    <2>3. ExecutionsFit' /\ SoloInStep' /\ UnknownIsPending'
      BY <2>1 DEF RunInvariant, ExecutionsFit, SoloInStep, UnknownIsPending, StateFits, Running,
                  Live, Agent, PendingWrite
    <2>4. RepliesHaveExecutions'
      BY <2>1, SameAnswers DEF RunInvariant, RepliesHaveExecutions
    <2>5. SoloIsStored'
      BY <2>1 DEF RunInvariant, SoloIsStored, Stored, Agent
    <2> QED
      BY <2>2, <2>3, <2>4, <2>5 DEF RunInvariant
  <1> QED
    BY <1>1, <1>2, RequestStep, OtherBeginsStep, OtherEndsStep, TimeStep, RestartStep DEF Next

\* The inductive invariant of a run, whatever is requested, refused, cancelled or restarted.
THEOREM InvariantHolds == Spec => []RunInvariant
  BY InitHolds, NextHolds, PTL DEF Spec

\* Every state of the store, the registry, the checkpoint and the executions has its type;
\* in particular no exchange is begun beyond the requests that were sent.
THEOREM TypeCorrect == Spec => []TypeOK
  <1>1. RunInvariant => TypeOK
    BY DEF RunInvariant
  <1> QED
    BY <1>1, InvariantHolds, PTL

\* A write tool the process stopped in is not started again by a resumed or retried
\* execution (checkpoint_state refuses the checkpoint it left).
THEOREM InterruptedWritesStay == Spec => []InterruptedWriteStays
  <1>1. RunInvariant => InterruptedWriteStays
    BY DEF RunInvariant, UnknownIsPending, InterruptedWriteStays, Live
  <1> QED
    BY <1>1, InvariantHolds, PTL

\* Once no execution of the run is alive, an exchange streams on only if the execution that
\* began it ended where nothing settles it, and the conversation is claimed only if one
\* ended where nothing releases it (AgentConversationService's begin, complete, fail and
\* cancel, whichever of their transactions the store refuses).
THEOREM EndedRunsSettle == Spec => []EndedRunSettles
  <1>1. RunInvariant => EndedRunSettles
    <2> SUFFICES ASSUME RunInvariant, Over PROVE EndedRunSettles
      BY DEF EndedRunSettles
    <2>1. ASSUME NEW e \in Executions PROVE ~Holding(e) /\ ~Raising(e)
      BY <2>1 DEF Over, Live, Holding, Running, Raising
    <2> QED
      BY <2>1 DEF RunInvariant, RepliesHaveExecutions, AnswersForReply, AnswersForLease,
                  EndedRunSettles
  <1> QED
    BY <1>1, InvariantHolds, PTL

\* A thread that finished with an answer has that answer as the complete reply of its
\* exchange (finalize_conversation before the last checkpoint).
THEOREM FinishedRunsAreStored == Spec => []FinishedRunIsStored
  <1>1. RunInvariant => FinishedRunIsStored
    BY DEF RunInvariant, SoloIsStored, FinishedRunIsStored
  <1> QED
    BY <1>1, InvariantHolds, PTL
=============================================================================
