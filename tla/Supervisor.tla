----------------------------- MODULE Supervisor -----------------------------
(***************************************************************************)
(* The supervisor agent (services/agent/supervisor.py): an LLM loop whose  *)
(* tools are the child agents, each with its own checkpointed thread, and  *)
(* the confirmation of a child's guarded tools by the user                 *)
(* (middleware/human_validation.py, cancel_human_validation.py).           *)
(*                                                                         *)
(* LangGraph runs an interrupted tool again from its first line.  The n-th *)
(* interrupt() of that run returns the n-th of the answers stored for the  *)
(* tool call, then the answer just given, and raises when there is none.   *)
(*                                                                         *)
(* A guarded tool call of a child is an operation, numbered in the order   *)
(* of their requests.  Messages are abstracted to the kind of the last one.*)
(***************************************************************************)
EXTENDS Naturals, Sequences, FiniteSets

CONSTANTS
    Children,         \* child agents
    OAuthAgents,      \* those whose MCP server is behind OAuth2
    Faults,           \* environment faults that may happen
    AsksPerCall,      \* bound: confirmations a child asks for in one tool call
    MaxOps,           \* bound: guarded operations of the conversation
    RecursionLimit,   \* supersteps of one run (recursion_limit)
    RecommendAfter    \* consecutive calls of one agent (3 in the code)

AllFaults == {"disconnect", "child_error", "stuck_resume", "replan", "reload"}

ASSUME SupervisorAssumption ==
    /\ OAuthAgents \subseteq Children
    /\ Faults \subseteq AllFaults
    /\ AsksPerCall \in Nat /\ MaxOps \in Nat
    /\ RecursionLimit \in Nat \ {0} /\ RecommendAfter \in Nat \ {0}

VARIABLES
    sup,           \* idle | model | tool | interrupted | oauth
    step,          \* in a tool: start | returned | resumed
    agent,         \* the child of the tool call
    idx,           \* interrupts passed by this run of the tool
    resume,        \* answers stored for the tool call
    null,          \* the answer just given, "none" once consumed
    shown,         \* the operation that the stored interrupt shows, or 0
    tail,          \* kind of the last message
    hops,          \* supersteps of this run: the model with its hooks, or the tools
    child,         \* per child: the operation it waits on, its cancel message
    needs_oauth2,
    calls,         \* _AgentCallCounter
    ops,           \* operations requested so far
    asks,          \* confirmations asked in this tool call
    granted,       \* history: operations the user said yes to
    refused,       \* history: the answer that began this run was a "no", and was not missed
    ran            \* history: the operations that ran

tool == <<step, agent, idx, resume, null, shown, asks>>
history == <<ops, granted, refused, ran>>
vars == <<sup, tool, tail, hops, child, needs_oauth2, calls, history>>

NoAgent == ""
NoOp == 0
Ops == 1..MaxOps
Answers == {"yes", "no"}

Init ==
    /\ sup = "idle" /\ step = "start" /\ agent = NoAgent /\ idx = 0
    /\ resume = << >> /\ null = "none" /\ shown = NoOp /\ asks = 0
    /\ tail = "none" /\ hops = 0
    /\ child = [a \in Children |-> [waits |-> NoOp, cancelled |-> FALSE]]
    /\ needs_oauth2 \in SUBSET OAuthAgents
    /\ calls = [agent |-> NoAgent, count |-> 0]
    /\ ops = 0 /\ granted = {} /\ refused = FALSE /\ ran = {}

-----------------------------------------------------------------------------
(* The user.                                                               *)

StartTurn ==
    /\ sup = "idle"
    /\ sup' = "model" /\ tail' = "human" /\ hops' = 0 /\ refused' = FALSE
    /\ UNCHANGED <<tool, child, needs_oauth2, calls, ops, granted, ran>>

\* The answer is stored for the interrupted tool, which runs from its start.
Answer(v) ==
    /\ sup = "interrupted"
    /\ sup' = "tool" /\ step' = "start" /\ idx' = 0 /\ null' = v /\ hops' = 0
    /\ granted' = IF v = "yes" THEN granted \cup {shown} ELSE granted
    /\ refused' = (v = "no")
    /\ UNCHANGED <<agent, resume, shown, asks, tail, child, needs_oauth2, calls, ops, ran>>

\* Mutant: only the supervisor's own thread is closed.
ChildrenNotClosed == child

\* The confirmations the children wait on are withdrawn (their tool calls patched).
ChildrenClosed == [a \in Children |-> [child[a] EXCEPT !.waits = NoOp]]

\* Mutant: the pending tool call gets no result.
CloseStoppedUnpatched ==
    /\ child' = ChildrenClosed
    /\ UNCHANGED tail /\ shown' = NoOp /\ resume' = << >>

\* A stop, or a new request that preempts, arrives during a run.
CloseStopped ==
    /\ child' = ChildrenClosed
    /\ tail' = "ai" /\ shown' = NoOp /\ resume' = << >>

StopRun ==
    /\ sup \in {"model", "tool"}
    /\ sup' = "idle" /\ step' = "start" /\ idx' = 0 /\ null' = "none"
    /\ CloseStopped
    /\ UNCHANGED <<agent, asks, hops, needs_oauth2, calls, history>>

-----------------------------------------------------------------------------
(* The model node.                                                         *)

\* Mutant: the supersteps of a run are not counted.
NextHopStuck == hops

\* A run, which begins at the model, or at the tools if it answers an interrupt or
\* follows a login, takes at most RecursionLimit supersteps.
NextHop == hops + 1
HasHop == hops < RecursionLimit

\* Mutant: the model is called whatever the last tool returned.
MayThinkAlways == sup = "model"

\* cancel_human_validation ends the turn after a cancelled tool.
MayThink == sup = "model" /\ tail # "cancelled"

ModelCalls(a) ==
    /\ MayThink /\ HasHop
    /\ sup' = "tool" /\ step' = "start" /\ agent' = a /\ tail' = "call"
    /\ idx' = 0 /\ resume' = << >> /\ null' = "none"
    /\ asks' = IF child[a].waits = NoOp THEN 0 ELSE 1
    /\ hops' = NextHop
    /\ UNCHANGED <<shown, child, needs_oauth2, calls, history>>

ModelAnswers ==
    /\ MayThink /\ HasHop
    /\ sup' = "idle" /\ tail' = "ai"
    /\ UNCHANGED <<tool, hops, child, needs_oauth2, calls, history>>

ModelEndsCancelled ==
    /\ sup = "model" /\ tail = "cancelled" /\ HasHop
    /\ sup' = "idle" /\ tail' = "ai"
    /\ UNCHANGED <<tool, hops, child, needs_oauth2, calls, history>>

\* GraphRecursionError, before the model or between it and the tools it calls: nothing
\* is patched.
ExceedsLimit(place) ==
    /\ sup = place /\ ~HasHop
    /\ sup' = "idle"
    /\ UNCHANGED <<tool, tail, hops, child, needs_oauth2, calls, history>>

ModelExceedsLimit == ExceedsLimit("model")
ToolsExceedLimit == ExceedsLimit("tool")

-----------------------------------------------------------------------------
(* A tool: _invoke of _create_agent_tool.                                  *)

AtStep(S) == sup = "tool" /\ HasHop /\ step \in S /\ agent \notin needs_oauth2

ToolNeedsOauth2 ==
    /\ sup = "tool" /\ HasHop /\ step = "start" /\ agent \in needs_oauth2
    /\ sup' = "oauth"
    /\ UNCHANGED <<tool, tail, hops, child, needs_oauth2, calls, history>>

\* The websocket authenticates, rebuilds the child and runs the graph from the tool.
OauthResumes ==
    /\ sup = "oauth" /\ sup' = "tool" /\ idx' = 0 /\ hops' = 0
    /\ needs_oauth2' = needs_oauth2 \ {agent}
    /\ UNCHANGED <<step, agent, resume, null, shown, asks, tail, child, calls, history>>

\* Authentication is cancelled or fails: the tool call gets an error result.
OauthFails ==
    /\ sup = "oauth" /\ sup' = "idle"
    /\ tail' = "result" /\ shown' = NoOp /\ resume' = << >> /\ null' = "none"
    /\ UNCHANGED <<step, agent, idx, asks, hops, child, needs_oauth2, calls, history>>

\* Reloading the child's tools raises: the tool call gets no result.
ReloadFails ==
    /\ "reload" \in Faults
    /\ sup = "oauth" /\ sup' = IF shown = NoOp THEN "idle" ELSE "interrupted"
    /\ null' = "none"
    /\ UNCHANGED <<step, agent, idx, resume, shown, asks, tail, hops, child, needs_oauth2, calls, history>>

Ask(o) ==
    /\ sup' = "interrupted" /\ shown' = o /\ step' = "start" /\ idx' = 0
    /\ UNCHANGED <<agent, resume, null, asks, tail, hops, child, needs_oauth2, calls, history>>

\* Whether interrupt() returns, and what.
HasAnswer == idx < Len(resume) \/ null # "none"
NextAnswer == IF idx < Len(resume) THEN resume[idx + 1] ELSE null
TakeAnswer ==
    /\ idx' = idx + 1
    /\ IF idx < Len(resume) THEN UNCHANGED <<resume, null>>
       ELSE resume' = Append(resume, null) /\ null' = "none"

\* The child stops working: it ends, or asks for the confirmation of an operation.
ChildStops(a, cancelled) ==
    \/ /\ child' = [child EXCEPT ![a] = [waits |-> NoOp, cancelled |-> cancelled]]
       /\ UNCHANGED <<ops, asks>>
    \/ /\ ops < MaxOps /\ asks < AsksPerCall /\ ops' = ops + 1 /\ asks' = asks + 1
       /\ child' = [child EXCEPT ![a] = [waits |-> ops + 1, cancelled |-> cancelled]]

\* The user's answer, if there is one, does not reach an operation of the child.
MissesAnswer == refused' = FALSE

\* The child waits on nothing: it is given the query, also when the user has answered
\* and it had gone on before the connection was lost.
ToolSends ==
    /\ AtStep({"start"}) /\ child[agent].waits = NoOp
    /\ ChildStops(agent, child[agent].cancelled)
    /\ step' = "returned"
    /\ MissesAnswer
    /\ UNCHANGED <<sup, agent, idx, resume, null, shown, tail, hops, needs_oauth2, calls,
                   granted, ran>>

\* The child waits on an operation: ask the user,
ToolAsks ==
    /\ AtStep({"start"}) /\ child[agent].waits # NoOp /\ ~HasAnswer
    /\ Ask(child[agent].waits)

\* Mutant: an earlier yes to the operation still counts.
ConfirmedBefore(v) == v = "yes" \/ child[agent].waits \in granted

\* human_validation: only "yes" runs the operation.
Confirms(v) == v = "yes"

\* and resume it with the answer.  The operation ran, and the child goes on, ...
ToolResumesConfirmed ==
    /\ AtStep({"start"}) /\ child[agent].waits # NoOp /\ HasAnswer
    /\ Confirms(NextAnswer)
    /\ TakeAnswer
    /\ ran' = ran \cup {child[agent].waits}
    /\ ChildStops(agent, child[agent].cancelled)
    /\ step' = "resumed"
    /\ UNCHANGED <<sup, agent, shown, tail, hops, needs_oauth2, calls, granted, refused>>

\* ... or it is cancelled, and the child ends.
ToolResumesDeclined ==
    /\ AtStep({"start"}) /\ child[agent].waits # NoOp /\ HasAnswer
    /\ ~Confirms(NextAnswer)
    /\ TakeAnswer
    /\ child' = [child EXCEPT ![agent] = [waits |-> NoOp, cancelled |-> TRUE]]
    /\ step' = "resumed"
    /\ UNCHANGED <<sup, agent, shown, asks, tail, hops, needs_oauth2, calls,
                   ops, granted, refused, ran>>

\* The preview is made again on resume.  When that fails the answer, even a "no", is
\* not used: the operation does not run and the child goes on with the error.
ToolResumesUnprepared ==
    /\ "replan" \in Faults
    /\ AtStep({"start"}) /\ child[agent].waits # NoOp /\ HasAnswer
    /\ TakeAnswer
    /\ ChildStops(agent, child[agent].cancelled)
    /\ step' = "resumed" /\ MissesAnswer
    /\ UNCHANGED <<sup, agent, shown, tail, hops, needs_oauth2, calls, granted, ran>>

\* The tool ends with a result for the model.
Return(kind) ==
    /\ sup' = "model" /\ tail' = kind /\ hops' = NextHop
    /\ step' = "start" /\ idx' = 0 /\ resume' = << >> /\ null' = "none" /\ shown' = NoOp
    /\ UNCHANGED <<agent, asks, needs_oauth2, ops, granted>>

\* The child raises on the query.
ToolSendFails ==
    /\ "child_error" \in Faults
    /\ AtStep({"start"}) /\ child[agent].waits = NoOp
    /\ Return("result") /\ MissesAnswer
    /\ UNCHANGED <<child, calls, ran>>

\* The child raises once the operation has run (a declined child ends without calling
\* its LLM), or the resume fails before it and leaves the child waiting.
ToolResumeFails ==
    /\ AtStep({"start"}) /\ child[agent].waits # NoOp /\ HasAnswer
    /\ \/ /\ "child_error" \in Faults /\ Confirms(NextAnswer)
          /\ ran' = ran \cup {child[agent].waits}
          /\ child' = [child EXCEPT ![agent].waits = NoOp]
       \/ "stuck_resume" \in Faults /\ UNCHANGED <<child, ran>>
    /\ Return("result") /\ MissesAnswer
    /\ UNCHANGED calls

\* The resumed child's messages hold a cancelled operation, of this turn or before.
FindsCancelled == step = "resumed" /\ child[agent].cancelled

ToolCancelled ==
    /\ AtStep({"resumed"}) /\ FindsCancelled
    /\ Return("cancelled")
    /\ UNCHANGED <<child, calls, refused, ran>>

\* The child stopped on a new confirmation: ask the user for it.
ToolAsksAgain ==
    /\ AtStep({"returned", "resumed"}) /\ ~FindsCancelled
    /\ child[agent].waits # NoOp /\ ~HasAnswer
    /\ Ask(child[agent].waits)

\* Mutant: the counter goes on after the recommendation.
RecordCallNoReset ==
    calls' = [agent |-> agent, count |-> IF calls.agent = agent THEN calls.count + 1 ELSE 1]

\* _AgentCallCounter.record, reset once a recommendation was made.
RecordCall ==
    LET n == IF calls.agent = agent THEN calls.count + 1 ELSE 1
    IN  calls' = [agent |-> agent, count |-> IF n >= RecommendAfter THEN 0 ELSE n]

\* Mutant: a child that stopped on a confirmation is taken for done.
MayReturnPaused == AtStep({"returned", "resumed"})

\* The child is done, or interrupt() returned an answer stored before.
MayReturn ==
    /\ AtStep({"returned", "resumed"}) /\ ~FindsCancelled
    /\ child[agent].waits # NoOp => HasAnswer

ToolReturns ==
    /\ MayReturn
    /\ Return("result") /\ RecordCall
    /\ UNCHANGED <<child, refused, ran>>

-----------------------------------------------------------------------------
(* The connection or the process is lost; the client connects again and the *)
(* agents are rebuilt.  An interrupt is stored until its tool returns.      *)
Disconnect ==
    /\ "disconnect" \in Faults
    /\ IF sup \in {"idle", "interrupted"} THEN UNCHANGED <<sup, null>>
       ELSE /\ sup' = IF shown = NoOp THEN "idle" ELSE "interrupted"
            /\ null' = "none"
    /\ step' = "start" /\ idx' = 0 /\ refused' = FALSE
    \* an operation may have run although its child's thread still waits on it
    /\ \/ UNCHANGED ran
       \/ /\ AtStep({"start"}) /\ child[agent].waits # NoOp /\ HasAnswer /\ Confirms(NextAnswer)
          /\ ran' = ran \cup {child[agent].waits}
    /\ needs_oauth2' \in SUBSET OAuthAgents
    /\ calls' = [agent |-> NoAgent, count |-> 0]
    /\ UNCHANGED <<agent, resume, shown, asks, tail, hops, child, ops, granted>>

User == StartTurn \/ StopRun \/ \E v \in Answers : Answer(v)

Model == \/ \E a \in Children : ModelCalls(a)
         \/ ModelAnswers \/ ModelEndsCancelled \/ ModelExceedsLimit

Tool == \/ ToolNeedsOauth2 \/ ToolSends \/ ToolAsks
        \/ ToolResumesConfirmed \/ ToolResumesDeclined \/ ToolResumesUnprepared
        \/ ToolSendFails \/ ToolResumeFails \/ ToolCancelled \/ ToolAsksAgain
        \/ ToolReturns \/ ToolsExceedLimit

Oauth == OauthResumes \/ OauthFails \/ ReloadFails

Next == User \/ Model \/ Tool \/ Oauth \/ Disconnect

Spec == Init /\ [][Next]_vars

\* The event loop runs a started run; LLM and child calls return.
FairSpec == Spec /\ WF_vars(Model) /\ WF_vars(Tool)

-----------------------------------------------------------------------------
\* The type of the state: a bounded number of hops, operations and confirmations,
\* and needs_oauth2 only ever of children behind OAuth2.
TypeOK ==
    /\ sup \in {"idle", "model", "tool", "interrupted", "oauth"}
    /\ step \in {"start", "returned", "resumed"}
    /\ agent \in Children \cup {NoAgent}
    /\ idx \in Nat /\ resume \in Seq(Answers) /\ null \in Answers \cup {"none"}
    /\ shown \in 0..MaxOps /\ tail \in {"none", "human", "call", "result", "cancelled", "ai"}
    /\ hops \in 0..RecursionLimit
    /\ child \in [Children -> [waits : 0..MaxOps, cancelled : BOOLEAN]]
    /\ needs_oauth2 \subseteq OAuthAgents
    /\ calls \in [agent : Children \cup {NoAgent}, count : 0..(RecommendAfter - 1)]
    /\ ops \in 0..MaxOps /\ asks \in 0..AsksPerCall
    /\ granted \subseteq Ops /\ refused \in BOOLEAN /\ ran \subseteq Ops

\* A guarded operation runs only if the user said yes to that very operation.
\* Answers are matched to interrupts by position, and the interrupts of a tool
\* call are raised from two places of a function that runs again each time.
RunsOnlyGranted == ran \subseteq granted

\* An operation runs only on the answer that the user has just given, and only the one
\* he was shown: a yes that was given before a stop or a lost connection, or to a
\* confirmation that was asked before, runs nothing later.
RunsOnLastAnswer ==
    [][ran' # ran => null = "yes" /\ shown # NoOp /\ ran' = ran \cup {shown}]_vars

\* When a tool call gets its result, by whatever way, its child does not wait for the
\* user any more, so that no confirmation meets a later query: unless resuming the child
\* failed, or logging in did, which both leave the child's thread as it is.
ConfirmationEndsWithCall ==
    [][tail = "call" /\ tail' \in {"result", "cancelled", "ai"} /\ child'[agent].waits # NoOp
        => ToolResumeFails \/ OauthFails]_vars

\* A confirmation that a child stops on is surfaced to the user before its tool call is
\* answered (_create_agent_tool: "re-triggered at the supervisor level").
NoForgottenConfirmation ==
    [][ToolReturns \/ ToolCancelled => child[agent].waits = NoOp]_vars

\* A tool is reported as cancelled only if the user's last answer was a "no".
CancelledMeansDeclined == tail = "cancelled" => refused

\* A "no" ends the run: no child is called after it.  It does not when the child misses
\* it (MissesAnswer): the preview fails when it is made again, or the resume does, or
\* the child had gone on before the connection was lost; then the LLM goes on.
DeclineEndsTurn == [][\A a \in Children : ModelCalls(a) => ~refused]_vars

\* A run leaves a tool call without result, with which the LLM refuses the conversation
\* (_patch_tool_result), in three ways only: the connection is lost, the tools of a child
\* fail to load after a login, or the recursion limit falls between the model and the
\* tools.  A stop, a failed login and a child that raises leave none.
DanglingCallsKnown ==
    [][sup # "idle" /\ sup' = "idle" /\ tail' = "call"
        => Disconnect \/ ReloadFails \/ ToolsExceedLimit]_vars

\* Every run ends or stops for the user.
RunsEnd == sup \in {"model", "tool"} ~> sup \notin {"model", "tool"}
=============================================================================
