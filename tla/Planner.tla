------------------------------ MODULE Planner ------------------------------
(***************************************************************************)
(* The planner agent (services/agent/planner): a LangGraph state graph     *)
(* that plans a request, asks the user to approve the plan, runs its       *)
(* subtasks one after the other in child agents and reduces their results. *)
(*                                                                         *)
(* One action per node outcome.  A node's state update is checkpointed     *)
(* only when the node returns, whereas a child agent checkpoints its own   *)
(* thread while it works, so the execute node is split at the points where *)
(* the child's thread changes: a run cut there (stop, lost connection,     *)
(* error) leaves the child ahead of the planner.                           *)
(*                                                                         *)
(* Abstracted data: the text of messages (only the kind of the last one,   *)
(* and of the one before the request, decide anything), the wording of a   *)
(* task (an identifier <<plan, step>>) and the events sent to the client.  *)
(***************************************************************************)
EXTENDS Naturals, Sequences, FiniteSets

CONSTANTS
    AgentNames,           \* names the LLM may write in a plan
    ChildAgents,          \* names for which a child agent was built
    OAuthAgents,          \* child agents whose MCP server is behind OAuth2
    PlanApprovalEnabled,  \* PLAN_APPROVAL_ENABLED
    PlanStatuses,         \* statuses the LLM may give a subtask of a new plan
    Faults,               \* environment faults that may happen
    MaxSubtasks,          \* bound: subtasks of a plan
    MaxPlans,             \* bound: plans drafted by the LLM in one thread
    MaxFeedback,          \* bound: rounds of feedback given in one thread
    RecommendAfter        \* consecutive subtasks of one agent (5 in the code)

Statuses == {"pending", "in_progress", "completed", "cancelled", "failed"}
AllFaults == {"disconnect", "error", "stuck_resume"}

ASSUME PlannerAssumption ==
    /\ ChildAgents \subseteq AgentNames
    /\ OAuthAgents \subseteq ChildAgents
    /\ PlanApprovalEnabled \in BOOLEAN
    /\ PlanStatuses \subseteq Statuses
    /\ Faults \subseteq AllFaults
    /\ MaxSubtasks \in Nat
    /\ MaxPlans \in Nat
    /\ MaxFeedback \in Nat
    /\ RecommendAfter \in Nat \ {0}

VARIABLES
    mode,            \* idle | running | interrupted | oauth
    node,            \* the graph node scheduled next ("end" when none is)
    work,            \* where the running execute node is with its child
    request,         \* the latest user message, by what the planner does with it
    tail,            \* kind of the last message of the messages channel
    prior,           \* kind of the message before the latest request
    answer,          \* resume value of an interrupt not consumed yet
    wait,            \* interrupt stored in the checkpoint
    subtasks, results, cancelled, feedback, retry, awaiting_input,
    child,           \* each child agent's thread: phase and last task given
    needs_oauth2,    \* child agents built without their tools
    calls,           \* _AgentCallCounter
    plans,           \* plans drafted so far (names the tasks)
    approved         \* history: plans the user answered "yes" to

state == <<subtasks, results, cancelled, feedback, retry, awaiting_input>>
vars == <<mode, node, work, request, tail, prior, answer, wait, state, child,
          needs_oauth2, calls, plans, approved>>

NoAgent == ""
Nodes == {"end", "plan", "approval", "execute", "reduce", "ui_tools", "summarize"}
Requests == {"task", "retry", "restart", "details", "cancel"}
MessageKinds == {"none", "human", "ai", "failed", "cancelled"}
Tasks == (1..MaxPlans) \X (1..MaxSubtasks)
NoTask == <<0, 0>>

\* SubTask: the plan as stored in the state, in order.
SubTask == [task : Tasks, agent : AgentNames, status : Statuses]
\* An entry of results: the subtask it is filed under, and the task that the
\* child's thread was actually working on when it answered.
Result == [task : Tasks, got : Tasks \cup {NoTask}]
ChildThread == [phase : {"idle", "running", "paused"}, task : Tasks \cup {NoTask}]

IsDirectHandoff(sts) == Len(sts) = 1
HasStatus(sts, S) == \E i \in DOMAIN sts : sts[i].status \in S

\* The in-progress subtask if there is one, else the first pending one.
NextSubtasks(sts) ==
    IF HasStatus(sts, {"in_progress"})
    THEN {i \in DOMAIN sts : sts[i].status = "in_progress"}
    ELSE {i \in DOMAIN sts : sts[i].status = "pending"}
IsNextSubtask(sts, i) ==
    /\ i \in NextSubtasks(sts)
    /\ \A j \in NextSubtasks(sts) : i <= j

WithStatus(sts, i, s) == [sts EXCEPT ![i].status = s]

\* Mutant: the retry flag left by an earlier turn skips the approval.
RouteAfterPlanStaleRetry(sts, awaiting, again) ==
    IF sts = << >> THEN "summarize"
    ELSE IF awaiting \/ IsDirectHandoff(sts) \/ ~PlanApprovalEnabled \/ again \/ retry
         THEN "execute" ELSE "approval"

RouteAfterPlan(sts, awaiting, again) ==
    IF sts = << >> THEN "summarize"
    ELSE IF awaiting \/ IsDirectHandoff(sts) \/ ~PlanApprovalEnabled \/ again
         THEN "execute" ELSE "approval"

\* Mutant: comments on the plan are taken for a yes.
RouteAfterApprovalIgnoresFeedback(stopped, comments) ==
    IF stopped THEN "summarize" ELSE "execute"

RouteAfterApproval(stopped, comments) ==
    IF stopped THEN "summarize" ELSE IF comments > 0 THEN "plan" ELSE "execute"

\* Mutants: a stopped plan goes on; a question is not left to the user.
RouteNextGoesOn(sts, stopped, awaiting) ==
    IF awaiting THEN "summarize"
    ELSE IF HasStatus(sts, {"in_progress", "pending"}) THEN "execute"
    ELSE IF IsDirectHandoff(sts) THEN "ui_tools" ELSE "reduce"
RouteNextAsksAgain(sts, stopped, awaiting) ==
    IF stopped THEN "summarize"
    ELSE IF HasStatus(sts, {"in_progress", "pending"}) THEN "execute"
    ELSE IF IsDirectHandoff(sts) THEN "ui_tools" ELSE "reduce"

RouteNext(sts, stopped, awaiting) ==
    IF stopped \/ awaiting THEN "summarize"
    ELSE IF HasStatus(sts, {"in_progress", "pending"}) THEN "execute"
    ELSE IF IsDirectHandoff(sts) THEN "ui_tools" ELSE "reduce"

-----------------------------------------------------------------------------
Init ==
    /\ mode = "idle" /\ node = "end" /\ work = "none" /\ request = "task"
    /\ tail = "none" /\ prior = "none" /\ answer = "none" /\ wait = "none"
    /\ subtasks = << >> /\ results = << >> /\ cancelled = FALSE
    /\ feedback = 0 /\ retry = FALSE /\ awaiting_input = FALSE
    /\ child = [a \in ChildAgents |-> [phase |-> "idle", task |-> NoTask]]
    /\ needs_oauth2 \in SUBSET OAuthAgents
    /\ calls = [agent |-> NoAgent, count |-> 0]
    /\ plans = 0 /\ approved = {}

-----------------------------------------------------------------------------
(* The user, through the websocket loop.                                   *)

\* A message that resumes no interrupt starts a new turn at the plan node.
StartTurn(r) ==
    /\ mode = "idle"
    /\ mode' = "running" /\ node' = "plan" /\ request' = r
    /\ prior' = tail /\ tail' = "human"
    /\ UNCHANGED <<work, answer, wait, state, child, needs_oauth2, calls, plans, approved>>

\* A message that arrives while an interrupt is stored resumes it.
ResumeTurn(a) ==
    /\ mode = "interrupted"
    /\ a = "other" /\ wait = "approval" => feedback < MaxFeedback
    /\ mode' = "running" /\ answer' = a
    /\ UNCHANGED <<node, work, request, tail, prior, wait, state, child,
                   needs_oauth2, calls, plans, approved>>

\* Mutants: the reset forgets the question, or the plan.
ResetStoppedKeepsQuestion ==
    /\ subtasks' = << >> /\ results' = << >> /\ cancelled' = FALSE
    /\ feedback' = 0 /\ retry' = FALSE /\ UNCHANGED awaiting_input
    /\ tail' = "ai"
ResetStoppedKeepsPlan ==
    /\ UNCHANGED subtasks /\ results' = << >> /\ cancelled' = FALSE
    /\ feedback' = 0 /\ retry' = FALSE /\ awaiting_input' = FALSE
    /\ tail' = "ai"

\* The state reset of a stopped planner thread, closed by an AI message.
ResetStopped ==
    /\ subtasks' = << >> /\ results' = << >> /\ cancelled' = FALSE
    /\ feedback' = 0 /\ retry' = FALSE /\ awaiting_input' = FALSE
    /\ tail' = "ai"

\* Mutant: the confirmation a child waits on survives the stop.
ChildrenLeftPaused ==
    [a \in ChildAgents |->
        IF child[a].phase = "running" THEN [child[a] EXCEPT !.phase = "idle"] ELSE child[a]]

ChildrenClosed == [a \in ChildAgents |-> [child[a] EXCEPT !.phase = "idle"]]

\* A message (stop, or a new request that preempts) arrives during a run: the
\* run is cancelled; its thread is reset unless it already ends with a reply.
StopRun ==
    /\ mode = "running"
    /\ mode' = "idle" /\ node' = "end" /\ work' = "none"
    /\ answer' = "none" /\ wait' = "none"
    /\ child' = ChildrenClosed
    /\ IF tail \in {"ai", "failed", "cancelled"} THEN UNCHANGED <<state, tail>> ELSE ResetStopped
    /\ UNCHANGED <<request, prior, needs_oauth2, calls, plans, approved>>

\* A stop arrives while nothing runs and a plan waits for the user.
StopWaitingPlan ==
    /\ mode \in {"idle", "interrupted"} /\ subtasks # << >>
    /\ mode = "interrupted" \/ awaiting_input
    /\ mode' = "idle" /\ node' = "end" /\ answer' = "none" /\ wait' = "none"
    /\ child' = ChildrenClosed
    /\ ResetStopped
    /\ UNCHANGED <<work, request, prior, needs_oauth2, calls, plans, approved>>

\* The run ends by an exception or is cut: nothing of the current node is kept,
\* and an interrupt the node had consumed is still stored in the checkpoint.
AbortRun ==
    /\ mode' = IF wait = "none" THEN "idle" ELSE "interrupted"
    /\ node' = IF wait = "none" THEN "end" ELSE node
    /\ work' = "none" /\ answer' = "none"
    /\ UNCHANGED <<request, tail, prior, wait, state, plans, approved>>

CutChildren ==
    [a \in ChildAgents |->
        IF child[a].phase = "running" THEN [child[a] EXCEPT !.phase = "idle"] ELSE child[a]]

\* The connection or the process is lost and the client connects again: the
\* agents are rebuilt, so the counter restarts and OAuth2 needs are re-evaluated.
Disconnect ==
    /\ "disconnect" \in Faults
    /\ \/ mode \in {"running", "oauth"} /\ AbortRun
       \/ mode \in {"idle", "interrupted"}
          /\ UNCHANGED <<mode, node, work, answer, request, tail, prior, wait, state, plans, approved>>
    /\ child' = CutChildren
    /\ needs_oauth2' \in SUBSET OAuthAgents
    /\ calls' = [agent |-> NoAgent, count |-> 0]

\* The LLM call of a node raises.
RunError ==
    /\ "error" \in Faults
    /\ mode = "running" /\ work = "none" /\ node \in {"plan", "reduce", "summarize"}
    /\ AbortRun
    /\ UNCHANGED <<child, needs_oauth2, calls>>

-----------------------------------------------------------------------------
(* plan                                                                    *)

AtNode(n) == mode = "running" /\ node = n /\ work = "none"

AnswersQuestion == awaiting_input /\ HasStatus(subtasks, {"in_progress"})

\* The message answers a subtask's question: keep the plan and forward it.
PlanForwardsAnswer ==
    /\ AtNode("plan") /\ AnswersQuestion
    /\ node' = RouteAfterPlan(subtasks, awaiting_input, retry)
    /\ UNCHANGED <<mode, work, request, tail, prior, answer, wait, state, child,
                   needs_oauth2, calls, plans, approved>>

\* Quick actions after a failed plan that need no plan: details and cancel.
IsFailureAction == prior = "failed" /\ request \in {"details", "cancel"}

PlanFailureAction ==
    /\ AtNode("plan") /\ ~AnswersQuestion /\ IsFailureAction
    /\ subtasks' = << >> /\ results' = << >> /\ feedback' = 0
    /\ cancelled' = (request = "cancel")
    /\ tail' = "ai"
    /\ node' = RouteAfterPlan(<< >>, awaiting_input, retry)
    /\ UNCHANGED <<mode, work, request, prior, answer, wait, retry, awaiting_input,
                   child, needs_oauth2, calls, plans, approved>>

\* Mutant: a retry runs the completed subtasks again.
RetriedFromStart == [i \in 1..Len(subtasks) |-> [subtasks[i] EXCEPT !.status = "pending"]]

\* The stopped plan with its failed or cancelled subtasks, or all of them, pending.
RetriedSubtasks ==
    [i \in 1..Len(subtasks) |->
        IF request = "restart" \/ subtasks[i].status \in {"failed", "cancelled"}
        THEN [subtasks[i] EXCEPT !.status = "pending"] ELSE subtasks[i]]

\* Mutant: the word alone decides, whatever the last turn ended with.
IsQuickRetryByWord == request \in {"retry", "restart"}

IsQuickRetry == prior \in {"failed", "cancelled"} /\ request \in {"retry", "restart"}

\* Plans the LLM may draft; each subtask is a task of its own.
Draft(choice) ==
    [i \in DOMAIN choice |->
        [task |-> <<plans + 1, i>>, agent |-> choice[i][1], status |-> choice[i][2]]]
DraftedSubtasks ==
    UNION {{Draft(choice) : choice \in [1..n -> AgentNames \X PlanStatuses]} : n \in 1..MaxSubtasks}

\* The kinds of outcome of _create_plan that carry no subtasks: no usable plan,
\* a direct reply, or a cancellation.
EmptyPlans == IF IsQuickRetry THEN (IF subtasks = << >> THEN {"none"} ELSE {})
              ELSE {"none", "reply", "cancel"}

PlanKeeps == <<mode, work, request, prior, answer, wait, child, needs_oauth2, calls>>

\* _reject_plan, shared by the plan and approval nodes.
RejectPlan ==
    /\ subtasks' = << >> /\ results' = << >> /\ cancelled' = TRUE /\ feedback' = 0
    /\ tail' = "ai"
    /\ UNCHANGED <<retry, awaiting_input>>

Planning == AtNode("plan") /\ ~AnswersQuestion /\ ~IsFailureAction

\* The outcome carries no subtasks: a cancelled revision rejects the plan,
\* a reply or a failure to plan answers the user; the turn ends either way.
PlanEndsTurn(kind) ==
    /\ Planning /\ kind \in EmptyPlans
    /\ \/ /\ kind = "cancel" \/ (kind = "none" /\ feedback > 0)
          /\ RejectPlan
       \/ /\ kind = "reply" \/ (kind = "none" /\ feedback = 0)
          /\ subtasks' = << >> /\ results' = << >> /\ cancelled' = FALSE /\ feedback' = 0
          /\ tail' = "ai"
          /\ UNCHANGED <<retry, awaiting_input>>
    /\ node' = RouteAfterPlan(<< >>, awaiting_input, retry)
    /\ UNCHANGED <<PlanKeeps, plans, approved>>

\* Mutant: a restarted plan keeps its results as well.
StorePlanKeepsResults(sts, again) ==
    /\ subtasks' = sts
    /\ results' = IF again THEN results ELSE << >>
    /\ cancelled' = FALSE /\ retry' = again
    /\ node' = RouteAfterPlan(sts, awaiting_input, again)
    /\ UNCHANGED <<PlanKeeps, tail, feedback, awaiting_input, approved>>

\* The plan is stored; only a retried plan keeps the results of the last run.
StorePlan(sts, again) ==
    /\ subtasks' = sts
    /\ results' = IF again /\ request = "retry" THEN results ELSE << >>
    /\ cancelled' = FALSE /\ retry' = again
    /\ node' = RouteAfterPlan(sts, awaiting_input, again)
    /\ UNCHANGED <<PlanKeeps, tail, feedback, awaiting_input, approved>>

PlanRetries ==
    /\ Planning /\ IsQuickRetry /\ subtasks # << >>
    /\ StorePlan(RetriedSubtasks, TRUE)
    /\ UNCHANGED plans

PlanDrafts ==
    /\ Planning /\ ~IsQuickRetry /\ plans < MaxPlans
    /\ \E sts \in DraftedSubtasks : StorePlan(sts, FALSE)
    /\ plans' = plans + 1

-----------------------------------------------------------------------------
(* approval                                                                *)

Interrupt(kind) ==
    /\ mode' = "interrupted" /\ wait' = kind
    /\ UNCHANGED <<node, work, request, tail, prior, answer, state, child,
                   needs_oauth2, calls, plans, approved>>

ApprovalAsks == AtNode("approval") /\ answer = "none" /\ Interrupt("approval")

ApprovalAnswered ==
    /\ AtNode("approval") /\ answer # "none"
    /\ \/ /\ answer = "yes"
          /\ feedback' = 0
          /\ approved' = approved \cup {subtasks[1].task[1]}
          /\ UNCHANGED <<subtasks, results, cancelled, retry, awaiting_input, tail>>
       \/ /\ answer = "no"
          /\ RejectPlan
          /\ UNCHANGED approved
       \/ /\ answer = "other"
          /\ feedback' = feedback + 1
          /\ UNCHANGED <<subtasks, results, cancelled, retry, awaiting_input, tail, approved>>
    /\ node' = RouteAfterApproval(cancelled', feedback')
    /\ answer' = "none" /\ wait' = "none"
    /\ UNCHANGED <<mode, work, request, prior, child, needs_oauth2, calls, plans>>

-----------------------------------------------------------------------------
(* execute: the child is given its message, works, and its answer is judged *)

\* What the execute node returns: its update, and awaiting_input unless set.
ExecuteReturns(sts, res, stopped, awaiting, kind) ==
    /\ subtasks' = sts /\ results' = res /\ cancelled' = stopped
    /\ awaiting_input' = awaiting /\ tail' = kind
    /\ node' = RouteNext(sts, stopped, awaiting)
    /\ work' = "none" /\ answer' = "none" /\ wait' = "none"
    /\ UNCHANGED <<mode, request, prior, feedback, retry, needs_oauth2, plans, approved>>

\* Mutant: a failed subtask does not stop the plan.
FailPlanGoesOn(i) ==
    ExecuteReturns(WithStatus(subtasks, i, "failed"), results, FALSE, FALSE, "failed")

FailPlan(i) ==
    ExecuteReturns(WithStatus(subtasks, i, "failed"), results, TRUE, FALSE, "failed")

CancelPlan(i) ==
    ExecuteReturns(WithStatus(subtasks, i, "cancelled"), results, TRUE, FALSE, "cancelled")

\* _next_subtask_index raises a ValueError.
ExecuteFindsNothing ==
    /\ AtNode("execute") /\ NextSubtasks(subtasks) = {}
    /\ AbortRun
    /\ UNCHANGED <<child, needs_oauth2, calls>>

ExecuteUnknownAgent ==
    /\ AtNode("execute")
    /\ \E i \in DOMAIN subtasks :
        /\ IsNextSubtask(subtasks, i) /\ subtasks[i].agent \notin ChildAgents
        /\ FailPlan(i)
    /\ UNCHANGED <<child, calls>>

\* The subtask to run and its child agent, which was built with its tools.
ExecuteReady(i, a) ==
    /\ AtNode("execute") /\ i \in DOMAIN subtasks /\ IsNextSubtask(subtasks, i)
    /\ a = subtasks[i].agent /\ a \in ChildAgents /\ a \notin needs_oauth2

ExecuteNeedsOauth2 ==
    /\ AtNode("execute")
    /\ \E i \in DOMAIN subtasks : IsNextSubtask(subtasks, i) /\ subtasks[i].agent \in needs_oauth2
    /\ mode' = "oauth"
    /\ UNCHANGED <<node, work, request, tail, prior, answer, wait, state, child,
                   needs_oauth2, calls, plans, approved>>

\* The websocket authenticates, rebuilds the child and runs the node again.
OauthResumes ==
    /\ mode = "oauth" /\ mode' = "running"
    /\ needs_oauth2' = needs_oauth2 \ {subtasks[i].agent : i \in NextSubtasks(subtasks)}
    /\ UNCHANGED <<node, work, request, tail, prior, answer, wait, state, child,
                   calls, plans, approved>>

OauthAbandoned == mode = "oauth" /\ AbortRun /\ UNCHANGED <<child, needs_oauth2, calls>>

\* The child is not paused: it is sent the user's reply, or the task message.
ExecuteSends(i, a) ==
    /\ ExecuteReady(i, a) /\ child[a].phase = "idle"
    /\ work' = "sent"
    /\ child' = [child EXCEPT ![a] =
                    [phase |-> "running",
                     task |-> IF awaiting_input THEN @.task ELSE subtasks[i].task]]
    /\ UNCHANGED <<mode, node, request, tail, prior, answer, wait, state,
                   needs_oauth2, calls, plans, approved>>

\* The child is paused on a confirmation: ask the user for the decision.
ExecuteSurfaces(i, a) ==
    /\ ExecuteReady(i, a) /\ child[a].phase = "paused" /\ answer = "none"
    /\ Interrupt("confirm")

\* ... and resume the child with it.
ExecuteResumesChild(i, a) ==
    /\ ExecuteReady(i, a) /\ child[a].phase = "paused" /\ answer # "none"
    /\ work' = IF answer = "yes" THEN "resumed" ELSE "declined"
    /\ child' = [child EXCEPT ![a].phase = "running"]
    /\ UNCHANGED <<mode, node, request, tail, prior, answer, wait, state,
                   needs_oauth2, calls, plans, approved>>

\* The subtask the execute node is busy with, and its agent.
Busy(i, a, S) ==
    /\ mode = "running" /\ work \in S
    /\ i \in DOMAIN subtasks /\ IsNextSubtask(subtasks, i) /\ a = subtasks[i].agent

\* The child ends, or pauses on a confirmation: its own thread is checkpointed.
ChildStops(i, a, phase) ==
    /\ Busy(i, a, {"sent", "resumed"})
    /\ phase = "paused" \/ phase = "idle"
    /\ child' = [child EXCEPT ![a].phase = phase]
    /\ work' = IF phase = "paused" THEN "paused" ELSE "answered"
    /\ UNCHANGED <<mode, node, request, tail, prior, answer, wait, state,
                   needs_oauth2, calls, plans, approved>>

\* The child raises.  A direct hand-off lets the error through to the user; a
\* failed resume may leave the child paused on the same confirmation.
ChildRaises(i, a) ==
    /\ Busy(i, a, {"sent", "resumed"})
    /\ \/ child' = [child EXCEPT ![a].phase = "idle"]
       \/ /\ work = "resumed" /\ "stuck_resume" \in Faults
          /\ child' = [child EXCEPT ![a].phase = "paused"]
    /\ IF work = "sent" /\ IsDirectHandoff(subtasks)
       THEN AbortRun /\ UNCHANGED needs_oauth2 ELSE FailPlan(i)
    /\ UNCHANGED calls

\* The child paused: return with the subtask in progress, to be run again.
ExecutePausedReturns(i, a) ==
    /\ Busy(i, a, {"paused"})
    /\ ExecuteReturns(WithStatus(subtasks, i, "in_progress"), results, cancelled, FALSE, tail)
    /\ UNCHANGED <<child, calls>>

\* The user declined the child's confirmation: the plan is cancelled.
ExecuteDeclinedReturns(i, a) ==
    /\ Busy(i, a, {"declined"})
    /\ child' = [child EXCEPT ![a].phase = "idle"]
    /\ CancelPlan(i)
    /\ UNCHANGED calls

\* Mutant: the counter is not reset after the recommendation.
RecordCallNoReset(a) ==
    calls' = [agent |-> a, count |-> IF calls.agent = a THEN calls.count + 1 ELSE 1]

\* _AgentCallCounter.record, reset once a recommendation was made.
RecordCall(a) ==
    LET n == IF calls.agent = a THEN calls.count + 1 ELSE 1
    IN  calls' = [agent |-> a, count |-> IF n >= RecommendAfter THEN 0 ELSE n]

\* _evaluate_subtask says the subtask is completed.
ExecuteCompletes(i, a) ==
    /\ Busy(i, a, {"answered"})
    /\ RecordCall(a)
    /\ ExecuteReturns(WithStatus(subtasks, i, "completed"),
                      Append(results, [task |-> subtasks[i].task, got |-> child[a].task]),
                      cancelled, FALSE,
                      IF IsDirectHandoff(subtasks) THEN "ai" ELSE tail)
    /\ UNCHANGED child

\* ... that the child asks the user for more information.
ExecuteNeedsInput(i, a) ==
    /\ Busy(i, a, {"answered"})
    /\ ExecuteReturns(WithStatus(subtasks, i, "in_progress"), results, cancelled, TRUE, "ai")
    /\ UNCHANGED <<child, calls>>

\* ... or that it was not completed.
ExecuteFails(i, a) ==
    /\ Busy(i, a, {"answered"})
    /\ FailPlan(i)
    /\ UNCHANGED <<child, calls>>

-----------------------------------------------------------------------------
(* reduce, ui_tools, summarize                                             *)

Reduce ==
    /\ AtNode("reduce")
    /\ subtasks' = << >> /\ results' = << >> /\ tail' = "ai"
    /\ node' = "ui_tools"
    /\ UNCHANGED <<mode, work, request, prior, answer, wait, cancelled, feedback, retry,
                   awaiting_input, child, needs_oauth2, calls, plans, approved>>

SelectUiTools ==
    /\ AtNode("ui_tools") /\ node' = "summarize"
    /\ UNCHANGED <<mode, work, request, tail, prior, answer, wait, state, child,
                   needs_oauth2, calls, plans, approved>>

Summarize ==
    /\ AtNode("summarize") /\ node' = "end" /\ mode' = "idle"
    /\ UNCHANGED <<work, request, tail, prior, answer, wait, state, child,
                   needs_oauth2, calls, plans, approved>>

-----------------------------------------------------------------------------
User ==
    \/ \E r \in Requests : StartTurn(r)
    \/ \E a \in {"yes", "no", "other"} : ResumeTurn(a)
    \/ StopRun \/ StopWaitingPlan

Fault == Disconnect \/ RunError

PlanNode == PlanForwardsAnswer \/ PlanFailureAction \/ PlanRetries \/ PlanDrafts
            \/ \E k \in {"none", "reply", "cancel"} : PlanEndsTurn(k)

ApprovalNode == ApprovalAsks \/ ApprovalAnswered

ExecuteNode ==
    \/ ExecuteFindsNothing \/ ExecuteUnknownAgent \/ ExecuteNeedsOauth2
    \/ \E i \in DOMAIN subtasks, a \in ChildAgents :
        \/ ExecuteSends(i, a) \/ ExecuteSurfaces(i, a) \/ ExecuteResumesChild(i, a)
        \/ ExecutePausedReturns(i, a) \/ ExecuteDeclinedReturns(i, a)
        \/ ExecuteCompletes(i, a) \/ ExecuteNeedsInput(i, a) \/ ExecuteFails(i, a)

ChildAgent ==
    \E i \in DOMAIN subtasks, a \in ChildAgents :
        ChildRaises(i, a) \/ \E phase \in {"idle", "paused"} : ChildStops(i, a, phase)

Oauth == OauthResumes \/ OauthAbandoned

Run == PlanNode \/ ApprovalNode \/ ExecuteNode \/ ChildAgent
       \/ Reduce \/ SelectUiTools \/ Summarize

Next == User \/ Fault \/ Oauth \/ Run

Spec == Init /\ [][Next]_vars

\* The event loop keeps running a started run, and its LLM and child calls return.
FairSpec == Spec /\ WF_vars(Run)

-----------------------------------------------------------------------------
\* The type of the state: the fields of PlannerState, and where the run is.
TypeOK ==
    /\ mode \in {"idle", "running", "interrupted", "oauth"}
    /\ node \in Nodes
    /\ work \in {"none", "sent", "resumed", "declined", "paused", "answered"}
    /\ request \in Requests
    /\ tail \in MessageKinds /\ prior \in MessageKinds
    /\ answer \in {"none", "yes", "no", "other"}
    /\ wait \in {"none", "approval", "confirm"}
    /\ subtasks \in Seq(SubTask) /\ results \in Seq(Result)
    /\ cancelled \in BOOLEAN /\ retry \in BOOLEAN /\ awaiting_input \in BOOLEAN
    /\ feedback \in Nat
    /\ child \in [ChildAgents -> ChildThread]
    /\ needs_oauth2 \subseteq OAuthAgents
    /\ calls \in [agent : ChildAgents \cup {NoAgent}, count : 0..(RecommendAfter - 1)]
    /\ plans \in 0..MaxPlans
    /\ approved \subseteq 1..MaxPlans

\* The results are those of the plan's first subtasks, in order: exactly the
\* completed ones; at most the next one has started, stopped or failed.  It is
\* what makes a retry resume at the right subtask with the right context, and
\* what the reducer's answer rests on.
ResultsMatchPlan ==
    /\ Len(results) <= Len(subtasks)
    /\ \A i \in 1..Len(subtasks) :
        /\ i <= Len(results) <=> subtasks[i].status = "completed"
        /\ i > Len(results) + 1 => subtasks[i].status = "pending"
    /\ \A i \in 1..Len(results) : results[i].task = subtasks[i].task

\* A plan of several subtasks is run only if the user said yes to that very
\* plan, whatever revisions, retries, restarts, stops or lost connections came
\* before (_route_after_plan skips the approval on three conditions).
ApprovedBeforeRun ==
    work # "none" /\ Len(subtasks) > 1 /\ PlanApprovalEnabled
        => subtasks[1].task[1] \in approved

Stopped(sts) == HasStatus(sts, {"failed", "cancelled"})
Consented == subtasks[1].task[1] \in approved

\* What the nodes leave to one another within a turn and across turns: the parts
\* that ResultsMatchPlan and ApprovedBeforeRun need to be inductive.  A stopped
\* plan never reaches execute; retry and restart only ever apply to a plan that
\* stopped (messages[-2] and subtasks agree); a plan that has started has been
\* consented to; awaiting_input never outlives the subtask that asked.
TurnInv ==
    /\ work # "none" => mode = "running" /\ node = "execute"
    /\ mode = "idle" => node = "end"
    /\ node \in {"plan", "approval", "execute"} => tail = "human"
    /\ node \in {"approval", "execute"} => subtasks # << >> /\ ~Stopped(subtasks)
    /\ node \in {"approval", "reduce"} => ~awaiting_input
    /\ awaiting_input => HasStatus(subtasks, {"in_progress"})
    /\ tail \in {"failed", "cancelled"} => Stopped(subtasks)
    /\ node = "plan" /\ IsQuickRetry => Stopped(subtasks)
    /\ node = "approval" => ~IsQuickRetry
    /\ (PlanApprovalEnabled /\ Len(subtasks) > 1
            /\ (node = "execute" \/ HasStatus(subtasks, Statuses \ {"pending"})))
        => Consented

\* A question put to the user comes from the child that holds the subtask in
\* progress, so that the user's next message reaches the child that asked.
QuestionReachesAsker ==
    awaiting_input =>
        /\ ~cancelled
        /\ \E i \in DOMAIN subtasks :
            /\ subtasks[i].status = "in_progress"
            /\ subtasks[i].agent \in ChildAgents
            /\ child[subtasks[i].agent].task = subtasks[i].task

\* Every result filed under a subtask answers the message of that subtask.
ResultOfOwnTask == \A i \in DOMAIN results : results[i].got = results[i].task

\* The reducer combines one result per subtask of a plan of several subtasks.
ReduceCoversPlan ==
    node = "reduce" => Len(subtasks) > 1 /\ Len(results) = Len(subtasks)

\* A subtask whose result is kept is not sent to a child again (a retry resumes
\* after the completed subtasks).
CompletedNotRerun ==
    [][\A a \in ChildAgents, i \in DOMAIN results :
        child'[a].phase = "running" /\ child[a].phase # "running"
            => child'[a].task # results[i].task]_vars

\* A stop before the turn's reply is stored leaves nothing of the plan to run:
\* the next message starts afresh (_STOPPED_PLANNER_STATE).
StopEndsPlan ==
    [][(StopRun /\ node # "summarize") \/ StopWaitingPlan
        => ~HasStatus(subtasks', {"pending", "in_progress"}) /\ ~awaiting_input']_vars

\* The same for a stop at any moment of a run.
StopAlwaysEndsPlan == [][StopRun => ~AnswersQuestion']_vars

\* Feedback is about the plan the user is reviewing: none is left when a new
\* request starts a turn.
FeedbackEndsWithReview == [][\A r \in Requests : StartTurn(r) => feedback = 0]_vars

\* The phase of the stored plan, as the contract of PlanContract sees it.
PlanPhase ==
    IF subtasks = << >> THEN "none"
    ELSE IF HasStatus(subtasks, {"failed", "cancelled"}) THEN "stopped"
    ELSE IF ~HasStatus(subtasks, {"pending", "in_progress"}) THEN "finished"
    ELSE IF PlanApprovalEnabled /\ Len(subtasks) > 1 /\ subtasks[1].task[1] \notin approved
         THEN "proposed" ELSE "running"

Contract == INSTANCE PlanContract
            WITH MaxSize <- MaxSubtasks, ConsentRequired <- PlanApprovalEnabled,
                 phase <- PlanPhase, size <- Len(subtasks), done <- Len(results)

\* The planner keeps that contract, with and without faults: no subtask is
\* completed before the plan is consented to, out of turn or twice in a run.
KeepsContract == Contract!Spec

\* Every run ends, or stops to wait for the user.
TurnsEnd == mode = "running" ~> mode # "running"
=============================================================================
