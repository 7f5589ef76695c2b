# Rancher AI agent: a TLA+ model

TLA+ modules for the Rancher AI agent (`src/app`): a FastAPI service that gives each browser tab
a websocket to a LangGraph agent, checkpoints every conversation, and lets LLM-driven child
agents run operations on clusters under the user's confirmation. The modules model what the
service does between two LLM calls: who runs, what is stored, what waits for whom, and what is
left after a stop, an error, a lost connection or a restart.

## 1. The system

### Components

| Component | Source | State it keeps | Operations |
|---|---|---|---|
| Websocket session | `routers/websocket.py`, `middleware/messages_history.py` | the request being handled, the run's task and the task that reads the next message, a message that preempted a run | handle a request, stop, authenticate, cut a run, close and record a stopped turn |
| Planner graph | `agent/planner/` | checkpointed: subtasks, results, cancelled, feedback, retry, awaiting_input, messages; in memory: call counter | plan, approval, execute, reduce, ui_tools, summarize |
| Supervisor | `agent/supervisor.py`, `middleware/human_validation.py`, `middleware/cancel_human_validation.py` | checkpointed: messages, pending interrupt and the answers given to it; in memory: call counter | the LLM loop, one tool per child agent, relay of confirmations |
| Child agents | `agent/child.py`, `agent/factory.py` | a checkpointed thread each, of their own | answer a query, stop on a guarded tool, resume, end |
| OAuth2 login | `oauth2/handler.py`, `store.py`, `client.py`, `routers/oauth2.py` | process memory: states, access and refresh tokens with their age, registered clients | start a login, callback, refresh, inject a token |
| Agent configurations | `controllers/ai_agent_config.py`, `agent/loader.py`, `factory.py` | AIAgentConfig resources: spec and status | kopf handlers with retries, defaults at start-up, status set by sessions |
| Chat storage | `services/memory.py`, `routers/chat.py` | threads of checkpoints, with a name in the metadata of some, and the values of their channels stored apart | list, fetch, rename, delete one or all |
| UI tools | `services/ui_tools/`, `middleware/ui_tools.py` | the tools and the limit read from a ConfigMap, for one selection | offer, extract, validate, deduplicate and cap the calls of an LLM |
| Users, RBAC, LLM settings | `auth.py`, `rbac.py`, `llm.py`, `routers/configuration.py` | cached settings, a ConfigMap and a Secret | authenticate, filter agents, read and update settings |

### How they interact

- The browser sends messages over one websocket. The endpoint handles one at a time. A *request*
  runs the agent and, at the same time, a second task reads the socket: whatever arrives then cuts
  the run. A `stop` is consumed; any other message becomes the next request.
- The agent is one child agent, the supervisor, or (with `PLAN_ENABLED`) the planner. Both call
  child agents as sub-graphs with their own thread id, so a child's checkpoints and its parent's
  are written at different times.
- A guarded tool calls `interrupt()` in the child. The parent surfaces the same confirmation with
  its own `interrupt()`; the user's answer is the next message of the websocket. LangGraph resumes
  an interrupted node by running it again from its first line.
- A child whose MCP server needs OAuth2 raises `NeedsOauth2`; the session then talks to the browser
  over the same socket while the browser logs in on another page, whose callback stores a token
  that the session picks up.
- A kopf controller thread and all sessions write the same AIAgentConfig resources.
- The requests of the chat list read, replace and delete the checkpoints of threads that sessions
  write at the same time.
- After its answer, an agent asks an LLM for tools of the user interface to show with it.

### What is hard

Two tasks race for the socket; a run can be cut between any two checkpoints, and the code then
repairs the thread in several steps; the child's and the parent's threads disagree after a cut;
interrupted code runs again and its answers are matched by position; fields of the state outlive
the turn that set them and route the next one; tokens expire while tabs wait; retries of the
controller interleave with sessions; a request that renames a chat writes back a checkpoint it read
some calls before. `PROJECT.json` lists each of these hazards at its line with
the properties aimed at it.

## 2. The modules

### `Planner` (with `PlanContract`, `MCPlanner` and the proof modules)

The graph of `planner/agent.py` and the execution of subtasks of `planner/subtasks.py`.

| Model | Code |
|---|---|
| `mode`, `node`, `wait`, `answer` | the run of the graph, the checkpoint's next node and stored interrupt, the resume value |
| `subtasks`, `results`, `cancelled`, `feedback`, `retry`, `awaiting_input` | the fields of `PlannerState` |
| `tail`, `prior` | kind of `messages[-1]` and `messages[-2]`, which is what the quick actions look at |
| `child` | for each child agent, the state of its thread and the task it was last given |
| `Plan*`, `Approval*`, `Execute*`, `Reduce`, `SelectUiTools`, `Summarize` | one action for each outcome of a node; the update of a node is stored when it returns |
| `RouteAfterPlan`, `RouteAfterApproval`, `RouteNext` | the conditional edges |
| `StopRun`, `StopWaitingPlan`, `ResetStopped` | what the session does to a planner's thread (`_close_stopped_thread`) |

`execute` is split where the child's thread changes (sent, resumed, paused, answered), because a
cut there leaves the child ahead of the planner. A task is a pair (plan, step): a result stores the
task it is filed under and the task the child was really working on, so that a mix-up shows.

`PlanContract` is the abstract specification: a plan is proposed, consented to, its subtasks are
completed one by one in order, and it finishes or stops. `Planner` implements it
(`KeepsContract`) under the mapping `PlanPhase`.

### `Supervisor` (with `MCSupervisor`)

The LLM loop and the tool of a child (`_invoke` in `_create_agent_tool`). `idx`, `resume` and
`null` are LangGraph's bookkeeping of `interrupt()`: how many interrupts this run of the tool has
passed, the answers stored for the tool call, and the answer just given. The child's guarded
operations are numbered; `granted` and `ran` record which ones the user said yes to (the one that
was *shown*) and which ones ran, `refused` whether the answer that began this run was a no that its child has not missed. `hops` counts
LangGraph's supersteps, of which `recursion_limit` is the bound: the model node with its hooks is
one, the tools node is one, and a run that answers an interrupt or follows a login begins with the latter. The
limit can therefore fall before the model (`ModelExceedsLimit`) or between a stored tool call and its
tools (`ToolsExceedLimit`). The code catches a child's exception in two places, for a query
(`ToolSendFails`) and for an answer (`ToolResumeFails`); after the second the child may still wait
(the fault `stuck_resume`). With `replan` the preview of an operation fails when it is made again, so
that the answer, even a no, is not read (`ToolResumesUnprepared`). After a lost connection the user may be asked
again although the child had gone on; it is then sent the query once more (`ToolSends`). These are the ways
in which a child misses an answer (`MissesAnswer`).

### `Session` (with `SessionContract`, `MCSession`)

The endpoint of `routers/websocket.py`: `loop` is the place in the endpoint's code, `stream` the
run's task, `receiver` the other task. The agent's thread is reduced to which requests its two
message channels hold, the kind of its last message and whether it waits for the user. A message is
its number; `outcome` records how each one ended. `agent` is what `build_agent` returned, at each
connection the same: the planner, the supervisor, or one child agent, which logs in before any
message is handled if its server needs that (`LogsInFirst`, `LoginEnds`). A message is parsed after it
has cut the run and before the thread is closed; JSON that is no object ("malformed") raises there
(`CutParseFails`), and at the top of the loop (`ParseFails`). A run may raise after any of its
checkpoints (`StreamRaises`).

`SessionContract` is the abstract specification: the client's messages are one queue. One message at
a time is handled, always the first that waits; only that one can stop the message at work, be taken
for an answer to it, or be lost to it; a login at connection reads the same queue. `Session` implements it (`IsOneQueue`) with a message waiting
wherever it is without an outcome: in the socket, with the receiver, or kept for the next request.

### `OAuth` (with `MCOAuth`)

The store of `oauth2/store.py` (`states`, `tokens`, and `nap`, the sleep of its cleanup task), the
session's side of a login (`handle_oauth_authentication`), and the callback of `routers/oauth2.py`.
A state parameter is the number of its login; a token is the number of its grant, of which
`grants` remembers the browser and the agent. Age is counted in ticks up to the first value that
can only be too old. What the browser does is translated from the repository's test page
`routers/testui.html`, the only client in the repository: its callback page tells every tab of the
browser about a login, and each tab reports it to its session. The provider is external and
issues a token to whoever brings it a code. `RANCHER_API_TOKEN` is taken to be unset: where it is set (it is one of
the variables for local development, `CONTRIBUTING.md:23`) it replaces every browser's cookie in the keys of
the store, which then does not tell browsers apart, and what is said of two browsers does not hold.

### `AgentConfigs` (with `MCAgentConfigs`)

The `AIAgentConfig` resources `crds`, the load of `loader.py` as the steps of a session between two
calls of the API server (list, one create or patch per default, list again, load tools and report
status), and the handler of `ai_agent_config.py` as kopf schedules it: due, validating, done, or
failed when kopf has given up. The spec of a resource is the version of the program whose default it is,
or one of the administrator's own: with OAuth2 (`OAuthSpecs`), without the optional authentication type
(`UntypedSpecs`), or plain. `secrets` is the state of the secret that an OAuth2 spec names: absent, with the
keys the repository's README lists, which the code finds incomplete, or complete; it changes without any
handler being told. An untyped spec raises outside the handler's `try` (`AttemptRaises`). Numbers
of retries are kept up to `MaxRetries`, with which they are compared. Patches only write what the
code writes: a default is patched as a whole, which also enables it again. `disturbed` remembers,
per load, the resources that somebody else changed meanwhile or for which the API server refused
(`SyncFails`, after which the load goes on). When it cannot be reached at all the load ends in the
middle of the defaults (`ListFails`). `read` remembers what an attempt found in the secret.

### `Chats` (with `MCChats`)

The checkpoints of chats, `own`, and what the threads of their child agents hold, `child`. Every call of
LangGraph's checkpointer, which is external, is one step: a request (`req`) has an operation, a
place in it and what it has read (`cp`, or the threads `todo`), and runs write checkpoints between
any two of its calls. LangGraph stores the values of channels apart from the checkpoints, under a
version, and deleting a thread deletes both; putting back a checkpoint read before the deletion
then stores one without values. `kept` says which values of a checkpoint are still stored. Messages are
abstracted to the turns they belong to. `deleted` remembers the turns that a chat had when it was
deleted while no run was at work on it. The checkpointer may raise in the middle of a request, which
keeps what it has done (`RequestFails`).

A chat is taken to be open in one session at a time, as LangGraph's threads are not meant to be run
twice at once, and all chats are one user's.

### `UiTools` (with `MCUiTools`)

The selection of `ui_tools/selector.py` and the validation of `validator.py` as operators: which
definitions of the ConfigMap are offered (`Filtered`, `Limit`), which of the LLM's calls count
(`Extracted`), are valid, are the first of their kind, and are of the first tools by name
(`Sanitized`). `SelectsFirstValid` says which calls come out without following the passes: it is the
reference definition they are checked against.

## 3. The runs

All runs are listed in `PROJECT.json` with the properties they check. Distinct states are those of
the present bounds.

| Run | Specification | States | Question |
|---|---|---|---|
| `planner_approval` | `FairSpec` | 181,611 | With two agents and several turns, does each answer reach the child that asked, is each result filed under the task it answers, does a stop leave nothing to run, does every run end? (`TypeOK`, `QuestionReachesAsker`, `ResultOfOwnTask`, `StopEndsPlan`, `TurnsEnd`) |
| `planner_faults` | `Spec` | 154,668 | With lost connections, errors, failed resumes, OAuth2 and a misnamed agent, are results those of the plan, is every plan consented to, does the reducer get all results, do the fields that outlive a turn agree, is nothing done twice, is the contract kept? (`ResultsMatchPlan`, `ApprovedBeforeRun`, `ReduceCoversPlan`, `TurnInv`, `CompletedNotRerun`, `KeepsContract`) |
| `supervisor_turns` | `FairSpec` | 305,749 | With every fault, does an operation run on another answer than its own last yes, does an answered call leave its child waiting, is a child called after a no, which calls get no result, does every run end? (`TypeOK`, `RunsOnLastAnswer`, `ConfirmationEndsWithCall`, `DeclineEndsTurn`, `DanglingCallsKnown`, `RunsEnd`) |
| `session_turns` | `FairSpec` | 1,109,120 | Are messages accounted for wherever they arrive, are they one queue, are stopped turns closed and remembered, which turns leave a call without result, does a message end the run it arrives in? (`TypeOK`, `Accounted`, `StoppedIsRemembered`, `StoppedTurnIsClosed`, `DanglingCallsKnown`, `IsOneQueue`, `MessageEndsRun`) |
| `oauth_logins` | `Spec` | 841,961 | Do tokens reach only the browser that logged in, does each state and each token leave the store once, is nothing older than its time found? |
| `agents_configs` | `FairSpec` | 601,110 | Does a load leave the defaults in place and nobody else's agents changed, is the client of a login registered with what the resource says, do retries end? (`TypeOK`, `RegisteredWhenDone`, `LoadLeavesDefaults`, `OwnIsKept`, `HandlersEnd`) |
| `chats` | `Spec` | 743,140 | Do the list and the chat agree, does a rename show again what was deleted or take back what a run wrote meanwhile, what is left when all chats were deleted? (`TypeOK`, `ListedIsFound`, `DeletedIsNotShown`, `ShownOnlyGrows`, `DeleteAllDeletesAll`) |
| `ui_tools` | `Spec` | 68,234 | Do the passes over an LLM's calls let through the first valid ones, whatever the ConfigMap and the response hold? |

`planner_approval` also lets the LLM draft subtasks as `completed`, which its properties do not mind.

### Bounds

- *Planner*: two plans of up to two subtasks in one thread, one round of feedback. Two subtasks are a
  plan that needs approval, has a next subtask and has one that others rest on; two plans are one
  that leaves something behind and one that finds it. Two agents tell a child from another; one agent
  with two subtasks makes a child be called again. `RecommendAfter` is 2 instead of 5, so that the
  counter is passed. `planner_faults` needs one agent and a name without agent only, because what it
  checks does not compare children.
- *Supervisor*: three operations are one that ran, one declined and one later; four supersteps per run
  (`RecursionLimit`, 50 in the code) are enough to call a child and another, and to resume one, call the other
  and meet the limit at either node. The passing run has `AsksPerCall = 1`, counted over the reruns of
  a tool call: with 2, `RunsOnlyGranted`, which `RunsOnLastAnswer` implies, fails, which is the run
  `supervisor_second_confirmation`.
- *Session*: four messages are one whose run is cut, one that cuts it, one read during what follows and
  one left in the socket, each of any kind; the agents are the planner, whose plan may ask a question
  besides all a supervisor does, and a single agent that logs in first.
- *OAuth*: a tab of one browser that logs in, a second tab that is told, and a foreign browser; two
  logins and two grants let a login be repeated or cross another; `TTL` 0 and `Period` 1 make every
  relative order of expiry, sleep and use occur with few ticks; one fault is one restart,
  reconnection or failed request. Tabs of one browser, and agents, are symmetric (no liveness is
  checked there).
- *AgentConfigs*: one session, as a load is synchronous in the process (it never awaits between its
  calls); one default, which the administrator may make his own (an agent under another name is handled no
  differently), so that a load that fails to write it is followed by one that repairs it; an OAuth2 spec and an
  untyped one besides the two versions' own; two changes, of the spec or the secret, so that both
  change during one attempt; one retry; one restart, into the same or a later version. Several defaults of which
  one fails are the theorem `LoadsLeaveDefaults`, for any set of defaults. An administrator does not delete a
  resource during an attempt of the controller: the deleted and recreated resource would be a new
  object of kopf.
- *Chats*: one chat (no operation relates two chats but the deletion of all, which treats each the same),
  two turns, so that one is deleted and one comes after it, four checkpoints, two requests at a time,
  which may be of the same kind, one name, and restarts at any point, with and without a database.
  Requests are symmetric (no liveness is checked there).
- *UiTools*: a tool that requires a field, a selector whose options must differ, a tool one of whose
  options requires a field, and a name that is not on offer; ConfigMaps with limits of one, two, the
  default and none, disabled or incomplete tools, two tools of one name; responses of up to three
  calls. `DefaultMax` is 2 instead of 5, so that three calls pass it.

`CHECK_DEADLOCK FALSE` is given where the bounded number of messages or of logins lets the model
come to an end.

### Fairness

- `Planner!FairSpec`: weak fairness of `Run`, the steps the event loop takes for a started run. LLM
  and child calls are assumed to return (they have timeouts of their own in their client
  libraries); the user and faults are not fair, so a plan may wait for its user for ever.
- `Supervisor!FairSpec`: the same for `Model` and `Tool`.
- `Session!FairSpec`: weak fairness of `Endpoint` only. Nothing is assumed of the run itself, which
  is the point of `MessageEndsRun`: a message ends the request at work even if its run never would, or
  the run has come to need a login just then, which takes the message for its answer.
- `AgentConfigs!FairSpec`: weak fairness of each handler's attempt, which starts or raises, and of its
  end. kopf calls the handlers that are due, and an attempt ends because connections time out. The
  administrator, sessions and restarts are not fair. Two handlers retry for ever, which `HandlersEnd` exempts by name
  (`Endless`): one that waits for a secret, for as long as it is missing (`_register_oauth_client`), and one
  of a resource without an authentication type, which raises before the `try`
  (`ai_agent_config.py:236`).
- `OAuth` has no liveness property: the user may leave the login page at any time.

### Where the code and its documentation differ

A run with `expect: violation` checks one statement that a comment or docstring makes and the code
does not keep; `PROJECT.json` quotes the statement under "findings".

| Run | Statement | What the code does |
|---|---|---|
| `planner_stale_confirmation` | `subtasks.py:45` a subtask runs in its child | an interrupt left in the child by a lost connection is resumed instead, and its reply recorded as the subtask's result |
| `supervisor_second_confirmation` | `human_validation.py:34` the tool is executed on confirmation | the rerun matches the first yes to the child's second operation |
| `supervisor_stale_cancel` | `supervisor.py:316` a cancel message means that the user declined | a cancel message of an earlier turn is found for a confirmed operation |
| `chats_children_remember` | `openapi.yaml:178` deleting a chat deletes all associated messages | the threads of the chat's child agents keep them, and a later run under the same id resumes them |

Seven more statements fail, which the modules define and no run checks. Adding the property to a copy of the
configuration named, with the change given, shows the trace.

| Property | Configuration | Statement | What the code does |
|---|---|---|---|
| `Session!NoMessageLost` (invariant) | `session_turns.cfg` | `websocket.py:116` a message read during a run is processed next | it is dropped when the run ends in the same turn of the event loop |
| `Session!CutTurnIsClosed` | `session_turns.cfg` | `websocket.py:409` if any message arrives during a run, the stopped turn is closed | JSON that is no object raises after the run is cancelled (`websocket.py:458`, `675`): the turn is neither closed nor recorded, and the message is lost |
| `Session!NoDanglingCall` | `session_turns.cfg` | `websocket.py:224` a tool call interrupted by OAuth2 gets a result | it gets none when the child's tools fail to load after a login that succeeded (`websocket.py:165`) |
| `Session!StoppedIsAlwaysRemembered` | `session_turns.cfg` | `websocket.py:361` the request of a stopped run is added to the history if missing | it is taken from the thread, which does not have it before the run's first checkpoint |
| `Supervisor!NoForgottenConfirmation` | `supervisor_second_confirmation.cfg` with `AsksPerCall = 3`, `MaxOps = 3` | `supervisor.py:284` a new interrupt of the child is raised again at the supervisor | after two answers in a tool call the third confirmation is matched to a stored one, and the call answered with the child still waiting |
| `AgentConfigs!DocumentedSecretIsEnough` (invariant) | `agents_configs.cfg` | `README.md:199` the secret's key is `metadata_endpoint` | the code reads `metadataEndpoint` (`credentials.py:65`); with the documented key the agent is Ready and no client registered |
| `Planner!StopAlwaysEndsPlan` | `planner_approval.cfg` | `websocket.py:243` a stop leaves no subtask waiting for an answer | a stop during `summarize` finds a reply at the end of the thread and resets nothing |

What the models contain besides, because the repository states nothing that it would
contradict, or because it is a known limit:

- Feedback that shrinks a plan to one subtask is never cleared and goes into the next request's
  prompt, although `planner/agent.py:442` has it about a rejected plan: `FeedbackEndsWithReview` of
  `Planner`, which fails with `planner_approval.cfg`.
- A no whose preview fails as it is made again is not read (`human_validation.py:57`; its docstring, at 34, has the
  operation skipped and the graph end): the tool call gets an error, and the child and the supervisor
  go on, and may call children again. So they do when the resume fails, and when the child had gone on before a lost connection;
  `DeclineEndsTurn` is about an answer that the child does not miss.
- With a lost connection, or a child that stays paused when its resume fails, a child may hold another
  task than the plan says: `QuestionReachesAsker` and `ResultOfOwnTask` fail with the fault `disconnect` and
  with `stuck_resume`. Section 4 proves them without these two; the run
  `planner_stale_confirmation` is the trace of the first.
- A subtask that the LLM drafts as `completed` (the field is in its output schema) is never run, and
  the reducer gets fewer results than subtasks. `ResultsMatchPlan`, `ReduceCoversPlan` and the
  theorems below therefore assume drafts that are pending.
- A run that answers an interrupt, or follows a login, begins at the tools, and may reach the recursion limit after
  the model's next tool call is stored and before its tools run: `websocket.py:186` patches nothing. So may any run that raises
  between the two. Both `DanglingCallsKnown` name these, with a lost connection, as the ways left to
  leave a call without result.
- Nothing closes a thread whose run was cut when the connection is lost before the code has done so.
- A stop that arrives as a run comes to need a login is dropped, or taken for the answer to the
  login; the run may go on after it (`websocket.py:147`, `handler.py:29`). `MessageEndsRun` stops at that
  point.
- A child whose resume fails keeps its confirmation after its tool call is answered
  (`supervisor.py:313`): its next query meets it. `ConfirmationEndsWithCall` names this, and a failed
  login.
- A message that arrives while an agent logs in at its connection, and is not the login's answer, is
  dropped (`websocket.py:196`).
- A resource without an authentication type, which its CRD allows, has no status and is retried for
  ever. A secret that is completed after its agent was found Ready is not looked at again, so that no client is
  registered until the agent is edited or the program restarts.
- The test page answers a failed refresh with nothing, and posts it to another path than the router's.
- `_update_agent_status` compares with the status it listed and may overwrite a later one
  (`factory.py:351`).
- A drift patch enables an agent again that the administrator disabled (`loader.py:492`; only
  the comparison leaves `enabled` out), and it is not conditional on what was listed.
- A chat that is deleted while a run is at work comes back with part of its messages. A
  name is lost at the next turn, because the checkpoints of runs carry none, and a rename that had
  read the chat before it was deleted leaves a checkpoint that no list shows.
- `maxTools` 0 is documented as no limit (`selector.py:133`) and is 5; its default is 10 in
  `ui_tools/README.md:169` and 5 in the code; that README also names the key of the ConfigMap
  `config.json`, and the loader reads `config`. Without selectors no tool is offered, while the log
  says that all are (`selector.py:32`). Two empty optional fields of a selector count as equal
  options.
- `ACTIVE_LLM` is accepted in any case by the settings request and compared exactly when used
  (`configuration.py:319`, `llm.py:167`). A settings request whose second patch fails has changed the
  LLM and not its key (`configuration.py:407`).
- `_resolve_target_agent` returns the parent's thread config, where its docstring has a thread of the
  child's own (`websocket.py:762`).
- A message from another tab's login that arrives while the session waits for a refresh is taken
  for a failed refresh (`handler.py:62`).
- A registered OAuth2 client is never removed (`remove_client` has no caller): one stays registered
  after its resource is deleted.

## 4. The proofs

Each component has a module of theorems, for any values of its constants that its assumption
allows: any sets of agents, tabs, chats, requests or messages and any bounds. Besides those
assumptions the only hypotheses are the ones named below, and they are part of the theorems'
statements.

- `PlannerProofs`. `TypeCorrect` needs one more conjunct (`TypeInv`): the approval node only runs with a
  plan, because what it approves is the number of the plan's first task. The inductive invariant
  `PlanInv` is `TypeInv` with `ResultsMatchPlan`, `TurnInv` and `ReduceCoversPlan`. Results and
  subtasks stay aligned because a subtask is only ever run when it is the first one without result
  (`NextIsFirstOpen`, `UpdateMatches`); that in turn needs what `TurnInv` says of the nodes: `execute`
  is entered with a plan that has not stopped and whose last message is the user's, a retry is only
  routed with a plan that stopped, and a plan of which anything was run was consented to. Without the
  last part a retry, which skips the approval node, could not be shown to have consent. From
  `PlanInv` follow `ResultsAlwaysMatch`, `NothingRunsUnapproved`, `ReducerHasAll` and `TurnsAgree`.
  `PlannerImplementsContract` is `Spec => Contract!Spec`: each action is shown
  to be a step of `PlanContract` or to leave the plan's phase, size and number of results alone.
  Besides `PlanInv` it needs `PlansKnown`: consents are only to plans drafted so far, so that a new
  plan starts as proposed.
- `PlannerTasksProofs`, on what the children hold. `EndInv` (a node that answers for the plan finds nothing of
  it left) gives `StopsEndPlans`. `TaskInv` gives `NoRerun`: a plan's tasks are those of one draft
  (`PlanTasks`), a child that holds one of them is the child it names (`ChildTasks`), and no child that works, or
  has asked, holds a task with a result (`Unsettled`), for which the phase of the child in turn has to be
  known (`WorkPhase`). `OwnInv` gives `QuestionsReachAskers` and `ResultsAnswerOwnTask`: only the
  child of the subtask in turn works, on that subtask's task, and a question is its own. The last two assume
  `ChildrenFollow`, that neither `disconnect` nor `stuck_resume` happens, because they fail with
  either.
- All theorems about the planner but its `TypeCorrect` assume `DraftsPending`, that the LLM drafts subtasks with the
  status pending, as is the default of the output schema, which does not enforce it.
- `SupervisorProofs`: `TypeInv` is the type with what is left of a tool call in each state. `TurnInv`
  (the model never runs on an unanswered call) gives `CallsAreAnswered`: three steps are left that end a run
  with one. `GrantInv` relates the answers stored, the operation shown
  and the child's: `OnlyGrantedRuns`, `LastAnswerRuns` and `NoneForgotten`. These three assume
  `AsksPerCall <= 1`, at most one confirmation in a tool call; with two the first fails, which is the
  run `supervisor_second_confirmation`. So does `DeclinedIsLast`, whose invariant `DeclineInv` follows a no that its
  child does not miss from the answer through a login, the tool and the cancelled result to the end of
  the run. `LastAnswerRuns` says more than the first: an operation that was
  granted, and whose run was then cut, needs a new yes, and a no given then keeps it from running.
- `SessionProofs`: `OrderInv` says that the messages read are an initial part of those sent, and which of
  them is in which of the four places that hold one; one without outcome is in one of them or in the socket
  (`NothingForgotten`). `TurnInv` says what a run that is over leaves in the thread
  (`StoppedIsShown`, `StoppedIsClosed`, `CallsAreAnswered`, the last two with the exceptions that the
  properties name). `SessionImplementsContract` is
  `Spec => Contract!Spec`: from `OrderInv`, what the receiver holds, what the loop takes, and the
  head of the socket while the client authenticates are each the first message that waits
  (`FirstReceived`, `FirstTaken`, `FirstInSocket`), and each action is one of the queue's or changes
  no outcome.
- `OAuthProofs`: `FreshInv` adds the time until the cleanup wakes to the age of each entry
  (`StoreIsFresh`). `OwnerInv` follows a token from the grant through the store, the cookies and the
  callback to the session (`OwnersOnly`). `TakenInv` says that what is stored was not taken
  (`EachTakenOnce`).
- `AgentConfigsProofs`: `ClientInv` says that a validation that no edit overtook works on the present spec,
  and that what it ends with, unless it is due again, is a client for that spec, an incomplete secret, or another status than a login
  (`LoginsHaveClients`). `LoadInv` says, for each agent that is not disturbed, that it is as it was listed while it is left to do,
  and up to date once it is done (`LoadsLeaveDefaults`, `LoadsKeepOwn`).
- `ChatsProofs`: `TypeInv` includes that a chat's checkpoints have ids of their own. `ForgetInv`: no
  checkpoint of the chat's own thread, run or rename holds a value that was deleted (`DeletedStaysHidden`; it does not speak of
  the children's threads, which do). `GrowInv`: a rename
  at work would put back what it replaces, or shows nothing (`MessagesOnlyGrow`). `ListInv`: of
  what is stored of a chat, or about to be put back, every checkpoint after one with messages has messages,
  what a rename read with messages has not been deleted since, a run of a live chat has messages, and a
  request to delete all has yet to delete whatever no run wrote since (`ListShowsChats`,
  `AllAreDeleted`).
- `UiToolsProofs` proves `SelectsFirstValid` for responses of any length and any ConfigMaps
  (`FirstValidSelected`). The passes are folds, so this is an induction over the response. The library's
  induction theorems take the statement as a parameter, which the provers cannot instantiate; here it is the set of
  the lengths for which the statement holds, and a set of numbers that is not empty has a least element (`HasLeast`,
  `UpTo`). From that, a fold is its last step (`FoldExists`, `StepsExist`), a pass that appends or drops
  each element selects the ones it appends, in order (`StepsSelect`), and selecting from what was selected is
  selecting (`SelectsFromSelected`). What is left are the conditions: an element is new when it is the first of
  its kind (`DeduplicatedSelects`), and has room when fewer tools than the limit come before it
  (`CappedSelects`), for which the tools kept so far are those before it as long as there is room
  (`PlacesStep`).

### Only model-checked

Liveness (`TurnsEnd`, `RunsEnd`, `MessageEndsRun`, `HandlersEnd`) is out of the proof system's reach
here. All invariants and action properties of the passing runs are theorems.

## 5. Not modelled

- Parallel tool calls of the supervisor: its prompt asks for sequential calls
  (`SEQUENTIAL_TOOL_CALLS`), and the models issue one at a time.
- The text of messages, what is streamed to the client and its formatting.
- A context sent together with the answer to a confirmation, which the code appends to the answer.
- `needs_oauth2` stays set after the direct authentication of a child the request names, so the child asks
  again when called through a parent; `Session` does not tell children apart.
- The preview of a guarded operation is computed again on resume; `Supervisor` keeps the failure of
  that (`replan`) and not a preview that differs.
- `recursion_limit` on the planner: a plan of about 45 subtasks exceeds it; the models' plans are
  small.
- A guarded operation runs at least once if the process dies between the operation and the child's
  checkpoint (`Supervisor!Disconnect` keeps this; nothing in the code prevents it).
- Two sessions of one chat, and two users' chats. Of the requests about one chat only the deletion checks
  the owner (`memory.py:284`), and the lists filter by it; fetching, renaming and reading the messages of a chat
  (`memory.py:218`, `253`, `310`) go by its id alone. The models have one user.
- A change of the agent between two connections of a chat: `Session` keeps what `build_agent` returned.
- Agents of the administrator under names of their own, in the passing runs of `AgentConfigs`, where a default
  he has made his own stands for them.
- The prompts and schemas given to the LLM that selects UI tools, and the text collected for it.
- The settings of the LLM (`configuration.py`, `llm.py`): an update makes its calls of the API server
  without giving up the event loop, on objects that nothing else of the program writes, so that no two
  updates of one process interleave. That the second patch may fail after the first is listed above and under
  hazards.
- Users and access (`auth.py`, `rbac.py`): one request per call; the two cached settings are read once
  per process.
- MCP connections, LLM clients, OAuth2 discovery and registration, start-up: I/O without state that
  several actors share.

## 6. Plan

Done: the planner with its contract, the supervisor with its children, the session, OAuth2 logins,
agent configurations, chat storage and the selection of UI tools, with their runs; every safety
property of the passing runs proved, and the refinements of the planner's and the session's contracts.

What a next step would be, in order:

1. A composition of `Session` and the planner's stops (`_close_stopped_thread` on a real planner's
   thread), in place of the abstract thread of `Session`.
2. Two sessions of one chat in `Chats`, once the program says which of them may run.
3. `Settings`: the update of a ConfigMap and a Secret one after the other by several replicas of the
   program, if it is deployed with more than one.
