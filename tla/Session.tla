------------------------------ MODULE Session ------------------------------
(***************************************************************************)
(* A websocket session (routers/websocket.py): one request at a time, its  *)
(* run raced against the next message of the client, which stops or        *)
(* preempts it, and the OAuth2 exchange that reads the same socket.        *)
(*                                                                         *)
(* The agent is abstracted to what its thread holds: which requests its    *)
(* two message channels have, the kind of the last message and whether it  *)
(* waits for the user.  Planner and Supervisor model what is inside.       *)
(* A message is its number; only its kind decides anything: "malformed" is *)
(* JSON but no object, which _parse_websocket_request raises on.           *)
(***************************************************************************)
EXTENDS Naturals, Sequences, FiniteSets

CONSTANTS
    Agents,        \* what build_agent may return
    UsesOAuth2,    \* some child agent's MCP server is behind OAuth2
    Faults,        \* environment faults that may happen
    MaxMessages    \* bound: messages of the client

AllFaults == {"disconnect", "error", "reload", "malformed"}
AllAgents == {"planner", "supervisor", "single"}

ASSUME SessionAssumption ==
    /\ Agents \subseteq AllAgents /\ UsesOAuth2 \in BOOLEAN
    /\ Faults \subseteq AllFaults
    /\ MaxMessages \in Nat

VARIABLES
    agent,         \* the planner, the supervisor or a child agent without either
    sent,          \* kinds of the messages the client sent, in order
    socket,        \* those not read yet
    loop,          \* receiving | refresh | oauth | running | notify | close | record
    current,       \* the request being handled, 0 if none
    next_request,  \* the message that preempted it, 0 if none
    stream,        \* off | starting | running | done | raised | oauth
    receiver,      \* the message read while the run goes on, 0 if none
    resumes,       \* the run answers an interrupt
    messages,      \* requests in the channel sent to the LLM
    history,       \* requests in the channel shown to the user
    tail,          \* kind of the last message
    waits,         \* none | interrupt | question
    outcome        \* history: how each message read from the socket ended

run == <<current, next_request, stream, receiver, resumes>>
thread == <<messages, history, tail, waits>>
vars == <<agent, sent, socket, loop, run, thread, outcome>>

Kinds == {"request", "stop", "confirmed", "canceled", "malformed"}
Ids == 1..MaxMessages
NoMessage == 0

\* handle_oauth_authentication waits for the client's answer: to a request to
\* refresh the tokens, if it has a refresh token, or to log in.
FirstStages == {"refresh", "oauth"}
Authenticating == loop \in FirstStages

\* A single agent behind OAuth2 authenticates before any message is handled.
LogsInFirst == UsesOAuth2 /\ agent = "single"
Connected == IF LogsInFirst THEN {"receiving"} \cup FirstStages ELSE {"receiving"}

Init ==
    /\ agent \in Agents
    /\ sent = << >> /\ socket = << >> /\ loop \in Connected
    /\ current = NoMessage /\ next_request = NoMessage
    /\ stream = "off" /\ receiver = NoMessage /\ resumes = FALSE
    /\ messages = {} /\ history = {} /\ tail = "none" /\ waits = "none"
    /\ outcome = [i \in Ids |-> "none"]

End(i, how) == outcome' = [outcome EXCEPT ![i] = how]

\* The client writes to the socket; it answers an authentication it was asked.
ClientSends(kind) ==
    /\ Len(sent) < MaxMessages
    /\ kind \in {"confirmed", "canceled"} => Authenticating /\ socket = << >>
    /\ kind = "malformed" => "malformed" \in Faults
    /\ sent' = Append(sent, kind)
    /\ socket' = Append(socket, Len(sent) + 1)
    /\ UNCHANGED <<agent, loop, run, thread, outcome>>

-----------------------------------------------------------------------------
(* The endpoint's loop.                                                    *)

\* Mutant: what is in the socket comes before the message already read.
TakesSocketFirst(i, rest) ==
    IF socket # << >> THEN i = Head(socket) /\ rest = Tail(socket)
    ELSE next_request # NoMessage /\ i = next_request /\ rest = socket

\* The next message to handle: the one that preempted the last run, if any.
Takes(i, rest) ==
    IF next_request # NoMessage THEN i = next_request /\ rest = socket
    ELSE socket # << >> /\ i = Head(socket) /\ rest = Tail(socket)

\* The loop is at its top, and takes message i.
Receives(i) ==
    /\ loop = "receiving"
    /\ \E rest \in {socket, IF socket = << >> THEN << >> ELSE Tail(socket)} :
           Takes(i, rest) /\ socket' = rest
    /\ next_request' = NoMessage

\* The message is not an object: AttributeError.
ParseFails ==
    /\ \E i \in Ids : Receives(i) /\ sent[i] = "malformed" /\ End(i, "failed")
    /\ UNCHANGED <<agent, sent, loop, current, stream, receiver, resumes, thread>>

\* The stored interrupt tells an answer from a request.  A request for a child
\* agent that needs it authenticates first (_resolve_target_agent).
HandleRequest ==
    /\ \E i \in Ids : Receives(i) /\ sent[i] \notin {"stop", "malformed"} /\ current' = i
    /\ loop' \in {"running"} \cup (IF UsesOAuth2 /\ agent # "single" THEN FirstStages ELSE {})
    /\ stream' = "starting" /\ receiver' = NoMessage
    /\ resumes' = (waits = "interrupt")
    /\ UNCHANGED <<agent, sent, thread, outcome>>

\* _close_stopped_thread with force: an AI message, and the planner state reset.
ForceClose == tail' = "ai" /\ waits' = "none"

\* A stop while nothing runs: only a plan that waits for the user is cancelled.
HandleStop ==
    /\ \E i \in Ids : Receives(i) /\ sent[i] = "stop" /\ End(i, "handled")
    /\ IF agent = "planner" /\ waits # "none" THEN ForceClose ELSE UNCHANGED <<tail, waits>>
    /\ UNCHANGED <<agent, sent, loop, current, stream, receiver, resumes, messages, history>>

-----------------------------------------------------------------------------
(* The run, as _stream_agent_events drives it.                             *)

Streaming == loop = "running" /\ stream = "running"
ThreadOnly == UNCHANGED <<agent, sent, socket, loop, current, next_request, receiver, resumes, outcome>>

\* The first checkpoint of the run holds the user's message.
StreamStarts ==
    /\ loop = "running" /\ stream = "starting" /\ stream' = "running"
    /\ IF resumes THEN UNCHANGED <<messages, tail>>
       ELSE messages' = messages \cup {current} /\ tail' = "human"
    /\ UNCHANGED <<history, waits>> /\ ThreadOnly

\* Requests of the messages channel are copied to the history.
Remembered == history \cup messages

\* The model, or the planner, has work done by a tool or a child agent ...
StreamCalls ==
    /\ Streaming /\ tail \in {"human", "result"} /\ waits # "interrupt"
    /\ tail' = "call" /\ history' = Remembered
    /\ UNCHANGED <<messages, waits, stream>> /\ ThreadOnly

\* ... which gives a result; an interrupt is stored until then.
StreamReturns ==
    /\ Streaming /\ tail = "call"
    /\ tail' = "result" /\ waits' = "none"
    /\ UNCHANGED <<messages, history, stream>> /\ ThreadOnly

\* ... asks for a confirmation or an approval,
StreamInterrupts ==
    /\ Streaming /\ tail = "call"
    /\ waits' = "interrupt" /\ stream' = "done"
    /\ UNCHANGED <<messages, history, tail>> /\ ThreadOnly

\* ... or needs the user to log in.
StreamNeedsOauth2 ==
    /\ UsesOAuth2 /\ agent # "single"
    /\ Streaming /\ tail = "call" /\ stream' = "oauth"
    /\ UNCHANGED thread /\ ThreadOnly

\* The reply; a subtask of a plan may ask the user a question with it.
StreamReplies(asks) ==
    /\ Streaming /\ tail \in {"human", "result"} /\ waits # "interrupt"
    /\ asks => agent = "planner"
    /\ tail' = "ai" /\ history' = Remembered
    /\ waits' = IF asks THEN "question" ELSE "none"
    /\ UNCHANGED <<messages, stream>> /\ ThreadOnly

\* After the reply: UI tools, summary.
StreamEnds ==
    /\ Streaming /\ tail = "ai" /\ stream' = "done"
    /\ UNCHANGED thread /\ ThreadOnly

\* The LLM or the checkpointer raises, or the recursion limit is reached, between any
\* two checkpoints of the run.
StreamRaises ==
    /\ "error" \in Faults
    /\ Streaming /\ stream' = "raised"
    /\ UNCHANGED thread /\ ThreadOnly

-----------------------------------------------------------------------------
(* _call_agent: the run against the next message.                          *)

ReceiverReads ==
    /\ loop = "running" /\ receiver = NoMessage /\ socket # << >>
    /\ receiver' = Head(socket) /\ socket' = Tail(socket)
    /\ UNCHANGED <<agent, sent, loop, current, next_request, stream, resumes, thread, outcome>>

\* What the receiver read when the run was over is dropped with its task.
Dropped(o) == IF receiver = NoMessage THEN o ELSE [o EXCEPT ![receiver] = "dropped"]

\* Mutant: the receiver's task outlives the run.
ReceiverStays == UNCHANGED receiver

\* _cancel_task
ReceiverIsCancelled == receiver' = NoMessage

RunFinishes ==
    /\ loop = "running" /\ stream \in {"done", "raised"}
    /\ outcome' = Dropped([outcome EXCEPT ![current] = IF stream = "done" THEN "handled" ELSE "failed"])
    /\ loop' = "receiving" /\ stream' = "off" /\ ReceiverIsCancelled /\ current' = NoMessage
    /\ UNCHANGED <<agent, sent, socket, next_request, resumes, thread>>

\* Mutant: only a stop cuts the run; a request waits for its end.
CutByStop == receiver # NoMessage /\ sent[receiver] = "stop"

\* Any message read meanwhile cuts the run.
Cut == receiver # NoMessage

RunIsCut ==
    /\ loop = "running" /\ stream \in {"starting", "running"} /\ Cut
    /\ stream' = "off" /\ loop' = "notify"
    /\ UNCHANGED <<agent, sent, socket, current, next_request, receiver, resumes, thread, outcome>>

\* The client is told that its plan has ended, and the message is parsed.
NotifyClient ==
    /\ loop = "notify" /\ sent[receiver] # "malformed" /\ loop' = "close"
    /\ UNCHANGED <<agent, sent, socket, run, thread, outcome>>

\* It is not an object: the error is the request's, whose thread is not closed.
CutParseFails ==
    /\ loop = "notify" /\ sent[receiver] = "malformed" /\ loop' = "receiving"
    /\ outcome' = [outcome EXCEPT ![current] = "failed", ![receiver] = "failed"]
    /\ current' = NoMessage /\ receiver' = NoMessage
    /\ UNCHANGED <<agent, sent, socket, next_request, stream, resumes, thread>>

\* Mutant: the thread is closed only when a tool call is pending.
ClosesOnlyCalls == tail = "call"

\* _close_stopped_thread: a thread that ends with a reply is left as it is, and
\* so is one without messages.
NeedsClosing == tail \notin {"ai", "none"}

CloseThread ==
    /\ loop = "close" /\ loop' = "record"
    /\ IF NeedsClosing THEN ForceClose ELSE UNCHANGED <<tail, waits>>
    /\ UNCHANGED <<agent, sent, socket, run, messages, history, outcome>>

\* Mutant: the stop is recorded, the request is not.
RecordsNothing == UNCHANGED history

\* _record_stopped_in_history: the request, if the messages channel has it.
RecordsRequest == history' = history \cup (messages \cap {current})

\* Mutant: the message that preempted the run is read again by nobody.
KeepsNothing == NoMessage

\* A stop is consumed; any other message is handled next.
Preempting == IF sent[receiver] = "stop" THEN NoMessage ELSE receiver

RecordStopped ==
    /\ loop = "record" /\ loop' = "receiving"
    /\ RecordsRequest
    /\ next_request' = Preempting
    /\ outcome' = [outcome EXCEPT ![current] = "stopped",
                                  ![receiver] = IF sent[receiver] = "stop" THEN "handled" ELSE @]
    /\ current' = NoMessage /\ receiver' = NoMessage
    /\ UNCHANGED <<agent, sent, socket, stream, resumes, messages, tail, waits>>

-----------------------------------------------------------------------------
(* handle_oauth_authentication, which reads the same socket.               *)

\* The run raised NeedsOauth2.
OauthStarts ==
    /\ loop = "running" /\ stream = "oauth"
    /\ loop' \in FirstStages /\ receiver' = NoMessage
    /\ outcome' = Dropped(outcome)
    /\ UNCHANGED <<agent, sent, socket, current, next_request, stream, resumes, thread>>

\* Any answer to the refresh but its confirmation is dropped, and the client is
\* asked to log in.
RefreshFails ==
    /\ loop = "refresh" /\ socket # << >> /\ sent[Head(socket)] # "confirmed"
    /\ socket' = Tail(socket)
    /\ End(Head(socket), IF sent[Head(socket)] = "canceled" THEN "handled" ELSE "dropped")
    /\ loop' = "oauth"
    /\ UNCHANGED <<agent, sent, run, thread>>

Stage == IF Authenticating /\ current = NoMessage THEN "login" ELSE "chat"

\* The answer to a login before any message is handled: the agent is used, with its
\* tools or without.
LoginEnds ==
    /\ Stage = "login" /\ socket # << >>
    /\ loop = "refresh" => sent[Head(socket)] = "confirmed"
    /\ socket' = Tail(socket) /\ loop' = "receiving"
    /\ End(Head(socket), IF sent[Head(socket)] \in {"confirmed", "canceled"} THEN "handled" ELSE "dropped")
    /\ UNCHANGED <<agent, sent, run, thread>>

\* The child's tools are loaded: the request starts, or the run goes on.
OauthSucceeds ==
    /\ Authenticating /\ current # NoMessage
    /\ socket # << >> /\ sent[Head(socket)] = "confirmed"
    /\ socket' = Tail(socket) /\ End(Head(socket), "handled")
    /\ loop' = "running" /\ stream' = IF stream = "oauth" THEN "running" ELSE stream
    /\ UNCHANGED <<agent, sent, current, next_request, receiver, resumes, thread>>

\* Mutant: the pending tool call gets no result.
PatchesNothing == UNCHANGED <<tail, waits>>

\* _patch_tool_result: the pending tool call gets an error result.
PatchesCall == tail' = "result" /\ waits' = "none"

\* The request has failed, and the next message is awaited.
RequestFails(o) ==
    /\ outcome' = [o EXCEPT ![current] = "failed"]
    /\ loop' = "receiving" /\ stream' = "off" /\ current' = NoMessage
    /\ UNCHANGED <<agent, sent, next_request, receiver, resumes, messages, history>>

\* The client cancelled, or sent anything else, which is taken for a failure.
OauthFails ==
    /\ loop = "oauth" /\ current # NoMessage
    /\ socket # << >> /\ sent[Head(socket)] # "confirmed"
    /\ socket' = Tail(socket)
    /\ RequestFails([outcome EXCEPT
           ![Head(socket)] = IF sent[Head(socket)] \in {"stop", "canceled"} THEN "handled" ELSE "dropped"])
    /\ IF stream = "oauth" THEN PatchesCall ELSE UNCHANGED <<tail, waits>>

\* Loading the tools raises: the request fails, with its tool call pending.
OauthReloadFails ==
    /\ "reload" \in Faults
    /\ Authenticating /\ current # NoMessage
    /\ socket # << >> /\ sent[Head(socket)] = "confirmed"
    /\ socket' = Tail(socket)
    /\ RequestFails([outcome EXCEPT ![Head(socket)] = "handled"])
    /\ UNCHANGED <<tail, waits>>

-----------------------------------------------------------------------------
\* The connection is lost at any point, and the client connects again.
Disconnect ==
    /\ "disconnect" \in Faults
    /\ outcome' = [i \in Ids |-> IF outcome[i] = "none" /\ i <= Len(sent) THEN "cut" ELSE outcome[i]]
    /\ socket' = << >> /\ loop' \in Connected /\ stream' = "off"
    /\ current' = NoMessage /\ next_request' = NoMessage /\ receiver' = NoMessage
    /\ UNCHANGED <<agent, sent, resumes, thread>>

Client == \E kind \in Kinds : ClientSends(kind)

Stream == \/ StreamStarts \/ StreamCalls \/ StreamReturns \/ StreamInterrupts
          \/ StreamNeedsOauth2 \/ StreamEnds \/ StreamRaises
          \/ \E asks \in BOOLEAN : StreamReplies(asks)

Endpoint == \/ HandleRequest \/ HandleStop \/ ParseFails
            \/ ReceiverReads \/ RunFinishes \/ RunIsCut
            \/ NotifyClient \/ CutParseFails \/ CloseThread \/ RecordStopped
            \/ OauthStarts \/ RefreshFails \/ LoginEnds
            \/ OauthSucceeds \/ OauthFails \/ OauthReloadFails

Next == Client \/ Stream \/ Endpoint \/ Disconnect

Spec == Init /\ [][Next]_vars

\* The event loop runs the endpoint's tasks and delivers what the socket holds;
\* nothing says that a run or the client ever ends.
FairSpec == Spec /\ WF_vars(Endpoint)

-----------------------------------------------------------------------------
\* The type of the state: a message is being handled exactly outside "receiving" and
\* the login before any message, and one read by the receiver belongs to a run.
TypeOK ==
    /\ agent \in Agents
    /\ sent \in Seq(Kinds) /\ Len(sent) <= MaxMessages
    /\ socket \in Seq(Ids)
    /\ loop \in {"receiving", "refresh", "oauth", "running", "notify", "close", "record"}
    /\ {current, next_request, receiver} \subseteq Ids \cup {NoMessage}
    /\ stream \in {"off", "starting", "running", "done", "raised", "oauth"}
    /\ loop = "receiving" => current = NoMessage
    /\ current = NoMessage => loop \in Connected
    /\ loop \in {"receiving", "refresh", "oauth"} => receiver = NoMessage
    /\ resumes \in BOOLEAN
    /\ messages \subseteq Ids /\ history \subseteq Ids
    /\ tail \in {"none", "human", "call", "result", "ai"}
    /\ waits \in {"none", "interrupt", "question"}
    /\ outcome \in [Ids -> {"none", "handled", "failed", "stopped", "dropped", "cut"}]

\* Nothing the client sent is forgotten: it is in the socket, being handled, or
\* has an outcome.
Accounted ==
    \A i \in 1..Len(sent) :
        outcome[i] = "none" =>
            i \in {current, receiver, next_request} \cup {socket[k] : k \in DOMAIN socket}

\* A run that was cut by a message leaves a closed thread to the next one, with no
\* pending tool call and no unanswered request, but in two cases: the message that cut
\* it cannot be parsed, or the connection is lost before the thread is closed.
Closing == loop \in {"notify", "close", "record"}
StoppedTurnIsClosed ==
    [][Closing /\ ~Closing' => tail' \in {"none", "ai"} \/ CutParseFails \/ Disconnect]_vars

\* If any message arrives while the agent is running, the stopped turn is closed in its
\* thread (_call_agent).
CutTurnIsClosed == [][Closing /\ ~Closing' => tail' \in {"none", "ai"}]_vars

\* A turn that began and ends: not one that is cut before its first checkpoint.
TurnEnds == current # NoMessage /\ current' = NoMessage /\ stream # "starting"

\* A turn that ends leaves a tool call without result only to the interrupt that waits
\* for the user, or in four ways: the run raised, the message that cut it cannot be
\* parsed, the tools of a child fail to load, or the connection is lost.  A stop and a
\* login that fails or is cancelled leave none.
DanglingCallsKnown ==
    [][TurnEnds /\ tail' = "call" /\ waits' # "interrupt"
        => stream = "raised" \/ CutParseFails \/ OauthReloadFails \/ Disconnect]_vars

\* A tool call that OAuth2 interrupts gets a result before the next message
\* (_patch_tool_result).
NoDanglingCall ==
    [][stream = "oauth" /\ TurnEnds /\ ~Disconnect => tail' # "call"]_vars

\* A stopped request that the thread holds is in the history.
StoppedIsRemembered ==
    \A i \in Ids : outcome[i] = "stopped" /\ i \in messages => i \in history

\* The request of a stopped run is added to the history (_record_stopped_in_history).
StoppedIsAlwaysRemembered == [][RecordStopped /\ ~resumes => current \in history']_vars

\* The refinement mapping: a message waits wherever it is, but at work.
Contract == INSTANCE SessionContract
    WITH kinds <- sent, active <- current, fate <- outcome,
         stage <- Stage

\* The client's messages are one queue, of which the first is always the next to be
\* handled and the only one that can stop, or be lost to, the one at work or a login,
\* although the loop, the receiver, the OAuth2 exchange and the lost connection each
\* take messages from the socket and keep them in variables of their own.
IsOneQueue == Contract!Spec

\* No message that was read is lost.
NoMessageLost == \A i \in Ids : outcome[i] # "dropped"

\* A message that arrives during a run ends the request at work, although nothing says
\* that the run itself ever would; or the run has come to need a login at that moment,
\* which takes the message for its answer.
MessageEndsRun ==
    loop = "running" /\ (socket # << >> \/ receiver # NoMessage)
        ~> loop = "receiving" \/ Authenticating
=============================================================================
