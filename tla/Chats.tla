-------------------------------- MODULE Chats --------------------------------
(***************************************************************************)
(* The storage of chats (services/memory.py) and the requests that list,   *)
(* rename and delete them (routers/chat.py), while sessions' runs write    *)
(* checkpoints.                                                            *)
(*                                                                         *)
(* A chat is a thread of checkpoints, and its child agents have threads of *)
(* their own.  LangGraph stores the values of the channels apart from the  *)
(* checkpoints, by version: a checkpoint refers to them, a put stores those*)
(* of its new_versions, and deleting a thread deletes both.  kept says     *)
(* which of the values referred to are still stored.  Every call of the    *)
(* checkpointer is one step, and anything may happen between two of them.  *)
(*                                                                         *)
(* All chats are one user's, and a chat is open in one session at a time.  *)
(* Messages are abstracted to the turns that they belong to.               *)
(***************************************************************************)
EXTENDS Naturals, FiniteSets, FiniteSetsExt

CONSTANTS
    ChatIds,       \* chats of the user
    Requests,      \* HTTP requests that may be at work at a time
    Names,         \* names a chat can be given
    NoName,        \* no name
    NoChat,        \* no chat
    MaxTurns,      \* bound: turns of all sessions
    MaxCheckpoints \* bound: checkpoints written for a chat

ASSUME ChatsAssumption ==
    /\ NoName \notin Names /\ NoChat \notin ChatIds
    /\ MaxTurns \in Nat /\ MaxCheckpoints \in Nat

Channels == {"messages", "messages_history"}
Turns == 1..MaxTurns

VARIABLES
    own,       \* per chat: the checkpoints of its thread
    child,     \* per chat: what its children's threads hold
    clock,     \* per chat: checkpoints written so far, which orders their ids
    turn,      \* turns begun
    run,       \* per chat: the run of a session, with its state in memory
    req,       \* per request: its operation, place and what it has read
    deleted    \* history: per chat, turns deleted while no run was at work

vars == <<own, child, clock, turn, run, req, deleted>>

\* What is read of a channel: nothing when its value is not stored any more.
Value(cp, ch) == IF ch \in cp.kept THEN cp.values[ch] ELSE {}

Nothing == [ch \in Channels |-> {}]
NoRun == [on |-> FALSE, turn |-> 0, values |-> Nothing, kept |-> {}]
NoCheckpoint == [id |-> 0, values |-> Nothing, kept |-> {}, name |-> NoName]
Free == [op |-> "none", at |-> "start", chat |-> NoChat, name |-> NoName,
         cp |-> NoCheckpoint, todo |-> {}, wrote |-> {}]

Init ==
    /\ own = [c \in ChatIds |-> {}] /\ child = [c \in ChatIds |-> {}]
    /\ clock = [c \in ChatIds |-> 0] /\ turn = 0
    /\ run = [c \in ChatIds |-> NoRun]
    /\ req = [r \in Requests |-> Free]
    /\ deleted = [c \in ChatIds |-> {}]

-----------------------------------------------------------------------------
(* What requests read.                                                     *)

NewestOf(cps) == {cp \in cps : \A other \in cps : other.id <= cp.id}

\* aget_tuple: the newest checkpoint of the chat's thread.
Newest(c) ==
    IF NewestOf(own[c]) = {} THEN NoCheckpoint
    ELSE CHOOSE cp \in own[c] : cp \in NewestOf(own[c])

\* _is_empty_chat.
IsEmptyChat(cp) == Value(cp, "messages") = {}

\* _get_chat_metadata: the name given, or else that of the first message.
NameOf(cp) ==
    LET history == Value(cp, "messages_history") IN
    IF cp.name # NoName THEN cp.name
    ELSE IF history = {} THEN NoName ELSE Min(history)

\* fetch_chat: the chat's name, if its newest checkpoint has messages.
FetchChat(c) == IF IsEmptyChat(Newest(c)) THEN {} ELSE {NameOf(Newest(c))}

\* fetch_chats: the names by the newest of each chat's checkpoints with messages.
FetchChats(c) ==
    {NameOf(cp) : cp \in NewestOf({x \in own[c] : ~IsEmptyChat(x)})}

\* fetch_messages.
FetchMessages(c) == Value(Newest(c), "messages_history")

-----------------------------------------------------------------------------
(* The runs of the sessions, which LangGraph checkpoints.                  *)

\* The requests to delete all chats take note of what runs write meanwhile.
Noted(c) ==
    [r \in Requests |->
        IF req[r].op = "delete_all" THEN [req[r] EXCEPT !.wrote = @ \cup {c}] ELSE req[r]]

\* The metadata of a run's checkpoint is that of the run, without a chat_name.
Checkpoint(c, values, kept) ==
    /\ clock[c] < MaxCheckpoints
    /\ clock' = [clock EXCEPT ![c] = @ + 1]
    /\ own' = [own EXCEPT ![c] = @ \cup
           {[id |-> clock[c] + 1, values |-> values, kept |-> kept, name |-> NoName]}]
    /\ req' = Noted(c)

\* A turn begins with the state of the newest checkpoint, and stores it again.
RunStarts(c) ==
    /\ ~run[c].on /\ turn < MaxTurns
    /\ turn' = turn + 1
    /\ LET read == [ch \in Channels |-> Value(Newest(c), ch)]
       IN  /\ run' = [run EXCEPT ![c] = [on |-> TRUE, turn |-> turn + 1,
                                         values |-> read, kept |-> Newest(c).kept]]
           /\ Checkpoint(c, read, Newest(c).kept)
    /\ UNCHANGED <<child, deleted>>

\* A step of the graph changes some channels: the request and replies come into
\* messages, MessagesHistoryMiddleware copies them into messages_history.
RunSteps(c, changed) ==
    /\ run[c].on
    /\ LET new == IF "messages" \in changed THEN {run[c].turn} ELSE {}
           messages == run[c].values["messages"] \cup new
           history == run[c].values["messages_history"] \cup messages
           values == [run[c].values EXCEPT
                         !["messages"] = messages,
                         !["messages_history"] =
                             IF "messages_history" \in changed THEN history ELSE @]
           kept == run[c].kept \cup changed
       IN  /\ run' = [run EXCEPT ![c].values = values, ![c].kept = kept]
           /\ Checkpoint(c, values, kept)
    /\ UNCHANGED <<child, turn, deleted>>

\* A child is called, and its thread remembers the turn.
ChildSteps(c) ==
    /\ run[c].on /\ run[c].turn \notin child[c]
    /\ child' = [child EXCEPT ![c] = @ \cup {run[c].turn}]
    /\ req' = Noted(c)
    /\ UNCHANGED <<own, clock, turn, run, deleted>>

RunEnds(c) ==
    /\ run[c].on
    /\ run' = [run EXCEPT ![c] = NoRun]
    /\ UNCHANGED <<own, child, clock, turn, req, deleted>>

-----------------------------------------------------------------------------
(* Requests.  Authentication comes first; one that fails it does nothing.  *)

At(r, op, at) == req[r].op = op /\ req[r].at = at

Begin(r, op, c, name) ==
    /\ req[r].op = "none"
    /\ req' = [req EXCEPT ![r] = [Free EXCEPT !.op = op, !.chat = c, !.name = name]]
    /\ UNCHANGED <<own, child, clock, turn, run, deleted>>

Respond(r) ==
    /\ req' = [req EXCEPT ![r] = Free]
    /\ UNCHANGED <<own, child, clock, turn, run, deleted>>

Goto(r, at) ==
    /\ req' = [req EXCEPT ![r].at = at]
    /\ UNCHANGED <<own, child, clock, turn, run, deleted>>

\* PUT /chats/{id}: 404 when there is no such chat; an empty name changes nothing.
PutFetches(r) ==
    /\ At(r, "put", "start")
    /\ IF FetchChat(req[r].chat) = {} \/ req[r].name = NoName
       THEN Respond(r) ELSE Goto(r, "read")

\* update_chat reads the newest checkpoint.
PutReads(r) ==
    /\ At(r, "put", "read")
    /\ IF own[req[r].chat] = {} THEN Respond(r)
       ELSE /\ req' = [req EXCEPT ![r].cp = Newest(req[r].chat), ![r].at = "write"]
            /\ UNCHANGED <<own, child, clock, turn, run, deleted>>

\* Mutant: the values of the channels are stored with the checkpoint.
RenamedWithValues(r) ==
    [req[r].cp EXCEPT !.name = req[r].name, !.kept = Channels]

\* Mutant: the chat is named by a new checkpoint, after those written meanwhile.
RenamedAsNew(r) ==
    [req[r].cp EXCEPT !.name = req[r].name, !.id = clock[req[r].chat] + 1]

\* The checkpoint read, under its id and with no new version of a channel.
Renamed(r) == [req[r].cp EXCEPT !.name = req[r].name]

\* Mutant: the checkpoint is put beside the one it names.
Inserted(cps, cp) == cps \cup {cp}

\* aput replaces the checkpoint of that id, if it is still there.
Put(cps, cp) == {other \in cps : other.id # cp.id} \cup {cp}

\* The name is put on that checkpoint, also when it is not the newest any more
\* or was deleted; the chat is read again for the answer.
PutWrites(r) ==
    /\ At(r, "put", "write")
    /\ own' = [own EXCEPT ![req[r].chat] = Put(@, Renamed(r))]
    /\ req' = [req EXCEPT ![r] = Free]
    /\ UNCHANGED <<child, clock, turn, run, deleted>>

\* adelete_thread of a chat's own thread, by a request that goes on as given:
\* what others have read of it refers to values that are gone.
DeleteOwn(c, r, next) ==
    /\ own' = [own EXCEPT ![c] = {}]
    /\ run' = [run EXCEPT ![c].kept = {}]
    /\ req' = [x \in Requests |->
           IF x = r THEN next
           ELSE IF req[x].chat = c THEN [req[x] EXCEPT !.cp.kept = {}] ELSE req[x]]
    /\ deleted' = IF run[c].on THEN deleted ELSE [deleted EXCEPT ![c] = 1..turn]

\* DELETE /chats/{id}: nothing is deleted when there is no checkpoint.
DeleteReads(r) ==
    /\ At(r, "delete", "start")
    /\ IF own[req[r].chat] = {} THEN Respond(r) ELSE Goto(r, "delete")

DeleteDeletes(r) ==
    /\ At(r, "delete", "delete")
    /\ DeleteOwn(req[r].chat, r, Free)
    /\ UNCHANGED <<child, clock, turn>>

\* Mutant: as in the list of chats, the children's threads are left out.
ThreadsOfChats == {<<c, "own">> : c \in {x \in ChatIds : own[x] # {}}}

\* delete_chats lists every thread of the user, also those of the children.
Threads ==
    {<<c, "own">> : c \in {x \in ChatIds : own[x] # {}}}
    \cup {<<c, "child">> : c \in {x \in ChatIds : child[x] # {}}}

\* DELETE /chats: the threads are listed, then deleted one by one.
DeleteAllLists(r) ==
    /\ At(r, "delete_all", "start")
    /\ req' = [req EXCEPT ![r].todo = Threads, ![r].at = "delete"]
    /\ UNCHANGED <<own, child, clock, turn, run, deleted>>

DeleteAllDeletes(r, t) ==
    /\ At(r, "delete_all", "delete") /\ t \in req[r].todo
    /\ LET rest == [req[r] EXCEPT !.todo = @ \ {t}] IN
       IF t[2] = "own"
       THEN DeleteOwn(t[1], r, rest) /\ UNCHANGED child
       ELSE /\ child' = [child EXCEPT ![t[1]] = {}]
            /\ req' = [req EXCEPT ![r] = rest]
            /\ UNCHANGED <<own, run, deleted>>
    /\ UNCHANGED <<clock, turn>>

DeleteAllEnds(r) ==
    /\ At(r, "delete_all", "delete") /\ req[r].todo = {}
    /\ Respond(r)

\* The checkpointer raises in the middle of a request, which answers 500: what is
\* left of it is not done.
RequestFails(r) == req[r].op # "none" /\ Respond(r)

-----------------------------------------------------------------------------
\* The process restarts: a database has what was stored, the process's own memory
\* had it until now.
Restart ==
    /\ \/ UNCHANGED <<own, child>>
       \/ own' = [c \in ChatIds |-> {}] /\ child' = [c \in ChatIds |-> {}]
    /\ run' = [c \in ChatIds |-> NoRun] /\ req' = [r \in Requests |-> Free]
    /\ UNCHANGED <<clock, turn, deleted>>

Runs == \E c \in ChatIds :
    \/ RunStarts(c) \/ ChildSteps(c) \/ RunEnds(c)
    \/ \E changed \in SUBSET Channels : RunSteps(c, changed)

Request(r) ==
    \/ \E c \in ChatIds, name \in Names \cup {NoName} : Begin(r, "put", c, name)
    \/ \E c \in ChatIds : Begin(r, "delete", c, NoName)
    \/ Begin(r, "delete_all", NoChat, NoName)
    \/ PutFetches(r) \/ PutReads(r) \/ PutWrites(r)
    \/ DeleteReads(r) \/ DeleteDeletes(r)
    \/ DeleteAllLists(r) \/ DeleteAllEnds(r) \/ RequestFails(r)
    \/ \E t \in req[r].todo : DeleteAllDeletes(r, t)

Next == Runs \/ Restart \/ \E r \in Requests : Request(r)

Spec == Init /\ [][Next]_vars

-----------------------------------------------------------------------------
Contents == [Channels -> SUBSET Turns]
Checkpoints == [id : 0..MaxCheckpoints, values : Contents, kept : SUBSET Channels,
                name : Names \cup {NoName}]
RunStates == [on : BOOLEAN, turn : 0..MaxTurns, values : Contents, kept : SUBSET Channels]
RequestStates ==
    [op : {"none", "put", "delete", "delete_all"}, at : {"start", "read", "write", "delete"},
     chat : ChatIds \cup {NoChat}, name : Names \cup {NoName}, cp : Checkpoints,
     todo : SUBSET (ChatIds \X {"own", "child"}), wrote : SUBSET ChatIds]

\* The checkpoints of a thread have ids of their own, that were given out.
Ordered(cps, n) ==
    /\ \A cp, other \in cps : cp.id = other.id => cp = other
    /\ \A cp \in cps : cp.id \in 1..n

\* The type of the state, and of what is stored: a rename puts its checkpoint back
\* under an id that was given out, and in the place of the one it had read.
TypeOK ==
    /\ own \in [ChatIds -> SUBSET Checkpoints]
    /\ clock \in [ChatIds -> 0..MaxCheckpoints]
    /\ \A c \in ChatIds : Ordered(own[c], clock[c])
    /\ child \in [ChatIds -> SUBSET Turns] /\ deleted \in [ChatIds -> SUBSET Turns]
    /\ turn \in 0..MaxTurns
    /\ run \in [ChatIds -> RunStates]
    /\ req \in [Requests -> RequestStates]

\* The list and the chat itself agree: a chat is listed exactly when it is found,
\* under the same name, although the list goes by the newest checkpoint with
\* messages and the chat by its newest one, and deletions and renames leave
\* checkpoints without messages.
ListedIsFound == \A c \in ChatIds : FetchChats(c) = FetchChat(c)

\* What a chat's own thread held when it was deleted, with no run at work on it, is
\* not shown again, nor in the messages a later run of the chat reads from its thread,
\* be there a rename that had read it.  (ChildrenForgetDeleted is about the threads of
\* the children.)
DeletedIsNotShown ==
    \A c \in ChatIds, ch \in Channels :
        /\ \A cp \in own[c] : Value(cp, ch) \cap deleted[c] = {}
        /\ run[c].values[ch] \cap deleted[c] = {}

\* The messages that a chat shows only grow until it is deleted: a rename in the
\* middle of a run takes none of them back.
ShownOnlyGrows ==
    [][\A c \in ChatIds : FetchMessages(c) \subseteq FetchMessages(c)' \/ own'[c] = {}]_vars

\* When all chats have been deleted, a chat or a child that remembers is one that
\* a run has written since the request began.
DeleteAllDeletesAll ==
    [][\A r \in Requests : DeleteAllEnds(r) =>
          \A c \in ChatIds : FetchChats(c) # {} \/ child[c] # {} => c \in req[r].wrote]_vars

\* A chat is deleted with all associated messages (openapi.yaml:178): the threads of
\* its children, which a later run of the same chat resumes, do not hold them either.
ChildrenForgetDeleted == \A c \in ChatIds : child[c] \cap deleted[c] = {}
=============================================================================
