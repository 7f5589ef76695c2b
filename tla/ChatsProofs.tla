----------------------------- MODULE ChatsProofs -----------------------------
(* Proofs about Chats, for any chats, requests and bounds.                 *)
EXTENDS Chats, TLAPS

(***************************************************************************)
(* Threads of checkpoints.                                                 *)
(***************************************************************************)
\* The newest checkpoint is among those of the thread, if there is one at all.
LEMMA NewestFacts ==
    ASSUME NEW c \in ChatIds
    PROVE  /\ Newest(c) \in own[c] \cup {NoCheckpoint}
           /\ NewestOf(own[c]) # {} => Newest(c) \in own[c]
<1>1. NewestOf(own[c]) \subseteq own[c]
    BY DEF NewestOf
<1>2. CASE NewestOf(own[c]) = {}
    BY <1>2 DEF Newest
<1>3. CASE NewestOf(own[c]) # {}
    <2>1. \E cp \in own[c] : cp \in NewestOf(own[c])
        BY <1>1, <1>3
    <2>2. QED
        BY <1>3, <2>1 DEF Newest
<1>4. QED
    BY <1>2, <1>3

\* A thread of checkpoints with ids of their own has a newest one.
HasNewest(cps) == cps # {} => NewestOf(cps) # {}

\* A checkpoint with the next id keeps the ids distinct, and is the newest.
LEMMA AppendFacts ==
    ASSUME NEW cps \in SUBSET Checkpoints, NEW n \in Nat, Ordered(cps, n),
           NEW cp \in Checkpoints, cp.id = n + 1
    PROVE  Ordered(cps \cup {cp}, n + 1) /\ HasNewest(cps \cup {cp})
<1>1. \A other \in cps : other.id \in 1..n /\ other.id # cp.id /\ other.id <= cp.id
    BY DEF Ordered
<1>2. cp \in NewestOf(cps \cup {cp})
    BY <1>1 DEF NewestOf
<1>3. QED
    BY <1>1, <1>2 DEF Ordered, HasNewest

\* Putting a checkpoint back in the place of its id keeps the ids distinct, and a
\* newest one.
LEMMA PutFacts ==
    ASSUME NEW cps \in SUBSET Checkpoints, NEW n \in Nat, Ordered(cps, n), HasNewest(cps),
           NEW cp \in Checkpoints, cp.id \in 1..n
    PROVE  /\ Put(cps, cp) \in SUBSET Checkpoints
           /\ Ordered(Put(cps, cp), n) /\ HasNewest(Put(cps, cp))
<1> DEFINE put == Put(cps, cp)
<1>1. \A other \in put : other = cp \/ (other \in cps /\ other.id # cp.id)
    BY DEF Put
<1>2. cp \in put /\ put \subseteq Checkpoints
    BY DEF Put
<1>3. Ordered(put, n)
    BY <1>1 DEF Ordered
<1>4. CASE \A other \in cps : other.id <= cp.id
    <2>1. cp.id <= cp.id
        BY DEF Checkpoints
    <2>2. cp \in NewestOf(put)
        BY <1>1, <1>2, <1>4, <2>1 DEF NewestOf
    <2>3. QED
        BY <1>2, <1>3, <2>2 DEF HasNewest
<1>5. CASE ~(\A other \in cps : other.id <= cp.id)
    <2>1. PICK last \in cps : \A other \in cps : other.id <= last.id
        BY <1>5 DEF HasNewest, NewestOf
    <2>2. PICK newer \in cps : ~(newer.id <= cp.id)
        BY <1>5
    <2>3. newer.id <= last.id /\ newer.id \in Nat /\ last.id \in Nat /\ cp.id \in Nat
        BY <2>1, <2>2 DEF Ordered
    <2>4. cp.id <= last.id /\ last.id # cp.id
        BY <2>2, <2>3
    <2>5. last \in put /\ \A other \in put : other.id <= last.id
        BY <1>1, <2>1, <2>4 DEF Put
    <2>6. QED
        BY <1>2, <1>3, <2>5 DEF HasNewest, NewestOf
<1>6. QED
    BY <1>4, <1>5

(***************************************************************************)
(* Type correctness.                                                       *)
(***************************************************************************)
\* What a request has read belongs to the chat it is about.
RequestKnows(r) ==
    /\ req[r].op \in {"put", "delete"} => req[r].chat \in ChatIds
    /\ At(r, "put", "write") => req[r].cp.id \in 1..clock[req[r].chat]

\* A run is of one of the turns begun.
RunKnows(c) == run[c].on => run[c].turn \in 1..turn

TypeInv ==
    /\ TypeOK
    /\ \A c \in ChatIds : HasNewest(own[c]) /\ RunKnows(c)
    /\ \A r \in Requests : RequestKnows(r)

\* The values the variables begin with, and requests and runs go back to.
LEMMA ConstantFacts ==
    /\ Nothing \in Contents
    /\ NoCheckpoint \in Checkpoints /\ NoRun \in RunStates /\ Free \in RequestStates
    /\ \A ch \in Channels : Nothing[ch] = {}
<1>1. Nothing \in Contents /\ \A ch \in Channels : Nothing[ch] = {}
    BY DEF Nothing, Contents
<1>2. 0 \in 0..MaxCheckpoints /\ 0 \in 0..MaxTurns
    BY ChatsAssumption
<1>3. NoCheckpoint \in Checkpoints
    BY <1>1, <1>2 DEF NoCheckpoint, Checkpoints
<1>4. NoRun \in RunStates
    BY <1>1, <1>2 DEF NoRun, RunStates
<1>5. Free \in RequestStates
    BY <1>3 DEF Free, RequestStates
<1>6. QED
    BY <1>1, <1>3, <1>4, <1>5

\* What is read of a checkpoint are turns.
LEMMA ValueFacts ==
    ASSUME NEW cp \in Checkpoints, NEW ch \in Channels
    PROVE  Value(cp, ch) \in SUBSET Turns
BY DEF Value, Checkpoints, Contents

\* Taking note of a chat changes nothing else of a request.
LEMMA NotedFacts ==
    ASSUME req \in [Requests -> RequestStates], NEW c \in ChatIds
    PROVE  /\ Noted(c) \in [Requests -> RequestStates]
           /\ \A r \in Requests : /\ Noted(c)[r].op = req[r].op
                                  /\ Noted(c)[r].at = req[r].at
                                  /\ Noted(c)[r].chat = req[r].chat
                                  /\ Noted(c)[r].cp = req[r].cp
<1>1. ASSUME NEW r \in Requests
      PROVE  /\ Noted(c)[r] \in RequestStates
             /\ Noted(c)[r].op = req[r].op
             /\ Noted(c)[r].at = req[r].at
             /\ Noted(c)[r].chat = req[r].chat
             /\ Noted(c)[r].cp = req[r].cp
    <2> DEFINE noted == [req[r] EXCEPT !.wrote = @ \cup {c}]
    <2>1. req[r] \in RequestStates
        OBVIOUS
    <2>2. /\ noted \in RequestStates
          /\ noted.op = req[r].op
          /\ noted.at = req[r].at
          /\ noted.chat = req[r].chat
          /\ noted.cp = req[r].cp
        BY <2>1 DEF RequestStates
    <2>3. Noted(c)[r] = IF req[r].op = "delete_all" THEN noted ELSE req[r]
        BY DEF Noted
    <2>4. QED
        BY <2>1, <2>2, <2>3
<1>2. QED
    BY <1>1 DEF Noted

\* A run's checkpoint is the newest of its thread and leaves what others know.
LEMMA CheckpointKeepsType ==
    ASSUME TypeInv, NEW c \in ChatIds, NEW values \in Contents, NEW kept \in SUBSET Channels,
           Checkpoint(c, values, kept)
    PROVE  /\ own' \in [ChatIds -> SUBSET Checkpoints]
           /\ clock' \in [ChatIds -> 0..MaxCheckpoints]
           /\ \A x \in ChatIds : Ordered(own[x], clock[x])' /\ HasNewest(own[x])'
           /\ req' \in [Requests -> RequestStates]
           /\ \A r \in Requests : RequestKnows(r)'
<1> DEFINE cp == [id |-> clock[c] + 1, values |-> values, kept |-> kept, name |-> NoName]
<1>1. clock[c] \in Nat /\ clock[c] + 1 \in 0..MaxCheckpoints
    BY ChatsAssumption DEF TypeInv, TypeOK, Checkpoint
<1>2. cp \in Checkpoints /\ cp.id = clock[c] + 1
    BY <1>1 DEF Checkpoints
<1>3. own' = [own EXCEPT ![c] = @ \cup {cp}] /\ clock' = [clock EXCEPT ![c] = @ + 1]
    BY DEF Checkpoint
<1>4. own' \in [ChatIds -> SUBSET Checkpoints] /\ clock' \in [ChatIds -> 0..MaxCheckpoints]
    BY <1>1, <1>2, <1>3 DEF TypeInv, TypeOK
<1>5. Ordered(own[c] \cup {cp}, clock[c] + 1) /\ HasNewest(own[c] \cup {cp})
    BY <1>1, <1>2, AppendFacts DEF TypeInv, TypeOK
<1>6. ASSUME NEW x \in ChatIds
      PROVE  Ordered(own[x], clock[x])' /\ HasNewest(own[x])'
    <2>1. CASE x = c
        <3>1. own'[x] = own[c] \cup {cp} /\ clock'[x] = clock[c] + 1
            BY <1>3, <2>1 DEF TypeInv, TypeOK
        <3>2. QED
            BY <1>5, <3>1 DEF Ordered, HasNewest, NewestOf
    <2>2. CASE x # c
        <3>1. own'[x] = own[x] /\ clock'[x] = clock[x]
            BY <1>3, <2>2 DEF TypeInv, TypeOK
        <3>2. QED
            BY <3>1 DEF TypeInv, TypeOK, Ordered, HasNewest, NewestOf
    <2>3. QED
        BY <2>1, <2>2
<1>7. req' = Noted(c) /\ req' \in [Requests -> RequestStates]
    BY NotedFacts DEF Checkpoint, TypeInv, TypeOK
<1>8. ASSUME NEW r \in Requests
      PROVE  RequestKnows(r)'
    <2>1. /\ req'[r].op = req[r].op
          /\ req'[r].at = req[r].at
          /\ req'[r].chat = req[r].chat
          /\ req'[r].cp = req[r].cp
        BY <1>7, NotedFacts DEF TypeInv, TypeOK
    <2>2. req[r].chat \in ChatIds => clock[req[r].chat] \in Nat /\ clock'[req[r].chat] \in {clock[req[r].chat], clock[req[r].chat] + 1}
        BY <1>3 DEF TypeInv, TypeOK
    <2>3. RequestKnows(r)
        BY DEF TypeInv
    <2>4. QED
        BY <2>1, <2>2, <2>3 DEF RequestKnows, At
<1>9. QED
    BY <1>4, <1>6, <1>7, <1>8

\* A request changed on its own keeps the type of all and what the others know.
LEMMA RequestKeepsType ==
    ASSUME TypeInv, NEW r \in Requests, NEW state \in RequestStates,
           req' = [req EXCEPT ![r] = state], UNCHANGED <<own, child, clock, turn, run, deleted>>,
           RequestKnows(r)'
    PROVE  TypeInv'
<1>1. TypeOK'
    BY DEF TypeInv, TypeOK, Ordered
<1>2. \A c \in ChatIds : HasNewest(own[c])' /\ RunKnows(c)'
    BY DEF TypeInv, HasNewest, NewestOf, RunKnows
<1>3. ASSUME NEW x \in Requests, x # r
      PROVE  RequestKnows(x)'
    <2>1. req'[x] = req[x]
        BY <1>3 DEF TypeInv, TypeOK
    <2>2. RequestKnows(x)
        BY DEF TypeInv
    <2>3. QED
        BY <2>1, <2>2 DEF RequestKnows, At
<1>4. QED
    BY <1>1, <1>2, <1>3 DEF TypeInv

\* A thread replaced by one that is as well ordered, by a request of whoever.
LEMMA ThreadKeepsType ==
    ASSUME TypeInv, NEW c \in ChatIds, NEW cps \in SUBSET Checkpoints,
           Ordered(cps, clock[c]), HasNewest(cps), own' = [own EXCEPT ![c] = cps], clock' = clock
    PROVE  /\ own' \in [ChatIds -> SUBSET Checkpoints]
           /\ clock' \in [ChatIds -> 0..MaxCheckpoints]
           /\ \A x \in ChatIds : Ordered(own[x], clock[x])' /\ HasNewest(own[x])'
<1>1. ASSUME NEW x \in ChatIds
      PROVE  Ordered(own[x], clock[x])' /\ HasNewest(own[x])'
    <2>1. own'[x] = IF x = c THEN cps ELSE own[x]
        BY DEF TypeInv, TypeOK
    <2>2. Ordered(own[x], clock[x]) /\ HasNewest(own[x])
        BY DEF TypeInv, TypeOK
    <2>3. QED
        BY <2>1, <2>2 DEF Ordered, HasNewest, NewestOf
<1>2. QED
    BY <1>1 DEF TypeInv, TypeOK

\* Deleting a thread leaves a request that goes on as given, and what the others know.
LEMMA DeleteOwnKeepsType ==
    ASSUME TypeInv, NEW c \in ChatIds, NEW r \in Requests, NEW next \in RequestStates,
           next.op \notin {"put", "delete"}, DeleteOwn(c, r, next), clock' = clock, turn' = turn,
           child' \in [ChatIds -> SUBSET Turns]
    PROVE  TypeInv'
<1>1. Ordered({}, clock[c]) /\ HasNewest({})
    BY DEF Ordered, HasNewest
<1>2. /\ own' \in [ChatIds -> SUBSET Checkpoints]
      /\ clock' \in [ChatIds -> 0..MaxCheckpoints]
      /\ \A x \in ChatIds : Ordered(own[x], clock[x])' /\ HasNewest(own[x])'
    BY <1>1, ThreadKeepsType DEF DeleteOwn
<1>3. run' \in [ChatIds -> RunStates]
    BY DEF DeleteOwn, TypeInv, TypeOK, RunStates
<1>4. deleted' \in [ChatIds -> SUBSET Turns]
    <2>1. 1..turn \in SUBSET Turns
        BY ChatsAssumption DEF TypeInv, TypeOK, Turns
    <2>2. QED
        BY <2>1 DEF DeleteOwn, TypeInv, TypeOK
<1>5. ASSUME NEW x \in Requests
      PROVE  req'[x] \in RequestStates /\ RequestKnows(x)'
    <2>1. CASE x = r
        BY <2>1 DEF DeleteOwn, RequestKnows, At
    <2>2. CASE x # r /\ req[x].chat = c
        <3> DEFINE cp == [req[x].cp EXCEPT !.kept = {}]
        <3>1. req'[x] = [req[x] EXCEPT !.cp = cp]
            BY <2>2 DEF DeleteOwn
        <3>2. req[x] \in RequestStates /\ cp \in Checkpoints /\ cp.id = req[x].cp.id
            BY DEF TypeInv, TypeOK, RequestStates, Checkpoints
        <3>3. /\ req'[x] \in RequestStates
              /\ req'[x].op = req[x].op
              /\ req'[x].at = req[x].at
              /\ req'[x].chat = req[x].chat
              /\ req'[x].cp = cp
            BY <3>1, <3>2 DEF RequestStates
        <3>4. RequestKnows(x)
            BY DEF TypeInv
        <3>5. QED
            BY <3>2, <3>3, <3>4 DEF RequestKnows, At
    <2>3. CASE x # r /\ req[x].chat # c
        <3>1. req'[x] = req[x]
            BY <2>3 DEF DeleteOwn
        <3>2. req[x] \in RequestStates /\ RequestKnows(x)
            BY DEF TypeInv, TypeOK
        <3>3. QED
            BY <3>1, <3>2 DEF RequestKnows, At
    <2>4. QED
        BY <2>1, <2>2, <2>3
<1>6. req' \in [Requests -> RequestStates]
    BY <1>5 DEF DeleteOwn
<1>7. \A x \in ChatIds : RunKnows(x)'
    BY DEF DeleteOwn, TypeInv, TypeOK, RunStates, RunKnows
<1>8. QED
    BY <1>2, <1>3, <1>4, <1>5, <1>6, <1>7 DEF TypeInv, TypeOK

\* The type is right initially.
LEMMA InitTypeInv == Init => TypeInv
<1> SUFFICES ASSUME Init
             PROVE  TypeInv
    OBVIOUS
<1>2. TypeOK
    BY ConstantFacts, ChatsAssumption DEF Init, TypeOK, Ordered
<1>3. \A c \in ChatIds : HasNewest(own[c]) /\ RunKnows(c)
    BY DEF Init, HasNewest, RunKnows, NoRun
<1>4. \A r \in Requests : RequestKnows(r)
    BY DEF Init, RequestKnows, At, Free
<1>5. QED
    BY <1>2, <1>3, <1>4 DEF TypeInv

\* Each step of a run keeps the type.
LEMMA RunsKeepType == TypeInv /\ Runs => TypeInv'
<1> SUFFICES ASSUME TypeInv, NEW c \in ChatIds,
                    \/ RunStarts(c) \/ ChildSteps(c) \/ RunEnds(c)
                    \/ \E changed \in SUBSET Channels : RunSteps(c, changed)
             PROVE  TypeInv'
    BY DEF Runs
<1>1. /\ run[c] \in RunStates /\ run[c].turn \in 0..MaxTurns /\ run[c].values \in Contents
      /\ run[c].kept \in SUBSET Channels /\ run[c].on \in BOOLEAN
      /\ turn \in 0..MaxTurns /\ MaxTurns \in Nat
      /\ run[c].on => run[c].turn \in Turns
    BY ChatsAssumption DEF TypeInv, TypeOK, RunStates, RunKnows, Turns
<1>2. CASE RunStarts(c)
    <2> DEFINE read == [ch \in Channels |-> Value(Newest(c), ch)]
    <2>1. Newest(c) \in Checkpoints
        BY NewestFacts, ConstantFacts DEF TypeInv, TypeOK
    <2>2. read \in Contents /\ Newest(c).kept \in SUBSET Channels
        BY <2>1, ValueFacts DEF Contents, Checkpoints
    <2>3. turn + 1 \in 0..MaxTurns
        BY <1>1, <1>2 DEF RunStarts
    <2>4. [on |-> TRUE, turn |-> turn + 1, values |-> read, kept |-> Newest(c).kept] \in RunStates
        BY <2>2, <2>3 DEF RunStates
    <2>5. run' \in [ChatIds -> RunStates] /\ turn' \in 0..MaxTurns
        BY <1>2, <2>3, <2>4 DEF RunStarts, TypeInv, TypeOK
    <2>6. Checkpoint(c, read, Newest(c).kept)
        BY <1>2 DEF RunStarts
    <2>7. /\ own' \in [ChatIds -> SUBSET Checkpoints] /\ clock' \in [ChatIds -> 0..MaxCheckpoints]
          /\ \A x \in ChatIds : Ordered(own[x], clock[x])' /\ HasNewest(own[x])'
          /\ req' \in [Requests -> RequestStates] /\ \A r \in Requests : RequestKnows(r)'
        BY <2>2, <2>6, CheckpointKeepsType
    <2>8. child' = child /\ deleted' = deleted
        BY <1>2 DEF RunStarts
    <2>9. \A x \in ChatIds : RunKnows(x)'
        BY <1>1, <1>2 DEF RunStarts, TypeInv, TypeOK, RunKnows
    <2>10. QED
        BY <2>5, <2>7, <2>8, <2>9 DEF TypeInv, TypeOK
<1>3. ASSUME NEW changed \in SUBSET Channels, RunSteps(c, changed)
      PROVE  TypeInv'
    <2> DEFINE new == IF "messages" \in changed THEN {run[c].turn} ELSE {}
               messages == run[c].values["messages"] \cup new
               history == run[c].values["messages_history"] \cup messages
               values == [run[c].values EXCEPT
                             !["messages"] = messages,
                             !["messages_history"] =
                                 IF "messages_history" \in changed THEN history ELSE @]
               kept == run[c].kept \cup changed
               next == [run EXCEPT ![c].values = values, ![c].kept = kept]
    <2>1. run[c].turn \in Turns \/ "messages" \notin changed
        BY <1>1, <1>3 DEF RunSteps
    <2>2. "messages" \in Channels /\ "messages_history" \in Channels
        BY DEF Channels
    <2>3. run[c].values["messages"] \in SUBSET Turns /\ run[c].values["messages_history"] \in SUBSET Turns
        BY <1>1, <2>2 DEF Contents
    <2>4. values \in Contents /\ kept \in SUBSET Channels
        BY <1>1, <2>1, <2>2, <2>3 DEF Contents
    <2>5. run' = next /\ Checkpoint(c, values, kept) /\ child' = child /\ turn' = turn /\ deleted' = deleted
        BY <1>3 DEF RunSteps
    <2>6. next \in [ChatIds -> RunStates]
        <3>1. [run[c] EXCEPT !.values = values, !.kept = kept] \in RunStates
            BY <1>1, <2>4 DEF RunStates
        <3>2. next = [run EXCEPT ![c] = [run[c] EXCEPT !.values = values, !.kept = kept]]
            BY <1>1 DEF TypeInv, TypeOK
        <3>3. QED
            BY <3>1, <3>2 DEF TypeInv, TypeOK
    <2>7. /\ own' \in [ChatIds -> SUBSET Checkpoints] /\ clock' \in [ChatIds -> 0..MaxCheckpoints]
          /\ \A x \in ChatIds : Ordered(own[x], clock[x])' /\ HasNewest(own[x])'
          /\ req' \in [Requests -> RequestStates] /\ \A r \in Requests : RequestKnows(r)'
        BY <2>4, <2>5, CheckpointKeepsType
    <2>8. \A x \in ChatIds : RunKnows(x)'
        BY <2>5 DEF TypeInv, TypeOK, RunStates, RunKnows
    <2>9. QED
        BY <2>5, <2>6, <2>7, <2>8 DEF TypeInv, TypeOK
<1>4. CASE ChildSteps(c)
    <2>1. /\ req' \in [Requests -> RequestStates]
          /\ \A r \in Requests : /\ req'[r].op = req[r].op
                                 /\ req'[r].at = req[r].at
                                 /\ req'[r].chat = req[r].chat
                                 /\ req'[r].cp = req[r].cp
        BY <1>4, NotedFacts DEF ChildSteps, TypeInv, TypeOK
    <2>2. \A r \in Requests : RequestKnows(r)'
        BY <1>4, <2>1 DEF ChildSteps, TypeInv, RequestKnows, At
    <2>3. child' \in [ChatIds -> SUBSET Turns]
        BY <1>1, <1>4 DEF ChildSteps, TypeInv, TypeOK
    <2>4. QED
        BY <1>4, <2>1, <2>2, <2>3
           DEF ChildSteps, TypeInv, TypeOK, Ordered, HasNewest, NewestOf, RunKnows
<1>5. CASE RunEnds(c)
    <2>1. run' \in [ChatIds -> RunStates]
        BY <1>5, ConstantFacts DEF RunEnds, TypeInv, TypeOK
    <2>2. \A x \in ChatIds : RunKnows(x)'
        BY <1>5 DEF RunEnds, TypeInv, TypeOK, RunKnows, NoRun
    <2>3. QED
        BY <1>5, <2>1, <2>2
           DEF RunEnds, TypeInv, TypeOK, Ordered, HasNewest, NewestOf, RequestKnows, At
<1>6. QED
    BY <1>2, <1>3, <1>4, <1>5

\* Each step of a request keeps the type.
LEMMA RequestsKeepType ==
    ASSUME TypeInv, NEW r \in Requests, Request(r)
    PROVE  TypeInv'
<1> req[r] \in RequestStates /\ RequestKnows(r) /\ Free \in RequestStates
    BY ConstantFacts DEF TypeInv, TypeOK
<1>1. ASSUME Respond(r)
      PROVE  TypeInv'
    <2>1. req' = [req EXCEPT ![r] = Free] /\ UNCHANGED <<own, child, clock, turn, run, deleted>>
        BY <1>1 DEF Respond
    <2>2. RequestKnows(r)'
        BY <2>1 DEF TypeInv, TypeOK, RequestKnows, At, Free
    <2>3. QED
        BY <2>1, <2>2, RequestKeepsType
<1>2. ASSUME NEW op \in {"put", "delete", "delete_all"}, NEW c \in ChatIds \cup {NoChat},
             NEW name \in Names \cup {NoName}, op # "delete_all" => c \in ChatIds,
             Begin(r, op, c, name)
      PROVE  TypeInv'
    <2> DEFINE state == [Free EXCEPT !.op = op, !.chat = c, !.name = name]
    <2>1. state \in RequestStates /\ state.op = op /\ state.chat = c /\ state.at = "start"
        BY <1>2 DEF RequestStates, Free
    <2>2. req' = [req EXCEPT ![r] = state] /\ UNCHANGED <<own, child, clock, turn, run, deleted>>
        BY <1>2 DEF Begin
    <2>3. RequestKnows(r)'
        BY <1>2, <2>1, <2>2 DEF TypeInv, TypeOK, RequestKnows, At
    <2>4. QED
        BY <2>1, <2>2, <2>3, RequestKeepsType
<1>3. ASSUME NEW at \in {"read", "delete"}, Goto(r, at)
      PROVE  TypeInv'
    <2> DEFINE state == [req[r] EXCEPT !.at = at]
    <2>1. state \in RequestStates /\ state.op = req[r].op /\ state.chat = req[r].chat /\ state.at # "write"
        BY <1>3 DEF RequestStates
    <2>2. req' = [req EXCEPT ![r] = state] /\ UNCHANGED <<own, child, clock, turn, run, deleted>>
        BY <1>3 DEF Goto
    <2>3. RequestKnows(r)'
        BY <2>1, <2>2 DEF TypeInv, TypeOK, RequestKnows, At
    <2>4. QED
        BY <2>1, <2>2, <2>3, RequestKeepsType
<1>4. CASE \E c \in ChatIds, name \in Names \cup {NoName} : Begin(r, "put", c, name)
    BY <1>2, <1>4
<1>5. CASE (\E c \in ChatIds : Begin(r, "delete", c, NoName)) \/ Begin(r, "delete_all", NoChat, NoName)
    BY <1>2, <1>5
<1>6. CASE PutFetches(r) \/ DeleteReads(r) \/ DeleteAllEnds(r) \/ RequestFails(r)
    BY <1>1, <1>3, <1>6 DEF PutFetches, DeleteReads, DeleteAllEnds, RequestFails
<1>7. CASE PutReads(r)
    <2> DEFINE c == req[r].chat
               state == [req[r] EXCEPT !.cp = Newest(c), !.at = "write"]
    <2>1. c \in ChatIds /\ req[r].op = "put"
        BY <1>7 DEF PutReads, At, RequestKnows
    <2>2. CASE own[c] = {}
        BY <1>1, <1>7, <2>2 DEF PutReads
    <2>3. CASE own[c] # {}
        <3>1. Newest(c) \in own[c]
            BY <2>1, <2>3, NewestFacts DEF TypeInv, HasNewest
        <3>2. Newest(c) \in Checkpoints /\ Newest(c).id \in 1..clock[c]
            BY <2>1, <3>1 DEF TypeInv, TypeOK, Ordered
        <3>3. state \in RequestStates /\ state.chat = c /\ state.cp = Newest(c)
            BY <3>2 DEF RequestStates
        <3>4. req' = [req EXCEPT ![r] = state] /\ UNCHANGED <<own, child, clock, turn, run, deleted>>
            BY <1>7, <2>3 DEF PutReads
        <3>5. RequestKnows(r)'
            BY <2>1, <3>2, <3>3, <3>4 DEF TypeInv, TypeOK, RequestKnows, At
        <3>6. QED
            BY <3>3, <3>4, <3>5, RequestKeepsType
    <2>4. QED
        BY <2>2, <2>3
<1>8. CASE PutWrites(r)
    <2> DEFINE c == req[r].chat
    <2>1. c \in ChatIds /\ req[r].cp.id \in 1..clock[c]
        BY <1>8 DEF PutWrites, At, RequestKnows
    <2>2. Renamed(r) \in Checkpoints /\ Renamed(r).id = req[r].cp.id
        BY DEF Renamed, RequestStates, Checkpoints
    <2>3. own[c] \in SUBSET Checkpoints /\ clock[c] \in Nat /\ Ordered(own[c], clock[c]) /\ HasNewest(own[c])
        BY <2>1, ChatsAssumption DEF TypeInv, TypeOK
    <2>4. /\ Put(own[c], Renamed(r)) \in SUBSET Checkpoints
          /\ Ordered(Put(own[c], Renamed(r)), clock[c]) /\ HasNewest(Put(own[c], Renamed(r)))
        BY <2>1, <2>2, <2>3, PutFacts
    <2>5. own' = [own EXCEPT ![c] = Put(own[c], Renamed(r))] /\ clock' = clock
        BY <1>8 DEF PutWrites
    <2>6. /\ own' \in [ChatIds -> SUBSET Checkpoints] /\ clock' \in [ChatIds -> 0..MaxCheckpoints]
          /\ \A x \in ChatIds : Ordered(own[x], clock[x])' /\ HasNewest(own[x])'
        BY <2>1, <2>4, <2>5, ThreadKeepsType
    <2>7. req' = [req EXCEPT ![r] = Free] /\ UNCHANGED <<child, clock, turn, run, deleted>>
        BY <1>8 DEF PutWrites
    <2>8. ASSUME NEW x \in Requests
          PROVE  req'[x] \in RequestStates /\ RequestKnows(x)'
        <3>1. req'[x] = IF x = r THEN Free ELSE req[x]
            BY <2>7 DEF TypeInv, TypeOK
        <3>2. req[x] \in RequestStates /\ RequestKnows(x)
            BY DEF TypeInv, TypeOK
        <3>3. QED
            BY <2>7, <3>1, <3>2 DEF RequestKnows, At, Free
    <2>9. req' \in [Requests -> RequestStates]
        BY <2>7, <2>8 DEF TypeInv, TypeOK
    <2>10. QED
        BY <2>6, <2>7, <2>8, <2>9 DEF TypeInv, TypeOK, RunKnows
<1>9. CASE DeleteDeletes(r)
    <2>1. req[r].chat \in ChatIds
        BY <1>9 DEF DeleteDeletes, At, RequestKnows
    <2>2. DeleteOwn(req[r].chat, r, Free) /\ UNCHANGED <<child, clock, turn>> /\ Free.op = "none"
        BY <1>9 DEF DeleteDeletes, Free
    <2>3. child' \in [ChatIds -> SUBSET Turns]
        BY <2>2 DEF TypeInv, TypeOK
    <2>4. QED
        BY <2>1, <2>2, <2>3, DeleteOwnKeepsType
<1>10. CASE DeleteAllLists(r)
    <2> DEFINE state == [req[r] EXCEPT !.todo = Threads, !.at = "delete"]
    <2>1. Threads \in SUBSET (ChatIds \X {"own", "child"})
        BY DEF Threads
    <2>2. state \in RequestStates /\ state.op = "delete_all"
        BY <1>10, <2>1 DEF RequestStates, DeleteAllLists, At
    <2>3. req' = [req EXCEPT ![r] = state] /\ UNCHANGED <<own, child, clock, turn, run, deleted>>
        BY <1>10 DEF DeleteAllLists
    <2>4. RequestKnows(r)'
        BY <2>2, <2>3 DEF TypeInv, TypeOK, RequestKnows, At
    <2>5. QED
        BY <2>2, <2>3, <2>4, RequestKeepsType
<1>11. ASSUME NEW t \in req[r].todo, DeleteAllDeletes(r, t)
       PROVE  TypeInv'
    <2> DEFINE rest == [req[r] EXCEPT !.todo = @ \ {t}]
    <2>1. rest \in RequestStates /\ rest.op = "delete_all" /\ t[1] \in ChatIds
        BY <1>11 DEF RequestStates, DeleteAllDeletes, At
    <2>2. clock' = clock /\ turn' = turn
        BY <1>11 DEF DeleteAllDeletes
    <2>3. CASE t[2] = "own"
        <3>1. DeleteOwn(t[1], r, rest) /\ child' \in [ChatIds -> SUBSET Turns]
            BY <1>11, <2>3 DEF DeleteAllDeletes, TypeInv, TypeOK
        <3>2. QED
            BY <2>1, <2>2, <3>1, DeleteOwnKeepsType
    <2>4. CASE t[2] # "own"
        <3>1. /\ child' = [child EXCEPT ![t[1]] = {}]
              /\ req' = [req EXCEPT ![r] = rest]
              /\ UNCHANGED <<own, clock, turn, run, deleted>>
            BY <1>11, <2>4 DEF DeleteAllDeletes
        <3>2. TypeOK'
            BY <2>1, <3>1 DEF TypeInv, TypeOK, Ordered
        <3>3. \A x \in Requests : RequestKnows(x)'
            BY <2>1, <3>1 DEF TypeInv, TypeOK, RequestKnows, At
        <3>4. QED
            BY <3>1, <3>2, <3>3 DEF TypeInv, HasNewest, NewestOf, RunKnows
    <2>5. QED
        BY <2>3, <2>4
<1>12. QED
    BY <1>4, <1>5, <1>6, <1>7, <1>8, <1>9, <1>10, <1>11 DEF Request

\* A restart keeps the type, whether or not the storage outlives it.
LEMMA RestartKeepsType == TypeInv /\ Restart => TypeInv'
<1> SUFFICES ASSUME TypeInv, Restart
             PROVE  TypeInv'
    OBVIOUS
<1>1. \A c \in ChatIds : own'[c] = own[c] \/ own'[c] = {}
    BY DEF Restart
<1>2. TypeOK'
    BY <1>1, ConstantFacts DEF Restart, TypeInv, TypeOK, Ordered
<1>3. \A c \in ChatIds : HasNewest(own[c])' /\ RunKnows(c)'
    BY <1>1 DEF Restart, TypeInv, HasNewest, NewestOf, RunKnows, NoRun
<1>4. \A r \in Requests : RequestKnows(r)'
    BY DEF Restart, RequestKnows, At, Free
<1>5. QED
    BY <1>2, <1>3, <1>4 DEF TypeInv

\* Every step keeps the type.
LEMMA NextTypeInv == TypeInv /\ [Next]_vars => TypeInv'
<1>1. TypeInv /\ UNCHANGED vars => TypeInv'
    BY DEF TypeInv, TypeOK, Ordered, HasNewest, NewestOf, RunKnows, RequestKnows, At, vars
<1>2. QED
    BY <1>1, RunsKeepType, RequestsKeepType, RestartKeepsType DEF Next

\* The state has its type in every behaviour: the ids of a chat's checkpoints stay
\* its own, although update_chat puts one back that was read some steps before.
THEOREM TypeCorrect == Spec => []TypeOK
<1>1. TypeInv => TypeOK
    BY DEF TypeInv
<1>2. QED
    BY <1>1, InitTypeInv, NextTypeInv, PTL DEF Spec

(***************************************************************************)
(* What was deleted is forgotten.                                          *)
(***************************************************************************)
\* Nothing that is read of the checkpoint is of the turns that are gone.
Clean(cp, gone) == \A ch \in Channels : Value(cp, ch) \cap gone = {}

\* A chat's turns are deleted once they have begun; a run at work is of a later turn,
\* and has none of them in memory.
Forgets(c) ==
    /\ deleted[c] \subseteq 1..turn
    /\ \A cp \in own[c] : Clean(cp, deleted[c])
    /\ \A ch \in Channels : run[c].values[ch] \cap deleted[c] = {}
    /\ run[c].on => run[c].turn \notin deleted[c]
    /\ ~run[c].on => run[c] = NoRun

\* Nor has a rename, in the checkpoint that it has read.
RequestForgets(r) ==
    /\ req[r].chat \in ChatIds => Clean(req[r].cp, deleted[req[r].chat])
    /\ req[r].op = "delete_all" => req[r].chat = NoChat

ForgetInv ==
    /\ TypeInv
    /\ \A c \in ChatIds : Forgets(c)
    /\ \A r \in Requests : RequestForgets(r)

\* The values the variables begin with are clean.
LEMMA CleanFacts ==
    ASSUME NEW gone
    PROVE  /\ Clean(NoCheckpoint, gone) /\ Clean(Free.cp, gone)
           /\ \A ch \in Channels : NoRun.values[ch] \cap gone = {}
BY ConstantFacts DEF Clean, Value, NoCheckpoint, Free, NoRun

\* A checkpoint without values is clean, whatever it refers to.
LEMMA StrippedIsClean ==
    ASSUME NEW cp \in Checkpoints, NEW gone
    PROVE  Clean([cp EXCEPT !.kept = {}], gone)
BY DEF Clean, Value, Checkpoints

\* A run's checkpoint of clean values leaves all threads and requests clean.
LEMMA CheckpointForgets ==
    ASSUME ForgetInv, NEW c \in ChatIds, NEW values \in Contents, NEW kept \in SUBSET Channels,
           Checkpoint(c, values, kept), deleted' = deleted,
           \A ch \in Channels : values[ch] \cap deleted[c] = {}
    PROVE  /\ \A x \in ChatIds : \A cp \in own'[x] : Clean(cp, deleted[x])
           /\ \A r \in Requests : RequestForgets(r)'
<1> DEFINE cp == [id |-> clock[c] + 1, values |-> values, kept |-> kept, name |-> NoName]
<1>1. Clean(cp, deleted[c])
    BY DEF Clean, Value
<1>2. own' = [own EXCEPT ![c] = @ \cup {cp}]
    BY DEF Checkpoint
<1>3. \A x \in ChatIds : \A y \in own'[x] : Clean(y, deleted[x])
    BY <1>1, <1>2 DEF ForgetInv, TypeInv, TypeOK, Forgets
<1>4. \A r \in Requests : /\ req'[r].op = req[r].op
                         /\ req'[r].chat = req[r].chat
                         /\ req'[r].cp = req[r].cp
    BY NotedFacts DEF Checkpoint, ForgetInv, TypeInv, TypeOK
<1>5. \A r \in Requests : RequestForgets(r)'
    BY <1>4 DEF ForgetInv, RequestForgets
<1>6. QED
    BY <1>3, <1>5

\* A chat is forgotten initially: nothing was deleted.
LEMMA InitForgetInv == Init => ForgetInv
<1> SUFFICES ASSUME Init
             PROVE  ForgetInv
    OBVIOUS
<1>1. TypeInv
    BY InitTypeInv
<1>2. \A c \in ChatIds : Forgets(c)
    BY CleanFacts DEF Init, Forgets, NoRun
<1>3. \A r \in Requests : RequestForgets(r)
    BY CleanFacts DEF Init, RequestForgets, Free
<1>4. QED
    BY <1>1, <1>2, <1>3 DEF ForgetInv

\* A run begins with what is shown, and adds a turn that was not deleted.
LEMMA RunsForget == ForgetInv /\ Runs => ForgetInv'
<1> SUFFICES ASSUME ForgetInv, NEW c \in ChatIds,
                    \/ RunStarts(c) \/ ChildSteps(c) \/ RunEnds(c)
                    \/ \E changed \in SUBSET Channels : RunSteps(c, changed)
             PROVE  ForgetInv'
    BY DEF Runs
<1>1. TypeInv'
    BY RunsKeepType DEF ForgetInv, Runs
<1>2. /\ run[c] \in RunStates /\ run[c].values \in Contents /\ run[c].kept \in SUBSET Channels
      /\ turn \in Nat /\ Forgets(c) /\ TypeInv
    BY ChatsAssumption DEF ForgetInv, TypeInv, TypeOK, RunStates
<1>3. CASE RunStarts(c)
    <2> DEFINE read == [ch \in Channels |-> Value(Newest(c), ch)]
               next == [on |-> TRUE, turn |-> turn + 1, values |-> read, kept |-> Newest(c).kept]
    <2>1. Newest(c) \in Checkpoints /\ Clean(Newest(c), deleted[c])
        BY <1>2, NewestFacts, ConstantFacts, CleanFacts DEF TypeInv, TypeOK, Forgets
    <2>2. read \in Contents /\ Newest(c).kept \in SUBSET Channels
        BY <2>1, ValueFacts DEF Contents, Checkpoints
    <2>3. \A ch \in Channels : read[ch] \cap deleted[c] = {}
        BY <2>1 DEF Clean
    <2>4. Checkpoint(c, read, Newest(c).kept) /\ deleted' = deleted /\ turn' = turn + 1
        BY <1>3 DEF RunStarts
    <2>5. /\ \A x \in ChatIds : \A cp \in own'[x] : Clean(cp, deleted[x])
          /\ \A r \in Requests : RequestForgets(r)'
        BY <2>2, <2>3, <2>4, CheckpointForgets
    <2>6. run' = [run EXCEPT ![c] = next]
        BY <1>3 DEF RunStarts
    <2>7. ASSUME NEW x \in ChatIds
          PROVE  Forgets(x)'
        <3>1. Forgets(x) /\ deleted'[x] \subseteq 1..turn'
            BY <1>2, <2>4 DEF ForgetInv, Forgets
        <3>2. CASE x = c
            <4>1. run'[x] = next
                BY <2>6, <3>2 DEF ForgetInv, TypeInv, TypeOK
            <4>2. turn + 1 \notin deleted[c]
                BY <1>2 DEF Forgets
            <4>3. QED
                BY <2>3, <2>4, <2>5, <3>1, <3>2, <4>1, <4>2 DEF Forgets
        <3>3. CASE x # c
            <4>1. run'[x] = run[x]
                BY <2>6, <3>3 DEF ForgetInv, TypeInv, TypeOK
            <4>2. QED
                BY <2>4, <2>5, <3>1, <4>1 DEF Forgets
        <3>4. QED
            BY <3>2, <3>3
    <2>8. QED
        BY <1>1, <2>5, <2>7 DEF ForgetInv
<1>4. ASSUME NEW changed \in SUBSET Channels, RunSteps(c, changed)
      PROVE  ForgetInv'
    <2> DEFINE new == IF "messages" \in changed THEN {run[c].turn} ELSE {}
               messages == run[c].values["messages"] \cup new
               history == run[c].values["messages_history"] \cup messages
               values == [run[c].values EXCEPT
                             !["messages"] = messages,
                             !["messages_history"] =
                                 IF "messages_history" \in changed THEN history ELSE @]
               kept == run[c].kept \cup changed
               next == [run[c] EXCEPT !.values = values, !.kept = kept]
    <2>1. "messages" \in Channels /\ "messages_history" \in Channels /\ run[c].on
        BY <1>4 DEF Channels, RunSteps
    <2>2. messages \cap deleted[c] = {} /\ history \cap deleted[c] = {}
        BY <1>2, <2>1 DEF Forgets
    <2>3. \A ch \in Channels : values[ch] \cap deleted[c] = {}
        BY <1>2, <2>2 DEF Forgets, Contents
    <2>4. run[c].turn \in Turns
        BY <1>2, <2>1, ChatsAssumption DEF TypeInv, TypeOK, RunKnows, Turns
    <2>5. values \in Contents /\ kept \in SUBSET Channels
        BY <1>2, <2>1, <2>4 DEF Contents
    <2>6. Checkpoint(c, values, kept) /\ deleted' = deleted /\ turn' = turn
        BY <1>4 DEF RunSteps
    <2>7. /\ \A x \in ChatIds : \A cp \in own'[x] : Clean(cp, deleted[x])
          /\ \A r \in Requests : RequestForgets(r)'
        BY <2>3, <2>5, <2>6, CheckpointForgets
    <2>8. run' = [run EXCEPT ![c] = next]
        BY <1>2, <1>4 DEF RunSteps, TypeInv, TypeOK
    <2>9. ASSUME NEW x \in ChatIds
          PROVE  Forgets(x)'
        <3>1. Forgets(x) /\ deleted'[x] \subseteq 1..turn'
            BY <2>6 DEF ForgetInv, Forgets
        <3>2. CASE x = c
            <4>1. run'[x] = next
                BY <2>8, <3>2 DEF ForgetInv, TypeInv, TypeOK
            <4>2. next.values = values /\ next.on = run[c].on /\ next.turn = run[c].turn
                BY <1>2 DEF RunStates
            <4>3. run[c].turn \notin deleted[c]
                BY <1>2, <2>1 DEF Forgets
            <4>4. next.on
                BY <2>1, <4>2
            <4>5. QED
                BY <2>3, <2>6, <2>7, <3>1, <3>2, <4>1, <4>2, <4>3, <4>4 DEF Forgets
        <3>3. CASE x # c
            <4>1. run'[x] = run[x]
                BY <2>8, <3>3 DEF ForgetInv, TypeInv, TypeOK
            <4>2. QED
                BY <2>6, <2>7, <3>1, <4>1 DEF Forgets
        <3>4. QED
            BY <3>2, <3>3
    <2>10. QED
        BY <1>1, <2>7, <2>9 DEF ForgetInv
<1>5. CASE ChildSteps(c)
    <2>1. \A r \in Requests : /\ req'[r].op = req[r].op
                             /\ req'[r].chat = req[r].chat
                             /\ req'[r].cp = req[r].cp
        BY <1>5, NotedFacts DEF ChildSteps, ForgetInv, TypeInv, TypeOK
    <2>2. \A r \in Requests : RequestForgets(r)'
        BY <1>5, <2>1 DEF ChildSteps, ForgetInv, RequestForgets
    <2>3. \A x \in ChatIds : Forgets(x)'
        BY <1>5 DEF ChildSteps, ForgetInv, Forgets
    <2>4. QED
        BY <1>1, <2>2, <2>3 DEF ForgetInv
<1>6. CASE RunEnds(c)
    <2>1. \A r \in Requests : RequestForgets(r)'
        BY <1>6 DEF RunEnds, ForgetInv, RequestForgets
    <2>2. ASSUME NEW x \in ChatIds
          PROVE  Forgets(x)'
        <3>1. run'[x] = IF x = c THEN NoRun ELSE run[x]
            BY <1>6 DEF RunEnds, ForgetInv, TypeInv, TypeOK
        <3>2. Forgets(x) /\ UNCHANGED <<own, turn, deleted>>
            BY <1>6 DEF ForgetInv, RunEnds
        <3>3. ~NoRun.on
            BY DEF NoRun
        <3>4. QED
            BY <3>1, <3>2, <3>3, CleanFacts DEF Forgets
    <2>3. QED
        BY <1>1, <2>1, <2>2 DEF ForgetInv
<1>7. QED
    BY <1>3, <1>4, <1>5, <1>6

\* A request changed on its own forgets, if what it has read is clean.
LEMMA RequestStepForgets ==
    ASSUME ForgetInv, TypeInv', NEW r \in Requests, NEW state \in RequestStates,
           req' = [req EXCEPT ![r] = state], UNCHANGED <<own, turn, run, deleted>>,
           state.chat \in ChatIds => Clean(state.cp, deleted[state.chat]),
           state.op = "delete_all" => state.chat = NoChat
    PROVE  ForgetInv'
<1>1. \A c \in ChatIds : Forgets(c)'
    BY DEF ForgetInv, Forgets
<1>2. \A x \in Requests : req'[x] = IF x = r THEN state ELSE req[x]
    BY DEF ForgetInv, TypeInv, TypeOK
<1>3. \A x \in Requests : RequestForgets(x)'
    BY <1>2 DEF ForgetInv, RequestForgets
<1>4. QED
    BY <1>1, <1>3 DEF ForgetInv

\* Deleting a thread leaves nothing to remember, in it or with who has read it; with no
\* run at work, all turns until now are gone.
LEMMA DeleteOwnForgets ==
    ASSUME ForgetInv, TypeInv', NEW c \in ChatIds, NEW r \in Requests,
           NEW next \in RequestStates, DeleteOwn(c, r, next), turn' = turn,
           next.chat = NoChat
    PROVE  ForgetInv'
<1>1. /\ own' = [own EXCEPT ![c] = {}]
      /\ run' = [run EXCEPT ![c].kept = {}]
      /\ deleted' = IF run[c].on THEN deleted ELSE [deleted EXCEPT ![c] = 1..turn]
    BY DEF DeleteOwn
<1>2. ASSUME NEW x \in ChatIds
      PROVE  Forgets(x)'
    <2>1. Forgets(x) /\ run[x] \in RunStates
        BY DEF ForgetInv, TypeInv, TypeOK
    <2>2. CASE x # c
        <3>1. own'[x] = own[x] /\ run'[x] = run[x] /\ deleted'[x] = deleted[x]
            BY <1>1, <2>2 DEF ForgetInv, TypeInv, TypeOK
        <3>2. QED
            BY <2>1, <3>1 DEF Forgets
    <2>3. CASE x = c /\ run[c].on
        <3>1. /\ own'[x] = {} /\ deleted'[x] = deleted[x]
              /\ run'[x] = [run[x] EXCEPT !.kept = {}]
            BY <1>1, <2>3 DEF ForgetInv, TypeInv, TypeOK
        <3>2. run'[x].on = run[x].on /\ run'[x].turn = run[x].turn /\ run'[x].values = run[x].values
            BY <2>1, <3>1 DEF RunStates
        <3>3. run'[x].on
            BY <2>3, <3>2
        <3>4. QED
            BY <2>1, <2>3, <3>1, <3>2, <3>3 DEF Forgets
    <2>4. CASE x = c /\ ~run[c].on
        <3>1. own'[x] = {} /\ deleted'[x] = 1..turn /\ run'[x] = [NoRun EXCEPT !.kept = {}]
            BY <1>1, <2>1, <2>4 DEF ForgetInv, TypeInv, TypeOK, Forgets
        <3>2. run'[x] = NoRun /\ ~NoRun.on
            BY <3>1 DEF NoRun
        <3>3. QED
            BY <3>1, <3>2, CleanFacts DEF Forgets
    <2>5. QED
        BY <2>2, <2>3, <2>4
<1>3. ASSUME NEW x \in Requests
      PROVE  RequestForgets(x)'
    <2>1. req[x] \in RequestStates /\ RequestForgets(x) /\ req[x].cp \in Checkpoints
        BY DEF ForgetInv, TypeInv, TypeOK, RequestStates
    <2>2. CASE x = r
        BY <2>2, ChatsAssumption DEF DeleteOwn, RequestForgets
    <2>3. CASE x # r /\ req[x].chat = c
        <3>1. /\ req'[x].cp = [req[x].cp EXCEPT !.kept = {}]
              /\ req'[x].op = req[x].op
              /\ req'[x].chat = req[x].chat
            BY <2>1, <2>3 DEF DeleteOwn, RequestStates
        <3>2. QED
            BY <2>1, <3>1, StrippedIsClean DEF RequestForgets
    <2>4. CASE x # r /\ req[x].chat # c
        <3>1. req'[x] = req[x]
            BY <2>4 DEF DeleteOwn
        <3>2. req[x].chat \in ChatIds => deleted'[req[x].chat] = deleted[req[x].chat]
            BY <1>1, <2>4 DEF ForgetInv, TypeInv, TypeOK
        <3>3. QED
            BY <2>1, <3>1, <3>2 DEF RequestForgets
    <2>5. QED
        BY <2>2, <2>3, <2>4
<1>4. QED
    BY <1>2, <1>3 DEF ForgetInv

\* Each step of a request leaves what was deleted forgotten: a rename writes what it
\* has read, of which nothing deleted meanwhile is left.
LEMMA RequestsForget ==
    ASSUME ForgetInv, NEW r \in Requests, Request(r)
    PROVE  ForgetInv'
<1>1. TypeInv /\ TypeInv' /\ req[r] \in RequestStates /\ RequestForgets(r) /\ RequestKnows(r)
    BY RequestsKeepType DEF ForgetInv, TypeInv, TypeOK
<1>2. Free \in RequestStates /\ Free.chat = NoChat /\ Free.op = "none"
    BY ConstantFacts DEF Free
<1>3. ASSUME Respond(r)
      PROVE  ForgetInv'
    <2>1. req' = [req EXCEPT ![r] = Free] /\ UNCHANGED <<own, turn, run, deleted>>
        BY <1>3 DEF Respond
    <2>2. QED
        BY <1>1, <1>2, <2>1, ChatsAssumption, RequestStepForgets
<1>4. ASSUME NEW op \in {"put", "delete", "delete_all"}, NEW c \in ChatIds \cup {NoChat},
             NEW name \in Names \cup {NoName}, op = "delete_all" => c = NoChat,
             Begin(r, op, c, name)
      PROVE  ForgetInv'
    <2> DEFINE state == [Free EXCEPT !.op = op, !.chat = c, !.name = name]
    <2>1. state \in RequestStates /\ state.op = op /\ state.chat = c /\ state.cp = Free.cp
        BY <1>2 DEF RequestStates, Free
    <2>2. req' = [req EXCEPT ![r] = state] /\ UNCHANGED <<own, turn, run, deleted>>
        BY <1>4 DEF Begin
    <2>3. Clean(state.cp, deleted[c])
        BY <2>1, CleanFacts
    <2>4. QED
        BY <1>1, <1>4, <2>1, <2>2, <2>3, RequestStepForgets
<1>5. ASSUME NEW at \in {"read", "delete"}, Goto(r, at)
      PROVE  ForgetInv'
    <2> DEFINE state == [req[r] EXCEPT !.at = at]
    <2>1. /\ state \in RequestStates
          /\ state.op = req[r].op
          /\ state.chat = req[r].chat
          /\ state.cp = req[r].cp
        BY <1>1, <1>5 DEF RequestStates
    <2>2. req' = [req EXCEPT ![r] = state] /\ UNCHANGED <<own, turn, run, deleted>>
        BY <1>5 DEF Goto
    <2>3. QED
        BY <1>1, <2>1, <2>2, RequestStepForgets DEF RequestForgets
<1>6. CASE \/ \E c \in ChatIds, name \in Names \cup {NoName} : Begin(r, "put", c, name)
           \/ \E c \in ChatIds : Begin(r, "delete", c, NoName)
           \/ Begin(r, "delete_all", NoChat, NoName)
    BY <1>4, <1>6
<1>7. CASE PutFetches(r) \/ DeleteReads(r) \/ DeleteAllEnds(r) \/ RequestFails(r)
    BY <1>3, <1>5, <1>7 DEF PutFetches, DeleteReads, DeleteAllEnds, RequestFails
<1>8. CASE PutReads(r)
    <2> DEFINE c == req[r].chat
               state == [req[r] EXCEPT !.cp = Newest(c), !.at = "write"]
    <2>1. c \in ChatIds /\ req[r].op = "put"
        BY <1>1, <1>8 DEF PutReads, At, RequestKnows
    <2>2. CASE own[c] = {}
        BY <1>3, <1>8, <2>2 DEF PutReads
    <2>3. CASE own[c] # {}
        <3>1. Newest(c) \in own[c]
            BY <1>1, <2>1, <2>3, NewestFacts DEF TypeInv, HasNewest
        <3>2. Newest(c) \in Checkpoints /\ Clean(Newest(c), deleted[c])
            BY <1>1, <2>1, <3>1 DEF TypeInv, TypeOK, ForgetInv, Forgets
        <3>3. /\ state \in RequestStates
              /\ state.chat = c
              /\ state.cp = Newest(c)
              /\ state.op = "put"
            BY <1>1, <2>1, <3>2 DEF RequestStates
        <3>4. req' = [req EXCEPT ![r] = state] /\ UNCHANGED <<own, turn, run, deleted>>
            BY <1>8, <2>3 DEF PutReads
        <3>5. QED
            BY <1>1, <3>2, <3>3, <3>4, RequestStepForgets
    <2>4. QED
        BY <2>2, <2>3
<1>9. CASE PutWrites(r)
    <2> DEFINE c == req[r].chat
    <2>1. c \in ChatIds /\ Clean(req[r].cp, deleted[c]) /\ req[r].cp \in Checkpoints
        BY <1>1, <1>9 DEF PutWrites, At, RequestKnows, RequestForgets, RequestStates
    <2>2. Renamed(r).values = req[r].cp.values /\ Renamed(r).kept = req[r].cp.kept
        BY <2>1 DEF Renamed, Checkpoints
    <2>3. Clean(Renamed(r), deleted[c])
        BY <2>1, <2>2 DEF Clean, Value
    <2>4. /\ own' = [own EXCEPT ![c] = Put(own[c], Renamed(r))]
          /\ req' = [req EXCEPT ![r] = Free]
          /\ UNCHANGED <<turn, run, deleted>>
        BY <1>9 DEF PutWrites
    <2>5. ASSUME NEW x \in ChatIds
          PROVE  Forgets(x)'
        <3>1. Forgets(x)
            BY DEF ForgetInv
        <3>2. \A cp \in own'[x] : Clean(cp, deleted[x])
            <4>1. CASE x = c
                <5>1. own'[x] = Put(own[c], Renamed(r))
                    BY <1>1, <2>4, <4>1 DEF TypeInv, TypeOK
                <5>2. QED
                    BY <2>3, <3>1, <4>1, <5>1 DEF Put, Forgets
            <4>2. CASE x # c
                <5>1. own'[x] = own[x]
                    BY <1>1, <2>4, <4>2 DEF TypeInv, TypeOK
                <5>2. QED
                    BY <3>1, <5>1 DEF Forgets
            <4>3. QED
                BY <4>1, <4>2
        <3>3. QED
            BY <2>4, <3>1, <3>2 DEF Forgets
    <2>6. ASSUME NEW x \in Requests
          PROVE  RequestForgets(x)'
        <3>1. req'[x] = IF x = r THEN Free ELSE req[x]
            BY <1>1, <2>4 DEF TypeInv, TypeOK
        <3>2. QED
            BY <1>2, <2>4, <3>1, ChatsAssumption DEF ForgetInv, RequestForgets
    <2>7. QED
        BY <1>1, <2>5, <2>6 DEF ForgetInv
<1>10. CASE DeleteDeletes(r)
    <2>1. req[r].chat \in ChatIds
        BY <1>1, <1>10 DEF DeleteDeletes, At, RequestKnows
    <2>2. DeleteOwn(req[r].chat, r, Free) /\ turn' = turn
        BY <1>10 DEF DeleteDeletes
    <2>3. QED
        BY <1>1, <1>2, <2>1, <2>2, DeleteOwnForgets
<1>11. CASE DeleteAllLists(r)
    <2> DEFINE state == [req[r] EXCEPT !.todo = Threads, !.at = "delete"]
    <2>1. Threads \in SUBSET (ChatIds \X {"own", "child"})
        BY DEF Threads
    <2>2. /\ state \in RequestStates
          /\ state.op = req[r].op
          /\ state.chat = req[r].chat
          /\ state.cp = req[r].cp
        BY <1>1, <2>1 DEF RequestStates
    <2>3. req' = [req EXCEPT ![r] = state] /\ UNCHANGED <<own, turn, run, deleted>>
        BY <1>11 DEF DeleteAllLists
    <2>4. QED
        BY <1>1, <2>2, <2>3, RequestStepForgets DEF RequestForgets
<1>12. ASSUME NEW t \in req[r].todo, DeleteAllDeletes(r, t)
       PROVE  ForgetInv'
    <2> DEFINE rest == [req[r] EXCEPT !.todo = @ \ {t}]
    <2>1. rest \in RequestStates /\ rest.op = "delete_all" /\ rest.cp = req[r].cp
        BY <1>1, <1>12 DEF RequestStates, DeleteAllDeletes, At
    <2>2. rest.chat = NoChat /\ t[1] \in ChatIds
        BY <1>1, <1>12 DEF RequestStates, RequestForgets, DeleteAllDeletes, At
    <2>3. CASE t[2] = "own"
        <3>1. DeleteOwn(t[1], r, rest) /\ turn' = turn
            BY <1>12, <2>3 DEF DeleteAllDeletes
        <3>2. QED
            BY <1>1, <2>1, <2>2, <3>1, DeleteOwnForgets
    <2>4. CASE t[2] # "own"
        <3>1. req' = [req EXCEPT ![r] = rest] /\ UNCHANGED <<own, turn, run, deleted>>
            BY <1>12, <2>4 DEF DeleteAllDeletes
        <3>2. QED
            BY <1>1, <2>1, <2>2, <3>1, ChatsAssumption, RequestStepForgets
    <2>5. QED
        BY <2>3, <2>4
<1>13. QED
    BY <1>6, <1>7, <1>8, <1>9, <1>10, <1>11, <1>12 DEF Request

\* A restart forgets more: the runs and requests at work.
LEMMA RestartForgets == ForgetInv /\ Restart => ForgetInv'
<1> SUFFICES ASSUME ForgetInv, Restart
             PROVE  ForgetInv'
    OBVIOUS
<1>1. TypeInv'
    BY RestartKeepsType DEF ForgetInv
<1>2. ASSUME NEW x \in ChatIds
      PROVE  Forgets(x)'
    <2>1. /\ own'[x] = own[x] \/ own'[x] = {}
          /\ run'[x] = NoRun
          /\ UNCHANGED <<turn, deleted>>
        BY DEF Restart
    <2>2. ~NoRun.on /\ Forgets(x)
        BY DEF NoRun, ForgetInv
    <2>3. QED
        BY <2>1, <2>2, CleanFacts DEF Forgets
<1>3. \A r \in Requests : RequestForgets(r)'
    BY ChatsAssumption DEF Restart, RequestForgets, Free
<1>4. QED
    BY <1>1, <1>2, <1>3 DEF ForgetInv

\* Every step leaves what was deleted forgotten.
LEMMA NextForgets == ForgetInv /\ [Next]_vars => ForgetInv'
<1>1. ForgetInv /\ UNCHANGED vars => ForgetInv'
    <2> SUFFICES ASSUME ForgetInv, UNCHANGED vars
                 PROVE  ForgetInv'
        OBVIOUS
    <2>1. TypeInv'
        BY NextTypeInv DEF ForgetInv
    <2>2. QED
        BY <2>1 DEF ForgetInv, Forgets, RequestForgets, vars
<1>2. QED
    BY <1>1, RunsForget, RequestsForget, RestartForgets DEF Next

\* What a chat's own thread held when it was deleted, with no run at work on it, is
\* not shown again, nor read by a run from that thread, in every behaviour: not after a
\* rename that read it before, as a rename stores no values and deletion takes those it
\* refers to.  It says nothing of the children's threads, which keep what they hold.
THEOREM DeletedStaysHidden == Spec => []DeletedIsNotShown
<1>1. ForgetInv => DeletedIsNotShown
    BY DEF ForgetInv, Forgets, Clean, DeletedIsNotShown
<1>2. QED
    BY <1>1, InitForgetInv, NextForgets, PTL DEF Spec

(***************************************************************************)
(* What is shown only grows.                                               *)
(***************************************************************************)
\* The messages that a checkpoint, or the state of a run, shows.
Shown(cp) == Value(cp, "messages_history")

\* A run has in memory what its chat shows.
RunShows(c) == run[c].on => Shown(Newest(c)) \subseteq Shown(run[c])

\* What a rename puts back shows what it replaces; when the checkpoint is gone the
\* rename has nothing left to show, and comes after nothing that is shown.
RenameShows(cp, cps) ==
    /\ \A x \in cps : x.id = cp.id => Shown(x) = Shown(cp)
    /\ (\A x \in cps : x.id # cp.id) => Shown(cp) = {}
    /\ (\A x \in cps : x.id < cp.id) => \A x \in cps : Shown(x) = {}

RequestShows(r) == At(r, "put", "write") => RenameShows(req[r].cp, own[req[r].chat])

GrowInv ==
    /\ TypeInv
    /\ \A c \in ChatIds : RunShows(c)
    /\ \A r \in Requests : RequestShows(r)

\* What a step may do to what a chat shows.
Grows == \A c \in ChatIds : FetchMessages(c) \subseteq FetchMessages(c)' \/ own'[c] = {}

\* The checkpoint whose id is the greatest is the newest one.
LEMMA MaxIsNewest ==
    ASSUME NEW cps \in SUBSET Checkpoints, NEW n \in Nat, Ordered(cps, n),
           NEW cp \in cps, \A other \in cps : other.id <= cp.id
    PROVE  NewestOf(cps) = {cp}
<1>1. cp \in NewestOf(cps)
    BY DEF NewestOf
<1>2. ASSUME NEW x \in NewestOf(cps)
      PROVE  x = cp
    <2>1. x \in cps /\ cp.id <= x.id /\ x.id <= cp.id
        BY <1>2 DEF NewestOf
    <2>2. x.id \in Nat /\ cp.id \in Nat
        BY <2>1 DEF Ordered
    <2>3. x.id = cp.id
        BY <2>1, <2>2
    <2>4. QED
        BY <2>1, <2>3 DEF Ordered
<1>3. QED
    BY <1>1, <1>2

\* A thread that is the same has the same newest checkpoint.
LEMMA SameNewest ==
    ASSUME NEW c \in ChatIds, own'[c] = own[c]
    PROVE  Newest(c)' = Newest(c) /\ FetchMessages(c)' = FetchMessages(c)
BY DEF Newest, NewestOf, FetchMessages

\* A thread with one newest checkpoint shows that one.
LEMMA ShowsNewest ==
    ASSUME NEW c \in ChatIds, NEW cp, NewestOf(own[c]) = {cp}
    PROVE  Newest(c) = cp /\ FetchMessages(c) = Shown(cp)
<1>1. cp \in own[c]
    BY DEF NewestOf
<1>2. Newest(c) = cp
    BY <1>1 DEF Newest
<1>3. QED
    BY <1>2 DEF FetchMessages, Shown

\* So does one that a step leaves.
LEMMA ShowsNewestNext ==
    ASSUME NEW c \in ChatIds, NEW cp, NewestOf(own'[c]) = {cp}
    PROVE  Newest(c)' = cp /\ FetchMessages(c)' = Shown(cp)
<1>1. cp \in own'[c]
    BY DEF NewestOf
<1>2. Newest(c)' = cp
    BY <1>1 DEF Newest, NewestOf
<1>3. QED
    BY <1>2 DEF FetchMessages, Shown

\* A run's checkpoint is what its chat shows, and comes after what a rename has read.
LEMMA CheckpointShows ==
    ASSUME GrowInv, NEW c \in ChatIds, NEW values \in Contents, NEW kept \in SUBSET Channels,
           Checkpoint(c, values, kept)
    PROVE  /\ FetchMessages(c)' = IF "messages_history" \in kept
                                  THEN values["messages_history"] ELSE {}
           /\ FetchMessages(c)' = Shown(Newest(c)')
           /\ \A x \in ChatIds : x # c => own'[x] = own[x]
           /\ \A r \in Requests : RequestShows(r)'
<1> DEFINE cp == [id |-> clock[c] + 1, values |-> values, kept |-> kept, name |-> NoName]
<1>1. /\ TypeInv
      /\ clock[c] \in Nat /\ clock[c] + 1 \in 0..MaxCheckpoints
      /\ Ordered(own[c], clock[c]) /\ own[c] \in SUBSET Checkpoints
    BY ChatsAssumption DEF GrowInv, TypeInv, TypeOK, Checkpoint
<1>2. cp \in Checkpoints /\ cp.id = clock[c] + 1
    BY <1>1 DEF Checkpoints
<1>3. own' = [own EXCEPT ![c] = @ \cup {cp}]
    BY DEF Checkpoint
<1>4. own'[c] = own[c] \cup {cp} /\ \A x \in ChatIds : x # c => own'[x] = own[x]
    BY <1>1, <1>3 DEF TypeInv, TypeOK
<1>5. NewestOf(own'[c]) = {cp}
    <2>1. Ordered(own[c] \cup {cp}, clock[c] + 1)
        BY <1>1, <1>2, AppendFacts
    <2>2. \A other \in own[c] \cup {cp} : other.id <= cp.id
        BY <1>1, <1>2 DEF Ordered
    <2>3. own[c] \cup {cp} \in SUBSET Checkpoints /\ clock[c] + 1 \in Nat
        BY <1>1, <1>2
    <2>4. NewestOf(own[c] \cup {cp}) = {cp}
        BY <2>1, <2>2, <2>3, MaxIsNewest
    <2>5. QED
        BY <1>4, <2>4
<1>6. FetchMessages(c)' = Shown(cp) /\ Newest(c)' = cp
    BY <1>5, ShowsNewestNext
<1>7. Shown(cp) = IF "messages_history" \in kept THEN values["messages_history"] ELSE {}
    BY DEF Shown, Value
<1>8. ASSUME NEW r \in Requests, At(r, "put", "write")'
      PROVE  RenameShows(req'[r].cp, own'[req'[r].chat])
    <2> DEFINE rename == req[r].cp
    <2>1. /\ req'[r].op = req[r].op
          /\ req'[r].at = req[r].at
          /\ req'[r].chat = req[r].chat
          /\ req'[r].cp = req[r].cp
        BY <1>1, NotedFacts DEF Checkpoint, TypeInv, TypeOK
    <2>2. /\ At(r, "put", "write")
          /\ req[r].chat \in ChatIds
          /\ rename.id \in 1..clock[req[r].chat]
        BY <1>1, <1>8, <2>1 DEF At, TypeInv, RequestKnows
    <2>3. RenameShows(rename, own[req[r].chat])
        BY <2>2 DEF GrowInv, RequestShows
    <2>4. CASE req[r].chat # c
        BY <1>4, <2>1, <2>2, <2>3, <2>4
    <2>5. CASE req[r].chat = c
        <3>1. cp.id # rename.id /\ ~(cp.id < rename.id)
            BY <1>1, <1>2, <2>2, <2>5
        <3>2. RenameShows(rename, own[c] \cup {cp})
            BY <2>3, <2>5, <3>1 DEF RenameShows
        <3>3. QED
            BY <1>4, <2>1, <2>5, <3>2
    <2>6. QED
        BY <2>4, <2>5
<1>9. \A r \in Requests : RequestShows(r)'
    BY <1>8 DEF RequestShows
<1>10. QED
    BY <1>4, <1>6, <1>7, <1>9

\* Nothing is shown initially, and no run or rename is at work.
LEMMA InitGrowInv == Init => GrowInv
<1> SUFFICES ASSUME Init
             PROVE  GrowInv
    OBVIOUS
<1>1. TypeInv
    BY InitTypeInv
<1>2. \A c \in ChatIds : RunShows(c)
    BY DEF Init, RunShows, NoRun
<1>3. \A r \in Requests : RequestShows(r)
    BY DEF Init, RequestShows, At, Free
<1>4. QED
    BY <1>1, <1>2, <1>3 DEF GrowInv

\* A run begins with what is shown, and its steps add to it.
LEMMA RunsGrow == GrowInv /\ Runs => GrowInv' /\ Grows
<1> SUFFICES ASSUME GrowInv, NEW c \in ChatIds,
                    \/ RunStarts(c) \/ ChildSteps(c) \/ RunEnds(c)
                    \/ \E changed \in SUBSET Channels : RunSteps(c, changed)
             PROVE  GrowInv' /\ Grows
    BY DEF Runs
<1>1. TypeInv'
    BY RunsKeepType DEF GrowInv, Runs
<1>2. /\ run[c] \in RunStates /\ run[c].values \in Contents /\ run[c].kept \in SUBSET Channels
      /\ run \in [ChatIds -> RunStates] /\ TypeInv /\ RunShows(c)
    BY DEF GrowInv, TypeInv, TypeOK, RunStates
<1>3. "messages" \in Channels /\ "messages_history" \in Channels
    BY DEF Channels
<1>4. FetchMessages(c) = Shown(Newest(c))
    BY DEF FetchMessages, Shown
<1>5. CASE RunStarts(c)
    <2> DEFINE read == [ch \in Channels |-> Value(Newest(c), ch)]
               next == [on |-> TRUE, turn |-> turn + 1, values |-> read, kept |-> Newest(c).kept]
    <2>1. Newest(c) \in Checkpoints
        BY <1>2, NewestFacts, ConstantFacts DEF TypeInv, TypeOK
    <2>2. read \in Contents /\ Newest(c).kept \in SUBSET Channels
        BY <2>1, ValueFacts DEF Contents, Checkpoints
    <2>3. Checkpoint(c, read, Newest(c).kept)
        BY <1>5 DEF RunStarts
    <2>4. /\ FetchMessages(c)' = IF "messages_history" \in Newest(c).kept
                                 THEN read["messages_history"] ELSE {}
          /\ FetchMessages(c)' = Shown(Newest(c)')
          /\ \A x \in ChatIds : x # c => own'[x] = own[x]
          /\ \A r \in Requests : RequestShows(r)'
        BY <2>2, <2>3, CheckpointShows
    <2>5. FetchMessages(c)' = FetchMessages(c)
        BY <1>3, <2>4 DEF FetchMessages, Value
    <2>6. run' = [run EXCEPT ![c] = next]
        BY <1>5 DEF RunStarts
    <2>7. run'[c] = next /\ \A x \in ChatIds : x # c => run'[x] = run[x]
        BY <1>2, <2>6
    <2>8. Shown(run'[c]) = FetchMessages(c)'
        BY <2>4, <2>7 DEF Shown, Value
    <2>9. \A x \in ChatIds : RunShows(x)'
        BY <2>4, <2>7, <2>8, SameNewest DEF GrowInv, RunShows
    <2>10. Grows
        BY <2>4, <2>5, SameNewest DEF Grows
    <2>11. QED
        BY <1>1, <2>4, <2>9, <2>10 DEF GrowInv
<1>6. ASSUME NEW changed \in SUBSET Channels, RunSteps(c, changed)
      PROVE  GrowInv' /\ Grows
    <2> DEFINE new == IF "messages" \in changed THEN {run[c].turn} ELSE {}
               messages == run[c].values["messages"] \cup new
               history == run[c].values["messages_history"] \cup messages
               values == [run[c].values EXCEPT
                             !["messages"] = messages,
                             !["messages_history"] =
                                 IF "messages_history" \in changed THEN history ELSE @]
               kept == run[c].kept \cup changed
               next == [run[c] EXCEPT !.values = values, !.kept = kept]
    <2>1. run[c].on /\ run[c].turn \in Turns
        <3>1. run[c].on
            BY <1>6 DEF RunSteps
        <3>2. run[c].turn \in Turns
            BY <1>2, <3>1, ChatsAssumption DEF TypeInv, TypeOK, RunKnows, Turns
        <3>3. QED
            BY <3>1, <3>2
    <2>2. values \in Contents /\ kept \in SUBSET Channels
        BY <1>2, <1>3, <2>1 DEF Contents
    <2>3. Checkpoint(c, values, kept)
        BY <1>6 DEF RunSteps
    <2>4. /\ FetchMessages(c)' = IF "messages_history" \in kept
                                 THEN values["messages_history"] ELSE {}
          /\ FetchMessages(c)' = Shown(Newest(c)')
          /\ \A x \in ChatIds : x # c => own'[x] = own[x]
          /\ \A r \in Requests : RequestShows(r)'
        BY <2>2, <2>3, CheckpointShows
    <2>5. run' = [run EXCEPT ![c] = next]
        BY <1>2, <1>6 DEF RunSteps
    <2>6. run'[c] = next /\ \A x \in ChatIds : x # c => run'[x] = run[x]
        BY <1>2, <2>5
    <2>7. next.values = values /\ next.kept = kept
        BY <1>2 DEF RunStates
    <2>8. Shown(run'[c]) = FetchMessages(c)'
        BY <2>4, <2>6, <2>7 DEF Shown, Value
    <2>9. values["messages_history"] =
              IF "messages_history" \in changed THEN history
              ELSE run[c].values["messages_history"]
        BY <1>2, <1>3 DEF Contents
    <2>10. Shown(run[c]) \subseteq FetchMessages(c)'
        BY <2>4, <2>9 DEF Shown, Value
    <2>11. FetchMessages(c) \subseteq FetchMessages(c)'
        BY <1>2, <1>4, <2>1, <2>10 DEF RunShows
    <2>12. \A x \in ChatIds : RunShows(x)'
        BY <2>4, <2>6, <2>8, SameNewest DEF GrowInv, RunShows
    <2>13. Grows
        BY <2>4, <2>11, SameNewest DEF Grows
    <2>14. QED
        BY <1>1, <2>4, <2>12, <2>13 DEF GrowInv
<1>7. CASE ChildSteps(c)
    <2>1. \A r \in Requests : /\ req'[r].op = req[r].op
                             /\ req'[r].at = req[r].at
                             /\ req'[r].chat = req[r].chat
                             /\ req'[r].cp = req[r].cp
        BY <1>7, NotedFacts DEF ChildSteps, GrowInv, TypeInv, TypeOK
    <2>2. own' = own /\ run' = run
        BY <1>7 DEF ChildSteps
    <2>3. \A r \in Requests : RequestShows(r)'
        BY <2>1, <2>2 DEF GrowInv, RequestShows, At
    <2>4. \A x \in ChatIds : RunShows(x)'
        BY <2>2, SameNewest DEF GrowInv, RunShows
    <2>5. Grows
        BY <2>2, SameNewest DEF Grows
    <2>6. QED
        BY <1>1, <2>3, <2>4, <2>5 DEF GrowInv
<1>8. CASE RunEnds(c)
    <2>1. own' = own /\ req' = req /\ run' = [run EXCEPT ![c] = NoRun]
        BY <1>8 DEF RunEnds
    <2>2. \A x \in ChatIds : run'[x] = run[x] \/ ~run'[x].on
        BY <1>2, <2>1 DEF NoRun
    <2>3. \A x \in ChatIds : RunShows(x)'
        BY <2>1, <2>2, SameNewest DEF GrowInv, RunShows
    <2>4. \A r \in Requests : RequestShows(r)'
        BY <2>1 DEF GrowInv, RequestShows, At
    <2>5. Grows
        BY <2>1, SameNewest DEF Grows
    <2>6. QED
        BY <1>1, <2>3, <2>4, <2>5 DEF GrowInv
<1>9. QED
    BY <1>5, <1>6, <1>7, <1>8

\* A request changed on its own shows the same.
LEMMA RequestStepGrows ==
    ASSUME GrowInv, TypeInv', NEW r \in Requests, UNCHANGED <<own, run>>,
           \A x \in Requests : x # r => req'[x] = req[x], RequestShows(r)'
    PROVE  GrowInv' /\ Grows
<1>1. \A x \in ChatIds : RunShows(x)'
    BY SameNewest DEF GrowInv, RunShows
<1>2. \A x \in Requests : x # r => RequestShows(x)'
    BY DEF GrowInv, RequestShows, At
<1>3. Grows
    BY SameNewest DEF Grows
<1>4. QED
    BY <1>1, <1>2, <1>3 DEF GrowInv

\* A deletion leaves nothing to show, and a rename that had read the thread nothing.
LEMMA DeleteOwnGrows ==
    ASSUME GrowInv, TypeInv', NEW c \in ChatIds, NEW r \in Requests,
           NEW next \in RequestStates, DeleteOwn(c, r, next), next.op # "put"
    PROVE  GrowInv' /\ Grows
<1>1. /\ own' = [own EXCEPT ![c] = {}]
      /\ run' = [run EXCEPT ![c].kept = {}]
      /\ own'[c] = {} /\ \A x \in ChatIds : x # c => own'[x] = own[x] /\ run'[x] = run[x]
    BY DEF DeleteOwn, GrowInv, TypeInv, TypeOK
<1>2. RunShows(c)'
    <2>1. NewestOf(own'[c]) = {}
        BY <1>1 DEF NewestOf
    <2>2. Newest(c)' = NoCheckpoint
        BY <2>1 DEF Newest, NewestOf
    <2>3. Shown(NoCheckpoint) = {}
        BY DEF Shown, Value, NoCheckpoint
    <2>4. QED
        BY <2>2, <2>3 DEF RunShows
<1>3. \A x \in ChatIds : RunShows(x)'
    BY <1>1, <1>2, SameNewest DEF GrowInv, RunShows
<1>4. ASSUME NEW x \in Requests, At(x, "put", "write")'
      PROVE  RenameShows(req'[x].cp, own'[req'[x].chat])
    <2>1. x # r
        BY <1>4 DEF DeleteOwn, At
    <2>2. req[x] \in RequestStates /\ req[x].cp \in Checkpoints /\ RequestKnows(x)
        BY DEF GrowInv, TypeInv, TypeOK, RequestStates
    <2>3. CASE req[x].chat = c
        <3>1. req'[x] = [req[x] EXCEPT !.cp.kept = {}]
            BY <2>1, <2>3 DEF DeleteOwn
        <3>2. req'[x].cp = [req[x].cp EXCEPT !.kept = {}] /\ req'[x].chat = c
            BY <2>2, <2>3, <3>1 DEF RequestStates
        <3>3. Shown(req'[x].cp) = {}
            BY <2>2, <3>2 DEF Shown, Value, Checkpoints
        <3>4. QED
            BY <1>1, <3>2, <3>3 DEF RenameShows
    <2>4. CASE req[x].chat # c
        <3>1. req'[x] = req[x]
            BY <2>1, <2>4 DEF DeleteOwn
        <3>2. At(x, "put", "write") /\ req[x].chat \in ChatIds
            BY <1>4, <2>2, <3>1 DEF At, RequestKnows
        <3>3. own'[req[x].chat] = own[req[x].chat]
            BY <1>1, <2>4, <3>2
        <3>4. RequestShows(x)
            BY DEF GrowInv
        <3>5. QED
            BY <3>1, <3>2, <3>3, <3>4 DEF RequestShows
    <2>5. QED
        BY <2>3, <2>4
<1>5. \A x \in Requests : RequestShows(x)'
    BY <1>4 DEF RequestShows
<1>6. Grows
    BY <1>1, SameNewest DEF Grows
<1>7. QED
    BY <1>3, <1>5, <1>6 DEF GrowInv

\* A checkpoint is put back by a rename as one that shows the same, so the others that
\* wait to be put back still are.
LEMMA PutKeepsRename ==
    ASSUME NEW cps \in SUBSET Checkpoints, NEW cp \in Checkpoints, NEW put \in Checkpoints,
           NEW rename \in Checkpoints, RenameShows(cp, cps), RenameShows(rename, cps),
           put.id = cp.id, Shown(put) = Shown(cp)
    PROVE  RenameShows(rename, Put(cps, put))
<1>1. \A x : x \in Put(cps, put) <=> x = put \/ (x \in cps /\ x.id # put.id)
    BY DEF Put
<1>2. \A x \in Put(cps, put) : x.id = rename.id => Shown(x) = Shown(rename)
    <2>1. CASE put.id = rename.id
        <3>1. Shown(put) = Shown(rename)
            BY <2>1 DEF RenameShows
        <3>2. QED
            BY <1>1, <2>1, <3>1
    <2>2. CASE put.id # rename.id
        BY <1>1, <2>2 DEF RenameShows
    <2>3. QED
        BY <2>1, <2>2
<1>3. ASSUME \A x \in Put(cps, put) : x.id # rename.id
      PROVE  Shown(rename) = {}
    <2>1. \A x \in cps : x.id # rename.id
        BY <1>1, <1>3
    <2>2. QED
        BY <2>1 DEF RenameShows
<1>4. ASSUME \A x \in Put(cps, put) : x.id < rename.id
      PROVE  \A x \in Put(cps, put) : Shown(x) = {}
    <2>1. \A x \in cps : x.id < rename.id
        BY <1>1, <1>4
    <2>2. \A x \in cps : Shown(x) = {}
        BY <2>1 DEF RenameShows
    <2>3. Shown(put) = {}
        BY <2>2 DEF RenameShows
    <2>4. QED
        BY <1>1, <2>2, <2>3
<1>5. QED
    BY <1>2, <1>3, <1>4 DEF RenameShows

\* Putting a renamed checkpoint back leaves a newest one that shows the same, unless
\* nothing was shown.
LEMMA PutShows ==
    ASSUME NEW cps \in SUBSET Checkpoints, NEW n \in Nat, Ordered(cps, n), HasNewest(cps),
           NEW cp \in Checkpoints, cp.id \in 1..n, RenameShows(cp, cps),
           NEW put \in Checkpoints, put.id = cp.id, Shown(put) = Shown(cp)
    PROVE  \E last \in Put(cps, put) :
               /\ NewestOf(Put(cps, put)) = {last}
               /\ \/ cps = {} /\ Shown(last) = {}
                  \/ \E old \in cps : NewestOf(cps) = {old} /\ Shown(last) = Shown(old)
<1>1. \A x : x \in Put(cps, put) <=> x = put \/ (x \in cps /\ x.id # put.id)
    BY DEF Put
<1>2. Put(cps, put) \in SUBSET Checkpoints /\ Ordered(Put(cps, put), n)
    BY PutFacts
<1>3. \A x \in Put(cps, put) : x.id \in Nat
    BY <1>2 DEF Ordered
<1>4. CASE cps = {}
    <2>1. put \in Put(cps, put) /\ \A x \in Put(cps, put) : x.id <= put.id
        BY <1>1, <1>3, <1>4
    <2>2. NewestOf(Put(cps, put)) = {put}
        BY <1>2, <2>1, MaxIsNewest
    <2>3. Shown(put) = {}
        BY <1>4 DEF RenameShows
    <2>4. QED
        BY <1>4, <2>1, <2>2, <2>3
<1>5. CASE cps # {}
    <2>1. PICK old \in cps : \A x \in cps : x.id <= old.id
        BY <1>5 DEF HasNewest, NewestOf
    <2>2. NewestOf(cps) = {old}
        BY <2>1, MaxIsNewest
    <2>3. \A x \in cps : x.id \in Nat
        BY DEF Ordered
    <2>4. put.id \in Nat /\ old.id \in Nat
        BY <2>3
    <2>5. CASE put.id < old.id
        <3>1. old \in Put(cps, put) /\ \A x \in Put(cps, put) : x.id <= old.id
            BY <1>1, <2>1, <2>4, <2>5
        <3>2. NewestOf(Put(cps, put)) = {old}
            BY <1>2, <3>1, MaxIsNewest
        <3>3. QED
            BY <2>2, <3>1, <3>2
    <2>6. CASE ~(put.id < old.id)
        <3>1. old.id <= put.id
            BY <2>4, <2>6
        <3>2. put \in Put(cps, put) /\ \A x \in Put(cps, put) : x.id <= put.id
            BY <1>1, <2>1, <2>3, <2>4, <3>1
        <3>3. NewestOf(Put(cps, put)) = {put}
            BY <1>2, <3>2, MaxIsNewest
        <3>4. Shown(put) = Shown(old)
            <4>1. CASE old.id = put.id
                BY <4>1 DEF RenameShows
            <4>2. CASE old.id < put.id
                <5>1. \A x \in cps : x.id < put.id
                    BY <2>1, <2>3, <2>4, <4>2
                <5>2. (\A x \in cps : x.id # put.id) /\ (\A x \in cps : x.id < cp.id)
                    BY <2>3, <2>4, <5>1
                <5>3. Shown(cp) = {} /\ Shown(old) = {}
                    BY <5>2 DEF RenameShows
                <5>4. QED
                    BY <5>3
            <4>3. QED
                BY <2>4, <3>1, <4>1, <4>2
        <3>5. QED
            BY <2>2, <3>2, <3>3, <3>4
    <2>7. QED
        BY <2>5, <2>6
<1>6. QED
    BY <1>4, <1>5

\* A rename in the middle of a run takes nothing back.
LEMMA PutWritesGrows ==
    ASSUME GrowInv, TypeInv', NEW r \in Requests, PutWrites(r)
    PROVE  GrowInv' /\ Grows
<1> DEFINE cp == req[r].cp
           put == Renamed(r)
<1> PICK c \in ChatIds : c = req[r].chat
    BY DEF PutWrites, At, GrowInv, TypeInv, RequestKnows
<1>1. /\ own' = [own EXCEPT ![c] = Put(own[c], put)]
      /\ req' = [req EXCEPT ![r] = Free]
      /\ UNCHANGED run
    BY DEF PutWrites
<1>2. /\ c \in ChatIds
      /\ cp.id \in 1..clock[c]
      /\ cp \in Checkpoints
      /\ RenameShows(cp, own[c])
    BY DEF PutWrites, At, GrowInv, TypeInv, TypeOK, RequestKnows, RequestShows, RequestStates
<1>3. put \in Checkpoints /\ put.id = cp.id /\ Shown(put) = Shown(cp)
    <2>1. put.values = cp.values /\ put.kept = cp.kept /\ put.id = cp.id /\ put \in Checkpoints
        BY <1>2 DEF Renamed, Checkpoints, GrowInv, TypeInv, TypeOK, RequestStates
    <2>2. QED
        BY <2>1 DEF Shown, Value
<1>4. /\ own[c] \in SUBSET Checkpoints /\ clock[c] \in Nat
      /\ Ordered(own[c], clock[c]) /\ HasNewest(own[c])
    BY <1>2, ChatsAssumption DEF GrowInv, TypeInv, TypeOK
<1>5. own'[c] = Put(own[c], put) /\ \A x \in ChatIds : x # c => own'[x] = own[x]
    BY <1>1, <1>2 DEF GrowInv, TypeInv, TypeOK
<1>6. PICK last \in Put(own[c], put) :
          /\ NewestOf(Put(own[c], put)) = {last}
          /\ \/ own[c] = {} /\ Shown(last) = {}
             \/ \E old \in own[c] : NewestOf(own[c]) = {old} /\ Shown(last) = Shown(old)
    BY <1>2, <1>3, <1>4, PutShows
<1>7. Newest(c)' = last /\ FetchMessages(c)' = Shown(last)
    BY <1>2, <1>5, <1>6, ShowsNewestNext
<1>8. FetchMessages(c) = Shown(last) /\ Shown(Newest(c)) = Shown(last)
    <2>1. CASE own[c] = {} /\ Shown(last) = {}
        <3>1. Newest(c) = NoCheckpoint
            BY <2>1 DEF Newest, NewestOf
        <3>2. Shown(NoCheckpoint) = {}
            BY DEF Shown, Value, NoCheckpoint
        <3>3. QED
            BY <2>1, <3>1, <3>2 DEF FetchMessages, Shown
    <2>2. CASE \E old \in own[c] : NewestOf(own[c]) = {old} /\ Shown(last) = Shown(old)
        BY <1>2, <2>2, ShowsNewest
    <2>3. QED
        BY <1>6, <2>1, <2>2
<1>9. Grows
    BY <1>5, <1>7, <1>8, SameNewest DEF Grows
<1>10. RunShows(c)'
    <2>1. RunShows(c) /\ run' = run
        BY <1>1, <1>2 DEF GrowInv
    <2>2. QED
        BY <1>7, <1>8, <2>1 DEF RunShows
<1>11. \A x \in ChatIds : RunShows(x)'
    BY <1>1, <1>5, <1>10, SameNewest DEF GrowInv, RunShows
<1>12. ASSUME NEW x \in Requests, At(x, "put", "write")'
       PROVE  RenameShows(req'[x].cp, own'[req'[x].chat])
    <2>1. x # r
        BY <1>1, <1>12 DEF At, Free, GrowInv, TypeInv, TypeOK
    <2>2. req'[x] = req[x]
        BY <1>1, <2>1 DEF GrowInv, TypeInv, TypeOK
    <2>3. /\ req[x].chat \in ChatIds
          /\ req[x].cp \in Checkpoints
          /\ RenameShows(req[x].cp, own[req[x].chat])
        BY <1>12, <2>2 DEF At, GrowInv, TypeInv, TypeOK, RequestKnows, RequestShows, RequestStates
    <2>4. CASE req[x].chat = c
        <3>1. RenameShows(req[x].cp, Put(own[c], put))
            BY <1>2, <1>3, <1>4, <2>3, <2>4, PutKeepsRename
        <3>2. QED
            BY <1>5, <2>2, <2>4, <3>1
    <2>5. CASE req[x].chat # c
        BY <1>5, <2>2, <2>3, <2>5
    <2>6. QED
        BY <2>4, <2>5
<1>13. \A x \in Requests : RequestShows(x)'
    BY <1>12 DEF RequestShows
<1>14. QED
    BY <1>9, <1>11, <1>13 DEF GrowInv

\* Each step of a request takes nothing back, but by deleting the chat.
LEMMA RequestsGrow ==
    ASSUME GrowInv, NEW r \in Requests, Request(r)
    PROVE  GrowInv' /\ Grows
<1>1. TypeInv /\ TypeInv' /\ req[r] \in RequestStates /\ RequestKnows(r)
    BY RequestsKeepType DEF GrowInv, TypeInv, TypeOK
<1>2. Free \in RequestStates /\ Free.op = "none"
    BY ConstantFacts DEF Free
<1>3. ASSUME NEW state \in RequestStates, ~(state.op = "put" /\ state.at = "write"),
             req' = [req EXCEPT ![r] = state], UNCHANGED <<own, run>>
      PROVE  GrowInv' /\ Grows
    <2>1. req'[r] = state /\ \A x \in Requests : x # r => req'[x] = req[x]
        BY <1>1, <1>3 DEF TypeInv, TypeOK
    <2>2. RequestShows(r)'
        BY <1>3, <2>1 DEF RequestShows, At
    <2>3. QED
        BY <1>1, <1>3, <2>1, <2>2, RequestStepGrows
<1>4. ASSUME Respond(r)
      PROVE  GrowInv' /\ Grows
    BY <1>2, <1>3, <1>4 DEF Respond
<1>5. ASSUME NEW op \in {"put", "delete", "delete_all"}, NEW c \in ChatIds \cup {NoChat},
             NEW name \in Names \cup {NoName}, Begin(r, op, c, name)
      PROVE  GrowInv' /\ Grows
    <2> DEFINE state == [Free EXCEPT !.op = op, !.chat = c, !.name = name]
    <2>1. state \in RequestStates /\ state.at = "start"
        BY <1>2 DEF RequestStates, Free
    <2>2. req' = [req EXCEPT ![r] = state] /\ UNCHANGED <<own, run>>
        BY <1>5 DEF Begin
    <2>3. QED
        BY <1>3, <2>1, <2>2
<1>6. ASSUME NEW at \in {"read", "delete"}, Goto(r, at)
      PROVE  GrowInv' /\ Grows
    <2> DEFINE state == [req[r] EXCEPT !.at = at]
    <2>1. state \in RequestStates /\ state.at # "write"
        BY <1>1 DEF RequestStates
    <2>2. req' = [req EXCEPT ![r] = state] /\ UNCHANGED <<own, run>>
        BY <1>6 DEF Goto
    <2>3. QED
        BY <1>3, <2>1, <2>2
<1>7. CASE \/ \E c \in ChatIds, name \in Names \cup {NoName} : Begin(r, "put", c, name)
           \/ \E c \in ChatIds : Begin(r, "delete", c, NoName)
           \/ Begin(r, "delete_all", NoChat, NoName)
    BY <1>5, <1>7
<1>8. CASE PutFetches(r) \/ DeleteReads(r) \/ DeleteAllEnds(r) \/ RequestFails(r)
    BY <1>4, <1>6, <1>8 DEF PutFetches, DeleteReads, DeleteAllEnds, RequestFails
<1>9. CASE PutReads(r)
    <2> DEFINE c == req[r].chat
               cp == Newest(c)
               state == [req[r] EXCEPT !.cp = cp, !.at = "write"]
    <2>1. c \in ChatIds /\ req[r].op = "put"
        BY <1>1, <1>9 DEF PutReads, At, RequestKnows
    <2>2. CASE own[c] = {}
        BY <1>4, <1>9, <2>2 DEF PutReads
    <2>3. CASE own[c] # {}
        <3>1. cp \in NewestOf(own[c]) /\ cp \in own[c]
            BY <1>1, <2>1, <2>3 DEF TypeInv, HasNewest, Newest, NewestOf
        <3>2. own[c] \in SUBSET Checkpoints /\ Ordered(own[c], clock[c])
            BY <1>1, <2>1 DEF TypeInv, TypeOK
        <3>3. \A x \in own[c] : x.id = cp.id => x = cp
            BY <3>1, <3>2 DEF Ordered
        <3>4. ~(cp.id < cp.id)
            BY <3>1, <3>2 DEF Ordered
        <3>5. RenameShows(cp, own[c])
            <4>1. \A x \in own[c] : x.id = cp.id => Shown(x) = Shown(cp)
                BY <3>3
            <4>2. QED
                BY <3>1, <3>4, <4>1 DEF RenameShows
        <3>6. req' = [req EXCEPT ![r] = state] /\ UNCHANGED <<own, run>>
            BY <1>9, <2>3 DEF PutReads
        <3>7. state.cp = cp /\ state.chat = c
            BY <1>1 DEF RequestStates
        <3>8. req'[r] = state /\ \A x \in Requests : x # r => req'[x] = req[x]
            BY <1>1, <3>6 DEF TypeInv, TypeOK
        <3>9. RequestShows(r)'
            BY <3>5, <3>6, <3>7, <3>8 DEF RequestShows
        <3>10. QED
            BY <1>1, <3>6, <3>8, <3>9, RequestStepGrows
    <2>4. QED
        BY <2>2, <2>3
<1>10. CASE PutWrites(r)
    BY <1>1, <1>10, PutWritesGrows
<1>11. CASE DeleteDeletes(r)
    <2>1. req[r].chat \in ChatIds /\ DeleteOwn(req[r].chat, r, Free)
        BY <1>1, <1>11 DEF DeleteDeletes, At, RequestKnows
    <2>2. QED
        BY <1>1, <1>2, <2>1, DeleteOwnGrows
<1>12. CASE DeleteAllLists(r)
    <2> DEFINE state == [req[r] EXCEPT !.todo = Threads, !.at = "delete"]
    <2>1. Threads \in SUBSET (ChatIds \X {"own", "child"})
        BY DEF Threads
    <2>2. state \in RequestStates /\ state.at = "delete"
        BY <1>1, <2>1 DEF RequestStates
    <2>3. req' = [req EXCEPT ![r] = state] /\ UNCHANGED <<own, run>>
        BY <1>12 DEF DeleteAllLists
    <2>4. QED
        BY <1>3, <2>2, <2>3
<1>13. ASSUME NEW t \in req[r].todo, DeleteAllDeletes(r, t)
       PROVE  GrowInv' /\ Grows
    <2> DEFINE rest == [req[r] EXCEPT !.todo = @ \ {t}]
    <2>1. rest \in RequestStates /\ rest.op = "delete_all" /\ t[1] \in ChatIds
        BY <1>1, <1>13 DEF RequestStates, DeleteAllDeletes, At
    <2>2. CASE t[2] = "own"
        <3>1. DeleteOwn(t[1], r, rest)
            BY <1>13, <2>2 DEF DeleteAllDeletes
        <3>2. QED
            BY <1>1, <2>1, <3>1, DeleteOwnGrows
    <2>3. CASE t[2] # "own"
        <3>1. req' = [req EXCEPT ![r] = rest] /\ UNCHANGED <<own, run>>
            BY <1>13, <2>3 DEF DeleteAllDeletes
        <3>2. QED
            BY <1>3, <2>1, <3>1
    <2>4. QED
        BY <2>2, <2>3
<1>14. QED
    BY <1>7, <1>8, <1>9, <1>10, <1>11, <1>12, <1>13 DEF Request

\* After a restart a chat shows what is stored, or is gone with the memory.
LEMMA RestartGrows == GrowInv /\ Restart => GrowInv' /\ Grows
<1> SUFFICES ASSUME GrowInv, Restart
             PROVE  GrowInv' /\ Grows
    OBVIOUS
<1>1. TypeInv'
    BY RestartKeepsType DEF GrowInv
<1>2. \A c \in ChatIds : RunShows(c)'
    BY DEF Restart, RunShows, NoRun
<1>3. \A r \in Requests : RequestShows(r)'
    BY DEF Restart, RequestShows, At, Free
<1>4. \A c \in ChatIds : own'[c] = own[c] \/ own'[c] = {}
    BY DEF Restart
<1>5. Grows
    BY <1>4, SameNewest DEF Grows
<1>6. QED
    BY <1>1, <1>2, <1>3, <1>5 DEF GrowInv

\* Every step leaves what is shown, or adds to it.
LEMMA NextGrows == GrowInv /\ [Next]_vars => GrowInv' /\ Grows
<1>1. GrowInv /\ UNCHANGED vars => GrowInv' /\ Grows
    <2> SUFFICES ASSUME GrowInv, UNCHANGED vars
                 PROVE  GrowInv' /\ Grows
        OBVIOUS
    <2>1. TypeInv' /\ own' = own /\ run' = run /\ req' = req
        BY NextTypeInv DEF GrowInv, vars
    <2>2. \A c \in ChatIds : RunShows(c)'
        BY <2>1, SameNewest DEF GrowInv, RunShows
    <2>3. \A r \in Requests : RequestShows(r)'
        BY <2>1 DEF GrowInv, RequestShows, At
    <2>4. Grows
        BY <2>1, SameNewest DEF Grows
    <2>5. QED
        BY <2>1, <2>2, <2>3, <2>4 DEF GrowInv
<1>2. QED
    BY <1>1, RunsGrow, RequestsGrow, RestartGrows DEF Next

\* The messages that a chat shows only grow until it is deleted, in every behaviour:
\* update_chat writes the checkpoint that it read under its own id, which a run's next
\* checkpoints follow.
THEOREM MessagesOnlyGrow == Spec => ShownOnlyGrows
<1>1. Grows => \A c \in ChatIds : FetchMessages(c) \subseteq FetchMessages(c)' \/ own'[c] = {}
    BY DEF Grows
<1>2. QED
    BY <1>1, InitGrowInv, NextGrows, PTL DEF Spec, ShownOnlyGrows

(***************************************************************************)
(* The list of chats, and deleting all of them.                            *)
(***************************************************************************)
\* The checkpoints of a chat, with those that renames are about to put back.
Held(c) ==
    own[c] \cup {req[r].cp : r \in {x \in Requests : At(x, "put", "write") /\ req[x].chat = c}}

\* There is something in the chat, or something may come back.
Live(c) == \E cp \in Held(c) : ~IsEmptyChat(cp)

\* What comes after a checkpoint with messages has messages.
Rising(cps) == \A x, y \in cps : x.id <= y.id /\ ~IsEmptyChat(x) => ~IsEmptyChat(y)

\* What was read with messages has not been deleted since.
Stored(c) == \A x \in Held(c) : ~IsEmptyChat(x) => \E y \in own[c] : x.id <= y.id

ListOf(c) ==
    /\ Rising(Held(c))
    /\ Stored(c)
    /\ run[c].on /\ Live(c) => ~IsEmptyChat(run[c])

\* A thread that is not empty, and that no run has written, is still to be deleted.
TodoOf(r, c) ==
    \/ c \in req[r].wrote
    \/ /\ Live(c) => <<c, "own">> \in req[r].todo
       /\ child[c] # {} => <<c, "child">> \in req[r].todo

RequestLists(r) == At(r, "delete_all", "delete") => \A c \in ChatIds : TodoOf(r, c)

ListInv ==
    /\ TypeInv
    /\ \A c \in ChatIds : ListOf(c)
    /\ \A r \in Requests : RequestLists(r)

\* Who is among those held, before and after a step.
LEMMA HeldFacts ==
    ASSUME NEW c \in ChatIds, NEW cp
    PROVE  /\ cp \in Held(c) <=>
                  \/ cp \in own[c]
                  \/ \E r \in Requests :
                         At(r, "put", "write") /\ req[r].chat = c /\ cp = req[r].cp
           /\ cp \in Held(c)' <=>
                  \/ cp \in own'[c]
                  \/ \E r \in Requests :
                         At(r, "put", "write")' /\ req'[r].chat = c /\ cp = req'[r].cp
BY DEF Held

\* Checkpoints with the same id, both with messages or both without.
Twins(x, y) == x.id = y.id /\ (IsEmptyChat(x) <=> IsEmptyChat(y))

\* A chat stays in order when a step brings it nothing but twins of what is held.
LEMMA TwinsKeepList ==
    ASSUME ListInv, NEW c \in ChatIds,
           \A x \in Held(c)' : \E y \in Held(c) : Twins(x, y),
           \A y \in own[c] : \E z \in own'[c] : z.id = y.id,
           run'[c].on => run[c].on /\ (IsEmptyChat(run'[c]) => IsEmptyChat(run[c]))
    PROVE  ListOf(c)' /\ (Live(c)' => Live(c))
<1>1. ListOf(c)
    BY DEF ListInv
<1>2. Rising(Held(c))'
    BY <1>1 DEF ListOf, Rising, Twins, IsEmptyChat, Value
<1>3. Live(c)' => Live(c)
    BY DEF Live, Twins, IsEmptyChat, Value
<1>4. Stored(c)'
    BY <1>1 DEF ListOf, Stored, Twins, IsEmptyChat, Value
<1>5. (run[c].on /\ Live(c) => ~IsEmptyChat(run[c]))'
    BY <1>1, <1>3 DEF ListOf, IsEmptyChat, Value
<1>6. QED
    BY <1>2, <1>3, <1>4, <1>5 DEF ListOf

\* What is held is of the chat's clock.
LEMMA HeldIds ==
    ASSUME TypeInv, NEW c \in ChatIds, NEW cp \in Held(c)
    PROVE  cp \in Checkpoints /\ cp.id \in 1..clock[c]
<1>1. CASE cp \in own[c]
    BY <1>1 DEF TypeInv, TypeOK, Ordered
<1>2. ASSUME NEW r \in Requests, At(r, "put", "write"), req[r].chat = c, cp = req[r].cp
      PROVE  cp \in Checkpoints /\ cp.id \in 1..clock[c]
    BY <1>2 DEF TypeInv, TypeOK, RequestKnows, RequestStates
<1>3. QED
    BY <1>1, <1>2, HeldFacts

\* Nothing is held initially.
LEMMA InitListInv == Init => ListInv
<1> SUFFICES ASSUME Init
             PROVE  ListInv
    OBVIOUS
<1>1. TypeInv
    BY InitTypeInv
<1>2. \A c \in ChatIds : Held(c) = {}
    BY DEF Init, Held, At, Free
<1>3. \A c \in ChatIds : ListOf(c)
    BY <1>2 DEF ListOf, Rising, Live, Stored
<1>4. \A r \in Requests : RequestLists(r)
    BY DEF Init, RequestLists, At, Free
<1>5. QED
    BY <1>1, <1>3, <1>4 DEF ListInv

\* Of a request that notes a chat nothing but that changes, and one that deletes all
\* chats notes it.
LEMMA NotedMore ==
    ASSUME req \in [Requests -> RequestStates], NEW c \in ChatIds, NEW r \in Requests
    PROVE  /\ Noted(c)[r].todo = req[r].todo
           /\ req[r].op = "delete_all" => Noted(c)[r].wrote = req[r].wrote \cup {c}
<1> DEFINE noted == [req[r] EXCEPT !.wrote = @ \cup {c}]
<1>1. noted.todo = req[r].todo /\ noted.wrote = req[r].wrote \cup {c}
    BY DEF RequestStates
<1>2. Noted(c)[r] = IF req[r].op = "delete_all" THEN noted ELSE req[r]
    BY DEF Noted
<1>3. QED
    BY <1>1, <1>2

\* A request goes on with a list of what is to be deleted when others note a chat.
LEMMA NotedLists ==
    ASSUME ListInv, NEW c \in ChatIds, req' = Noted(c),
           \A x \in ChatIds : x # c => child'[x] = child[x] /\ (Live(x)' => Live(x))
    PROVE  \A r \in Requests : RequestLists(r)'
<1> SUFFICES ASSUME NEW r \in Requests, At(r, "delete_all", "delete")', NEW x \in ChatIds
             PROVE  TodoOf(r, x)'
    BY DEF RequestLists
<1>1. req \in [Requests -> RequestStates]
    BY DEF ListInv, TypeInv, TypeOK
<1>2. /\ req'[r].op = req[r].op
      /\ req'[r].at = req[r].at
      /\ req'[r].todo = req[r].todo
      /\ req[r].op = "delete_all" => req'[r].wrote = req[r].wrote \cup {c}
    BY <1>1, NotedFacts, NotedMore
<1>3. At(r, "delete_all", "delete")
    BY <1>2 DEF At
<1>4. TodoOf(r, x)
    BY <1>3 DEF ListInv, RequestLists
<1>5. req'[r].wrote = req[r].wrote \cup {c}
    BY <1>2, <1>3 DEF At
<1>6. CASE x = c
    BY <1>5, <1>6 DEF TodoOf
<1>7. CASE x # c
    BY <1>2, <1>4, <1>5, <1>7 DEF TodoOf
<1>8. QED
    BY <1>6, <1>7

\* A run's checkpoint has messages if anything that is held of the chat has.
LEMMA CheckpointLists ==
    ASSUME ListInv, TypeInv', NEW c \in ChatIds, NEW values \in Contents,
           NEW kept \in SUBSET Channels, Checkpoint(c, values, kept), child' = child,
           \A x \in ChatIds : x # c => run'[x] = run[x],
           run'[c].values = values, run'[c].kept = kept,
           Live(c) => ~IsEmptyChat(run'[c])
    PROVE  ListInv'
<1> DEFINE cp == [id |-> clock[c] + 1, values |-> values, kept |-> kept, name |-> NoName]
<1>1. TypeInv /\ req \in [Requests -> RequestStates] /\ clock[c] \in Nat
    BY ChatsAssumption DEF ListInv, TypeInv, TypeOK
<1>2. own' = [own EXCEPT ![c] = @ \cup {cp}] /\ req' = Noted(c)
    BY DEF Checkpoint
<1>3. own'[c] = own[c] \cup {cp} /\ \A x \in ChatIds : x # c => own'[x] = own[x]
    BY <1>1, <1>2 DEF TypeInv, TypeOK
<1>4. \A r \in Requests : /\ req'[r].chat = req[r].chat
                         /\ req'[r].cp = req[r].cp
                         /\ req'[r].op = req[r].op
                         /\ req'[r].at = req[r].at
    BY <1>1, <1>2, NotedFacts
<1> HIDE DEF cp
<1>5. ASSUME NEW x \in ChatIds, x # c, NEW z \in Held(x)'
      PROVE  z \in Held(x)
    BY <1>3, <1>4, <1>5 DEF Held, At
<1>6. Held(c)' = Held(c) \cup {cp}
    <2>1. ASSUME NEW z
          PROVE  z \in Held(c)' <=> z \in Held(c) \/ z = cp
        <3>1. z \in own'[c] <=> z \in own[c] \/ z = cp
            BY <1>3
        <3>2. QED
            BY <1>4, <3>1 DEF Held, At
    <2>2. QED
        BY <2>1
<1>7. cp.id = clock[c] + 1 /\ (IsEmptyChat(cp) <=> IsEmptyChat(run'[c]))
    BY DEF cp, IsEmptyChat, Value
<1>8. \A x \in Held(c) : x.id \in Nat /\ x.id < cp.id
    BY <1>1, <1>7, HeldIds
<1>9. ListOf(c)
    BY DEF ListInv
<1>10. Rising(Held(c) \cup {cp})
    <2>1. \A x \in Held(c) : ~(cp.id <= x.id)
        BY <1>1, <1>7, <1>8
    <2>2. \A x \in Held(c) : ~IsEmptyChat(x) => ~IsEmptyChat(cp)
        BY <1>7 DEF Live
    <2>3. QED
        BY <1>9, <2>1, <2>2 DEF ListOf, Rising
<1>11. Stored(c)'
    <2>1. cp \in own'[c] /\ \A x \in Held(c)' : x.id <= cp.id
        BY <1>1, <1>3, <1>6, <1>7, <1>8
    <2>2. QED
        BY <2>1 DEF Stored
<1>12. Live(c)' => ~IsEmptyChat(run'[c])
    <2>1. Live(c)' <=> \E x \in Held(c) \cup {cp} : ~IsEmptyChat(x)
        BY <1>6 DEF Live, IsEmptyChat, Value
    <2>2. QED
        BY <1>7, <2>1 DEF Live
<1>13. ListOf(c)'
    <2>1. Rising(Held(c))'
        BY <1>6, <1>10 DEF Rising, IsEmptyChat, Value
    <2>2. (IsEmptyChat(run[c]))' <=> IsEmptyChat(run'[c])
        BY DEF IsEmptyChat, Value
    <2>3. QED
        BY <1>11, <1>12, <2>1, <2>2 DEF ListOf
<1>14. ASSUME NEW x \in ChatIds, x # c
       PROVE  ListOf(x)' /\ (Live(x)' => Live(x))
    BY <1>3, <1>5, <1>14, TwinsKeepList DEF Twins
<1>15. \A r \in Requests : RequestLists(r)'
    BY <1>2, <1>14, NotedLists
<1>16. QED
    BY <1>13, <1>14, <1>15 DEF ListInv

\* A request goes on with its list when there is not more to delete.
LEMMA TodoKept ==
    ASSUME ListInv, NEW r \in Requests, req'[r] = req[r],
           \A c \in ChatIds : (Live(c)' => Live(c)) /\ child'[c] \subseteq child[c]
    PROVE  RequestLists(r)'
<1> SUFFICES ASSUME At(r, "delete_all", "delete")', NEW c \in ChatIds
             PROVE  TodoOf(r, c)'
    BY DEF RequestLists
<1>1. TodoOf(r, c)
    BY DEF ListInv, RequestLists, At
<1>2. Live(c)' => Live(c)
    OBVIOUS
<1>3. child[c] = {} => child'[c] = {}
    OBVIOUS
<1>4. QED
    BY <1>1, <1>2, <1>3 DEF TodoOf

\* A request changed on its own, to one that holds no other checkpoint.
LEMMA RequestStepLists ==
    ASSUME ListInv, TypeInv', NEW r \in Requests, UNCHANGED <<own, run>>,
           \A x \in Requests : x # r => req'[x] = req[x],
           \A c \in ChatIds : child'[c] \subseteq child[c],
           At(r, "put", "write")' => req'[r].cp \in own[req'[r].chat],
           (\A c \in ChatIds : Live(c)' => Live(c)) => RequestLists(r)'
    PROVE  ListInv'
<1>1. ASSUME NEW c \in ChatIds, NEW z \in Held(c)'
      PROVE  z \in Held(c)
    <2>1. CASE z \in own'[c]
        BY <2>1 DEF Held
    <2>2. ASSUME NEW x \in Requests, At(x, "put", "write")', req'[x].chat = c, z = req'[x].cp
          PROVE  z \in Held(c)
        <3>1. CASE x = r
            BY <2>2, <3>1 DEF Held
        <3>2. CASE x # r
            BY <2>2, <3>2 DEF Held, At
        <3>3. QED
            BY <3>1, <3>2
    <2>3. QED
        BY <1>1, <2>1, <2>2, HeldFacts
<1>2. \A c \in ChatIds : ListOf(c)' /\ (Live(c)' => Live(c))
    BY <1>1, TwinsKeepList DEF Twins
<1>3. \A x \in Requests : RequestLists(x)'
    BY <1>2, TodoKept
<1>4. QED
    BY <1>2, <1>3 DEF ListInv

\* Runs only add messages, so that their checkpoints have them.
LEMMA RunsList == ListInv /\ Runs => ListInv'
<1> SUFFICES ASSUME ListInv, NEW c \in ChatIds,
                    \/ RunStarts(c) \/ ChildSteps(c) \/ RunEnds(c)
                    \/ \E changed \in SUBSET Channels : RunSteps(c, changed)
             PROVE  ListInv'
    BY DEF Runs
<1>1. TypeInv /\ TypeInv'
    BY RunsKeepType DEF ListInv, Runs
<1>2. /\ run[c] \in RunStates /\ run[c].values \in Contents /\ run[c].kept \in SUBSET Channels
      /\ run \in [ChatIds -> RunStates] /\ ListOf(c)
      /\ own[c] \in SUBSET Checkpoints
    BY DEF ListInv, TypeInv, TypeOK, RunStates
<1>3. "messages" \in Channels /\ "messages_history" \in Channels
    BY DEF Channels
<1>4. CASE RunStarts(c)
    <2> DEFINE read == [ch \in Channels |-> Value(Newest(c), ch)]
               next == [on |-> TRUE, turn |-> turn + 1, values |-> read, kept |-> Newest(c).kept]
    <2>1. Newest(c) \in Checkpoints
        BY <1>1, NewestFacts, ConstantFacts DEF TypeInv, TypeOK
    <2>2. read \in Contents /\ Newest(c).kept \in SUBSET Channels
        BY <2>1, ValueFacts DEF Contents, Checkpoints
    <2>3. Checkpoint(c, read, Newest(c).kept) /\ child' = child
        BY <1>4 DEF RunStarts
    <2>4. run' = [run EXCEPT ![c] = next]
        BY <1>4 DEF RunStarts
    <2>5. run'[c] = next /\ \A x \in ChatIds : x # c => run'[x] = run[x]
        BY <1>2, <2>4
    <2>6. ASSUME Live(c)
          PROVE  ~IsEmptyChat(Newest(c))
        <3>1. PICK cp \in Held(c) : ~IsEmptyChat(cp)
            BY <2>6 DEF Live
        <3>2. PICK y \in own[c] : cp.id <= y.id
            BY <1>2, <3>1 DEF ListOf, Stored
        <3>3. Newest(c) \in own[c] /\ y.id <= Newest(c).id
            BY <1>1, <3>2 DEF TypeInv, HasNewest, Newest, NewestOf
        <3>4. cp.id \in Nat /\ y.id \in Nat /\ Newest(c).id \in Nat
            BY <1>1, <3>3, HeldIds DEF TypeInv, TypeOK, Ordered
        <3>5. cp.id <= Newest(c).id /\ Newest(c) \in Held(c)
            BY <3>2, <3>3, <3>4 DEF Held
        <3>6. QED
            BY <1>2, <3>1, <3>5 DEF ListOf, Rising
    <2>7. IsEmptyChat(run'[c]) => IsEmptyChat(Newest(c))
        BY <1>3, <2>5 DEF IsEmptyChat, Value
    <2>8. run'[c].values = read /\ run'[c].kept = Newest(c).kept
        BY <2>5
    <2> HIDE DEF read, next
    <2>9. Live(c) => ~IsEmptyChat(run'[c])
        BY <2>6, <2>7
    <2>10. QED
        BY <1>1, <2>2, <2>3, <2>5, <2>8, <2>9, CheckpointLists
<1>5. ASSUME NEW changed \in SUBSET Channels, RunSteps(c, changed)
      PROVE  ListInv'
    <2> DEFINE new == IF "messages" \in changed THEN {run[c].turn} ELSE {}
               messages == run[c].values["messages"] \cup new
               history == run[c].values["messages_history"] \cup messages
               values == [run[c].values EXCEPT
                             !["messages"] = messages,
                             !["messages_history"] =
                                 IF "messages_history" \in changed THEN history ELSE @]
               kept == run[c].kept \cup changed
               next == [run[c] EXCEPT !.values = values, !.kept = kept]
    <2>1. run[c].on /\ run[c].turn \in Turns
        <3>1. run[c].on
            BY <1>5 DEF RunSteps
        <3>2. run[c].turn \in Turns
            BY <1>1, <3>1, ChatsAssumption DEF TypeInv, TypeOK, RunKnows, Turns
        <3>3. QED
            BY <3>1, <3>2
    <2>2. values \in Contents /\ kept \in SUBSET Channels
        BY <1>2, <1>3, <2>1 DEF Contents
    <2>3. Checkpoint(c, values, kept) /\ child' = child
        BY <1>5 DEF RunSteps
    <2>4. run' = [run EXCEPT ![c] = next]
        BY <1>2, <1>5 DEF RunSteps
    <2>5. run'[c] = next /\ \A x \in ChatIds : x # c => run'[x] = run[x]
        BY <1>2, <2>4
    <2>6. run'[c].values = values /\ run'[c].kept = kept
        BY <1>2, <2>5 DEF RunStates
    <2>7. run[c].values["messages"] \subseteq values["messages"]
        BY <1>2, <1>3 DEF Contents
    <2> HIDE DEF values, next
    <2>8. IsEmptyChat(run'[c]) => IsEmptyChat(run[c])
        BY <2>6, <2>7 DEF IsEmptyChat, Value
    <2>9. Live(c) => ~IsEmptyChat(run'[c])
        BY <1>2, <2>1, <2>8 DEF ListOf
    <2> HIDE DEF kept
    <2>10. QED
        BY <1>1, <2>2, <2>3, <2>5, <2>6, <2>9, CheckpointLists
<1>6. CASE ChildSteps(c)
    <2>1. own' = own /\ run' = run /\ req' = Noted(c)
        BY <1>6 DEF ChildSteps
    <2>2. \A x \in ChatIds : x # c => child'[x] = child[x]
        BY <1>1, <1>6 DEF ChildSteps, TypeInv, TypeOK
    <2>3. \A r \in Requests : /\ req'[r].op = req[r].op
                             /\ req'[r].at = req[r].at
                             /\ req'[r].chat = req[r].chat
                             /\ req'[r].cp = req[r].cp
        BY <1>1, <2>1, NotedFacts DEF TypeInv, TypeOK
    <2>4. ASSUME NEW x \in ChatIds, NEW z \in Held(x)'
          PROVE  z \in Held(x)
        BY <2>1, <2>3, <2>4 DEF Held, At
    <2>5. \A x \in ChatIds : ListOf(x)' /\ (Live(x)' => Live(x))
        BY <2>1, <2>4, TwinsKeepList DEF Twins
    <2>6. \A r \in Requests : RequestLists(r)'
        BY <2>1, <2>2, <2>5, NotedLists
    <2>7. QED
        BY <1>1, <2>5, <2>6 DEF ListInv
<1>7. CASE RunEnds(c)
    <2>1. own' = own /\ req' = req /\ child' = child /\ run' = [run EXCEPT ![c] = NoRun]
        BY <1>7 DEF RunEnds
    <2>2. \A x \in ChatIds : run'[x] = run[x] \/ ~run'[x].on
        BY <1>2, <2>1 DEF NoRun
    <2>3. ASSUME NEW x \in ChatIds, NEW z \in Held(x)'
          PROVE  z \in Held(x)
        BY <2>1, <2>3 DEF Held, At
    <2>4. \A x \in ChatIds : ListOf(x)' /\ (Live(x)' => Live(x))
        BY <2>1, <2>2, <2>3, TwinsKeepList DEF Twins
    <2>5. \A r \in Requests : RequestLists(r)'
        BY <2>1, <2>4, TodoKept
    <2>6. QED
        BY <1>1, <2>4, <2>5 DEF ListInv
<1>8. QED
    BY <1>4, <1>5, <1>6, <1>7

\* A deletion leaves nothing of a chat with messages, and its thread off the list of
\* the request that deletes it.
LEMMA DeleteOwnLists ==
    ASSUME ListInv, TypeInv', NEW c \in ChatIds, NEW r \in Requests,
           NEW next \in RequestStates, DeleteOwn(c, r, next), next.op # "put", child' = child,
           At(r, "delete_all", "delete")' =>
               /\ At(r, "delete_all", "delete")
               /\ next.wrote = req[r].wrote
               /\ next.todo = req[r].todo \ {<<c, "own">>}
    PROVE  ListInv'
<1>1. /\ own'[c] = {} /\ \A x \in ChatIds : x # c => own'[x] = own[x] /\ run'[x] = run[x]
      /\ req'[r] = next
      /\ req \in [Requests -> RequestStates]
    BY DEF DeleteOwn, ListInv, TypeInv, TypeOK
<1>2. ASSUME NEW x \in Requests, x # r
      PROVE  /\ req'[x] = IF req[x].chat = c THEN [req[x] EXCEPT !.cp.kept = {}] ELSE req[x]
             /\ req'[x].op = req[x].op
             /\ req'[x].at = req[x].at
             /\ req'[x].chat = req[x].chat
             /\ req'[x].todo = req[x].todo
             /\ req'[x].wrote = req[x].wrote
             /\ req[x].chat = c => IsEmptyChat(req'[x].cp)
             /\ req[x].chat # c => req'[x].cp = req[x].cp
    <2>1. req'[x] = IF req[x].chat = c THEN [req[x] EXCEPT !.cp.kept = {}] ELSE req[x]
        BY <1>2 DEF DeleteOwn
    <2>2. CASE req[x].chat = c
        <3>1. req'[x] = [req[x] EXCEPT !.cp = [req[x].cp EXCEPT !.kept = {}]]
            BY <2>1, <2>2
        <3>2. req[x] \in RequestStates /\ req[x].cp \in Checkpoints
            BY <1>1 DEF RequestStates
        <3>3. /\ req'[x].cp = [req[x].cp EXCEPT !.kept = {}]
              /\ req'[x].op = req[x].op
              /\ req'[x].at = req[x].at
              /\ req'[x].chat = req[x].chat
              /\ req'[x].todo = req[x].todo
              /\ req'[x].wrote = req[x].wrote
            BY <3>1, <3>2 DEF RequestStates
        <3>4. req'[x].cp.kept = {}
            BY <3>2, <3>3 DEF Checkpoints
        <3>5. IsEmptyChat(req'[x].cp)
            BY <3>4 DEF IsEmptyChat, Value
        <3>6. QED
            BY <2>1, <2>2, <3>3, <3>5
    <2>3. CASE req[x].chat # c
        BY <2>1, <2>3
    <2>4. QED
        BY <2>2, <2>3
<1>3. ~At(r, "put", "write")'
    BY <1>1 DEF At
<1>4. ASSUME NEW z \in Held(c)'
      PROVE  IsEmptyChat(z)
    <2>1. PICK x \in Requests : At(x, "put", "write")' /\ req'[x].chat = c /\ z = req'[x].cp
        BY <1>1, <1>4, HeldFacts
    <2>2. x # r
        BY <1>3, <2>1
    <2>3. QED
        BY <1>2, <2>1, <2>2
<1>5. ListOf(c)' /\ ~Live(c)'
    <2>1. ~Live(c)' /\ Rising(Held(c))' /\ Stored(c)'
        BY <1>4 DEF Live, Rising, Stored, IsEmptyChat, Value
    <2>2. QED
        BY <2>1 DEF ListOf
<1>6. ASSUME NEW d \in ChatIds, d # c
      PROVE  ListOf(d)' /\ (Live(d)' => Live(d))
    <2>1. ASSUME NEW z \in Held(d)'
          PROVE  z \in Held(d)
        <3>1. CASE z \in own'[d]
            BY <1>1, <1>6, <3>1 DEF Held
        <3>2. ASSUME NEW x \in Requests, At(x, "put", "write")', req'[x].chat = d, z = req'[x].cp
              PROVE  z \in Held(d)
            <4>1. x # r
                BY <1>3, <3>2
            <4>2. req[x].chat = d /\ z = req[x].cp /\ At(x, "put", "write")
                BY <1>2, <1>6, <3>2, <4>1 DEF At
            <4>3. QED
                BY <4>2 DEF Held
        <3>3. QED
            BY <2>1, <3>1, <3>2, HeldFacts
    <2>2. QED
        BY <1>1, <1>6, <2>1, TwinsKeepList DEF Twins
<1>7. ASSUME NEW x \in Requests, At(x, "delete_all", "delete")', NEW d \in ChatIds
      PROVE  TodoOf(x, d)'
    <2>1. At(x, "delete_all", "delete") /\ TodoOf(x, d)
        <3>1. At(x, "delete_all", "delete")
            BY <1>2, <1>7 DEF At
        <3>2. QED
            BY <3>1 DEF ListInv, RequestLists
    <2>2. Live(d)' => Live(d) /\ d # c
        BY <1>5, <1>6
    <2>3. req'[x].wrote = req[x].wrote
        BY <1>1, <1>2, <1>7
    <2>4. \A t \in req[x].todo : t # <<c, "own">> => t \in req'[x].todo
        BY <1>1, <1>2, <1>7
    <2>5. <<d, "child">> # <<c, "own">> /\ (d # c => <<d, "own">> # <<c, "own">>)
        OBVIOUS
    <2>6. QED
        BY <2>1, <2>2, <2>3, <2>4, <2>5 DEF TodoOf
<1>8. \A x \in Requests : RequestLists(x)'
    BY <1>7 DEF RequestLists
<1>9. \A d \in ChatIds : ListOf(d)'
    BY <1>5, <1>6
<1>10. QED
    BY <1>8, <1>9 DEF ListInv

\* A rename puts back a twin of what it has read.
LEMMA PutWritesLists ==
    ASSUME ListInv, TypeInv', NEW r \in Requests, PutWrites(r)
    PROVE  ListInv'
<1> DEFINE cp == req[r].cp
           put == Renamed(r)
<1> PICK c \in ChatIds : c = req[r].chat
    BY DEF PutWrites, At, ListInv, TypeInv, RequestKnows
<1>1. /\ own' = [own EXCEPT ![c] = Put(own[c], put)]
      /\ req' = [req EXCEPT ![r] = Free]
      /\ UNCHANGED <<child, run>>
      /\ At(r, "put", "write")
    BY DEF PutWrites
<1>2. /\ own'[c] = Put(own[c], put)
      /\ \A x \in ChatIds : x # c => own'[x] = own[x]
      /\ req'[r] = Free
      /\ \A x \in Requests : x # r => req'[x] = req[x]
    BY <1>1 DEF ListInv, TypeInv, TypeOK
<1>3. cp \in Held(c) /\ cp \in Checkpoints
    BY <1>1, HeldIds DEF Held, ListInv
<1>4. Twins(put, cp)
    <2>1. put.values = cp.values /\ put.kept = cp.kept /\ put.id = cp.id
        BY <1>3 DEF Renamed, Checkpoints
    <2>2. QED
        BY <2>1 DEF Twins, IsEmptyChat, Value
<1>5. ASSUME NEW x \in Requests, At(x, "put", "write")'
      PROVE  x # r /\ req'[x] = req[x] /\ At(x, "put", "write")
    BY <1>2, <1>5 DEF At, Free
<1>6. ASSUME NEW d \in ChatIds, NEW z \in Held(d)'
      PROVE  \E y \in Held(d) : Twins(z, y)
    <2>1. CASE z \in own'[d]
        <3>1. z \in own[d] \/ (d = c /\ z = put)
            BY <1>2, <2>1 DEF Put
        <3>2. QED
            BY <1>3, <1>4, <3>1 DEF Held, Twins
    <2>2. ASSUME NEW x \in Requests, At(x, "put", "write")', req'[x].chat = d, z = req'[x].cp
          PROVE  z \in Held(d)
        BY <1>5, <2>2 DEF Held
    <2>3. QED
        BY <1>6, <2>1, <2>2, HeldFacts DEF Twins
<1>7. ASSUME NEW d \in ChatIds, NEW y \in own[d]
      PROVE  \E z \in own'[d] : z.id = y.id
    <2>1. CASE d # c
        BY <1>2, <1>7, <2>1
    <2>2. CASE d = c
        BY <1>2, <1>7, <2>2 DEF Put
    <2>3. QED
        BY <2>1, <2>2
<1>8. \A d \in ChatIds : ListOf(d)' /\ (Live(d)' => Live(d))
    BY <1>1, <1>6, <1>7, TwinsKeepList
<1>9. ASSUME NEW x \in Requests
      PROVE  RequestLists(x)'
    <2>1. CASE x = r
        BY <1>2, <2>1 DEF RequestLists, At, Free
    <2>2. CASE x # r
        BY <1>1, <1>2, <1>8, <2>2, TodoKept
    <2>3. QED
        BY <2>1, <2>2
<1>10. QED
    BY <1>8, <1>9 DEF ListInv

\* Each step of a request leaves what remains of a chat in order, and nothing of it off
\* the list of a request that deletes all chats.
LEMMA RequestsList ==
    ASSUME ListInv, NEW r \in Requests, Request(r)
    PROVE  ListInv'
<1>1. TypeInv /\ TypeInv' /\ req[r] \in RequestStates /\ RequestKnows(r)
    BY RequestsKeepType DEF ListInv, TypeInv, TypeOK
<1>2. Free \in RequestStates /\ Free.op = "none"
    BY ConstantFacts DEF Free
<1>3. ASSUME NEW state \in RequestStates, ~(state.op = "put" /\ state.at = "write"),
             ~(state.op = "delete_all" /\ state.at = "delete"),
             req' = [req EXCEPT ![r] = state], UNCHANGED <<own, run, child>>
      PROVE  ListInv'
    <2>1. req'[r] = state /\ \A x \in Requests : x # r => req'[x] = req[x]
        BY <1>1, <1>3 DEF TypeInv, TypeOK
    <2>2. RequestLists(r)' /\ ~At(r, "put", "write")'
        BY <1>3, <2>1 DEF RequestLists, At
    <2>3. QED
        BY <1>1, <1>3, <2>1, <2>2, RequestStepLists
<1>4. ASSUME Respond(r)
      PROVE  ListInv'
    BY <1>2, <1>3, <1>4 DEF Respond
<1>5. ASSUME NEW op \in {"put", "delete", "delete_all"}, NEW c \in ChatIds \cup {NoChat},
             NEW name \in Names \cup {NoName}, Begin(r, op, c, name)
      PROVE  ListInv'
    <2> DEFINE state == [Free EXCEPT !.op = op, !.chat = c, !.name = name]
    <2>1. state \in RequestStates /\ state.at = "start"
        BY <1>2 DEF RequestStates, Free
    <2>2. req' = [req EXCEPT ![r] = state] /\ UNCHANGED <<own, run, child>>
        BY <1>5 DEF Begin
    <2>3. QED
        BY <1>3, <2>1, <2>2
<1>6. ASSUME NEW at \in {"read", "delete"}, Goto(r, at), req[r].op # "delete_all"
      PROVE  ListInv'
    <2> DEFINE state == [req[r] EXCEPT !.at = at]
    <2>1. state \in RequestStates /\ state.at # "write" /\ state.op # "delete_all"
        BY <1>1, <1>6 DEF RequestStates
    <2>2. req' = [req EXCEPT ![r] = state] /\ UNCHANGED <<own, run, child>>
        BY <1>6 DEF Goto
    <2>3. QED
        BY <1>3, <2>1, <2>2
<1>7. CASE \/ \E c \in ChatIds, name \in Names \cup {NoName} : Begin(r, "put", c, name)
           \/ \E c \in ChatIds : Begin(r, "delete", c, NoName)
           \/ Begin(r, "delete_all", NoChat, NoName)
    BY <1>5, <1>7
<1>8. CASE PutFetches(r) \/ DeleteReads(r) \/ DeleteAllEnds(r) \/ RequestFails(r)
    BY <1>4, <1>6, <1>8 DEF PutFetches, DeleteReads, DeleteAllEnds, RequestFails, At
<1>9. CASE PutReads(r)
    <2> DEFINE c == req[r].chat
               state == [req[r] EXCEPT !.cp = Newest(c), !.at = "write"]
    <2>1. c \in ChatIds /\ req[r].op = "put"
        BY <1>1, <1>9 DEF PutReads, At, RequestKnows
    <2>2. CASE own[c] = {}
        BY <1>4, <1>9, <2>2 DEF PutReads
    <2>3. CASE own[c] # {}
        <3>1. Newest(c) \in own[c]
            BY <1>1, <2>1, <2>3, NewestFacts DEF TypeInv, HasNewest
        <3>2. req' = [req EXCEPT ![r] = state] /\ UNCHANGED <<own, run, child>>
            BY <1>9, <2>3 DEF PutReads
        <3>3. state.cp = Newest(c) /\ state.chat = c /\ state.op = "put"
            BY <1>1, <2>1 DEF RequestStates
        <3>4. req'[r] = state /\ \A x \in Requests : x # r => req'[x] = req[x]
            BY <1>1, <3>2 DEF TypeInv, TypeOK
        <3>5. RequestLists(r)' /\ req'[r].cp \in own[req'[r].chat]
            BY <3>1, <3>3, <3>4 DEF RequestLists, At
        <3>6. QED
            BY <1>1, <3>2, <3>4, <3>5, RequestStepLists
    <2>4. QED
        BY <2>2, <2>3
<1>10. CASE PutWrites(r)
    BY <1>1, <1>10, PutWritesLists
<1>11. CASE DeleteDeletes(r)
    <2>1. req[r].chat \in ChatIds /\ DeleteOwn(req[r].chat, r, Free) /\ child' = child
        BY <1>1, <1>11 DEF DeleteDeletes, At, RequestKnows
    <2>2. req'[r] = Free
        BY <2>1 DEF DeleteOwn
    <2>3. ~At(r, "delete_all", "delete")'
        BY <1>2, <2>2 DEF At
    <2>4. QED
        BY <1>1, <1>2, <2>1, <2>3, DeleteOwnLists
<1>12. CASE DeleteAllLists(r)
    <2> DEFINE state == [req[r] EXCEPT !.todo = Threads, !.at = "delete"]
    <2>1. Threads \in SUBSET (ChatIds \X {"own", "child"})
        BY DEF Threads
    <2>2. state \in RequestStates /\ state.op = "delete_all" /\ state.todo = Threads
        BY <1>1, <1>12, <2>1 DEF RequestStates, DeleteAllLists, At
    <2>3. req' = [req EXCEPT ![r] = state] /\ UNCHANGED <<own, run, child>>
        BY <1>12 DEF DeleteAllLists
    <2>4. req'[r] = state /\ \A x \in Requests : x # r => req'[x] = req[x]
        BY <1>1, <2>3 DEF TypeInv, TypeOK
    <2>5. ASSUME NEW c \in ChatIds, Live(c)' => Live(c)
          PROVE  TodoOf(r, c)'
        <3>1. Live(c) => own[c] # {}
            BY DEF ListInv, ListOf, Stored, Live
        <3>2. own[c] # {} => <<c, "own">> \in Threads
            BY DEF Threads
        <3>3. child[c] # {} => <<c, "child">> \in Threads
            BY DEF Threads
        <3>4. req'[r].todo = Threads /\ child' = child
            BY <2>2, <2>3, <2>4
        <3> HIDE DEF state
        <3>5. QED
            BY <2>5, <3>1, <3>2, <3>3, <3>4 DEF TodoOf
    <2>6. (\A c \in ChatIds : Live(c)' => Live(c)) => RequestLists(r)'
        BY <2>5 DEF RequestLists
    <2>7. ~At(r, "put", "write")'
        BY <2>2, <2>4 DEF At
    <2> HIDE DEF state
    <2>8. QED
        BY <1>1, <2>3, <2>4, <2>6, <2>7, RequestStepLists
<1>13. ASSUME NEW t \in req[r].todo, DeleteAllDeletes(r, t)
       PROVE  ListInv'
    <2> DEFINE rest == [req[r] EXCEPT !.todo = @ \ {t}]
    <2>1. /\ rest \in RequestStates
          /\ rest.op = "delete_all"
          /\ rest.wrote = req[r].wrote
          /\ rest.todo = req[r].todo \ {t}
          /\ t \in ChatIds \X {"own", "child"}
        BY <1>1, <1>13 DEF RequestStates, DeleteAllDeletes, At
    <2>2. At(r, "delete_all", "delete") /\ RequestLists(r)
        BY <1>13 DEF DeleteAllDeletes, ListInv
    <2>3. CASE t[2] = "own"
        <3>1. DeleteOwn(t[1], r, rest) /\ child' = child
            BY <1>13, <2>3 DEF DeleteAllDeletes
        <3>2. t[1] \in ChatIds /\ t = <<t[1], "own">>
            BY <2>1, <2>3
        <3> HIDE DEF rest
        <3>3. rest.todo = req[r].todo \ {<<t[1], "own">>}
            BY <2>1, <3>2
        <3>4. rest.op # "put"
            BY <2>1
        <3>5. QED
            BY <1>1, <2>1, <2>2, <3>1, <3>2, <3>3, <3>4, DeleteOwnLists
    <2>4. CASE t[2] # "own"
        <3>1. /\ req' = [req EXCEPT ![r] = rest]
              /\ child' = [child EXCEPT ![t[1]] = {}]
              /\ UNCHANGED <<own, run>>
            BY <1>13, <2>4 DEF DeleteAllDeletes
        <3>2. t[1] \in ChatIds /\ t = <<t[1], "child">>
            BY <2>1, <2>4
        <3> HIDE DEF rest
        <3>3. /\ child'[t[1]] = {}
              /\ \A c \in ChatIds : c # t[1] => child'[c] = child[c]
              /\ \A c \in ChatIds : child'[c] \subseteq child[c]
            BY <1>1, <3>1, <3>2 DEF TypeInv, TypeOK
        <3>4. req'[r] = rest /\ \A x \in Requests : x # r => req'[x] = req[x]
            BY <1>1, <3>1 DEF TypeInv, TypeOK
        <3>5. ASSUME NEW c \in ChatIds, Live(c)' => Live(c)
              PROVE  TodoOf(r, c)'
            <4>1. TodoOf(r, c)
                BY <2>2 DEF RequestLists
            <4>2. <<c, "own">> # t /\ (c # t[1] => <<c, "child">> # t)
                BY <3>2
            <4>3. Live(c)' => Live(c)
                BY <3>5
            <4>4. c # t[1] \/ child'[c] = {}
                BY <3>3
            <4>5. req'[r].wrote = req[r].wrote /\ req'[r].todo = req[r].todo \ {t}
                BY <2>1, <3>4
            <4>6. QED
                BY <3>3, <4>1, <4>2, <4>3, <4>4, <4>5 DEF TodoOf
        <3>6. (\A c \in ChatIds : Live(c)' => Live(c)) => RequestLists(r)'
            BY <3>5 DEF RequestLists
        <3>7. ~At(r, "put", "write")'
            BY <2>1, <3>4 DEF At
        <3>8. QED
            BY <1>1, <3>1, <3>3, <3>4, <3>6, <3>7, RequestStepLists
    <2>5. QED
        BY <2>3, <2>4
<1>14. QED
    BY <1>7, <1>8, <1>9, <1>10, <1>11, <1>12, <1>13 DEF Request

\* After a restart there are no requests or runs, and the threads are as they were or
\* gone with the memory.
LEMMA RestartLists == ListInv /\ Restart => ListInv'
<1> SUFFICES ASSUME ListInv, Restart
             PROVE  ListInv'
    OBVIOUS
<1>1. TypeInv'
    BY RestartKeepsType DEF ListInv
<1>2. \A r \in Requests : ~At(r, "put", "write")' /\ ~At(r, "delete_all", "delete")'
    BY DEF Restart, At, Free
<1>3. \A c \in ChatIds : ~run'[c].on
    BY DEF Restart, NoRun
<1>4. \A c \in ChatIds : own'[c] = own[c] \/ own'[c] = {}
    BY DEF Restart
<1>5. ASSUME NEW c \in ChatIds
      PROVE  ListOf(c)'
    <2>1. ASSUME NEW z \in Held(c)'
          PROVE  z \in own'[c]
        BY <1>2, <2>1, HeldFacts
    <2>2. CASE own'[c] = own[c]
        <3>1. \A z \in Held(c)' : z \in Held(c)
            BY <2>1, <2>2 DEF Held
        <3>2. QED
            BY <1>3, <2>2, <3>1, TwinsKeepList DEF Twins
    <2>3. CASE own'[c] = {}
        <3>1. Held(c)' = {}
            BY <2>1, <2>3
        <3>2. QED
            BY <3>1 DEF ListOf, Rising, Stored, Live
    <2>4. QED
        BY <1>4, <2>2, <2>3
<1>6. \A r \in Requests : RequestLists(r)'
    BY <1>2 DEF RequestLists
<1>7. QED
    BY <1>1, <1>5, <1>6 DEF ListInv

\* Every step leaves the chats in order.
LEMMA NextLists == ListInv /\ [Next]_vars => ListInv'
<1>1. ListInv /\ UNCHANGED vars => ListInv'
    <2> SUFFICES ASSUME ListInv, UNCHANGED vars
                 PROVE  ListInv'
        OBVIOUS
    <2>1. TypeInv' /\ own' = own /\ run' = run /\ req' = req /\ child' = child
        BY NextTypeInv DEF ListInv, vars
    <2>2. ASSUME NEW c \in ChatIds, NEW z \in Held(c)'
          PROVE  z \in Held(c)
        BY <2>1, <2>2 DEF Held, At
    <2>3. \A c \in ChatIds : ListOf(c)' /\ (Live(c)' => Live(c))
        BY <2>1, <2>2, TwinsKeepList DEF Twins
    <2>4. \A r \in Requests : RequestLists(r)'
        BY <2>1, <2>3, TodoKept
    <2>5. QED
        BY <2>1, <2>3, <2>4 DEF ListInv
<1>2. QED
    BY <1>1, RunsList, RequestsList, RestartLists DEF Next

\* A chat is listed by what it is found by, its newest checkpoint.
LEMMA ListsFound ==
    ASSUME TypeInv, NEW c \in ChatIds, ListOf(c)
    PROVE  FetchChats(c) = FetchChat(c)
<1> DEFINE full == {x \in own[c] : ~IsEmptyChat(x)}
<1>1. /\ own[c] \in SUBSET Checkpoints
      /\ Ordered(own[c], clock[c])
      /\ HasNewest(own[c])
      /\ clock[c] \in Nat
    BY ChatsAssumption DEF TypeInv, TypeOK
<1>2. CASE own[c] = {}
    <2>1. NewestOf(own[c]) = {} /\ NewestOf(full) = {}
        BY <1>2 DEF NewestOf
    <2>2. Newest(c) = NoCheckpoint
        BY <2>1 DEF Newest
    <2>3. IsEmptyChat(Newest(c))
        BY <2>2 DEF IsEmptyChat, Value, NoCheckpoint
    <2>4. QED
        BY <2>1, <2>3 DEF FetchChats, FetchChat
<1>3. CASE own[c] # {}
    <2>1. PICK last \in own[c] : \A x \in own[c] : x.id <= last.id
        BY <1>1, <1>3 DEF HasNewest, NewestOf
    <2>2. NewestOf(own[c]) = {last}
        BY <1>1, <2>1, MaxIsNewest
    <2>3. Newest(c) = last
        BY <2>2, ShowsNewest
    <2>4. CASE IsEmptyChat(last)
        <3>1. full = {}
            BY <2>1, <2>4 DEF ListOf, Rising, Held
        <3>2. NewestOf(full) = {}
            BY <3>1 DEF NewestOf
        <3>3. QED
            BY <2>3, <2>4, <3>2 DEF FetchChats, FetchChat
    <2>5. CASE ~IsEmptyChat(last)
        <3>1. full \in SUBSET Checkpoints /\ Ordered(full, clock[c])
            BY <1>1 DEF Ordered
        <3>2. last \in full /\ \A x \in full : x.id <= last.id
            BY <2>1, <2>5
        <3> HIDE DEF full
        <3>3. NewestOf(full) = {last}
            BY <1>1, <3>1, <3>2, MaxIsNewest
        <3>4. FetchChats(c) = {NameOf(last)}
            BY <3>3 DEF FetchChats, full
        <3>5. QED
            BY <2>3, <2>5, <3>4 DEF FetchChat
    <2>6. QED
        BY <2>4, <2>5
<1>4. QED
    BY <1>2, <1>3

\* The list of chats and each chat agree in every behaviour: fetch_chats skips
\* checkpoints without messages, and deletions and renames leave them only where no
\* older one has any.
THEOREM ListShowsChats == Spec => []ListedIsFound
<1>1. ListInv => ListedIsFound
    BY ListsFound DEF ListInv, ListedIsFound
<1>2. QED
    BY <1>1, InitListInv, NextLists, PTL DEF Spec

\* A request that has deleted all chats leaves only what runs have written since it
\* began, in every behaviour: a rename brings nothing back that it has read.
THEOREM AllAreDeleted == Spec => DeleteAllDeletesAll
<1>1. ASSUME ListInv, NEW r \in Requests, DeleteAllEnds(r), NEW c \in ChatIds,
             FetchChats(c) # {} \/ child[c] # {}
      PROVE  c \in req[r].wrote
    <2>1. TodoOf(r, c) /\ req[r].todo = {}
        BY <1>1 DEF DeleteAllEnds, ListInv, RequestLists
    <2>2. FetchChats(c) # {} => Live(c)
        BY DEF FetchChats, NewestOf, Live, Held
    <2>3. QED
        BY <1>1, <2>1, <2>2 DEF TodoOf
<1> DEFINE Ends == \A r \in Requests : DeleteAllEnds(r) =>
               \A c \in ChatIds : FetchChats(c) # {} \/ child[c] # {} => c \in req[r].wrote
<1>2. ListInv => Ends
    BY <1>1
<1>3. QED
    BY <1>2, InitListInv, NextLists, PTL DEF Spec, DeleteAllDeletesAll
=============================================================================
