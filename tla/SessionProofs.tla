---------------------------- MODULE SessionProofs ----------------------------
(***************************************************************************)
(* Theorems about a websocket session: the type of its state, that every   *)
(* message the client sent is accounted for and handled in order, although *)
(* four places of the code read the socket, and what a turn that ends      *)
(* leaves in the thread.                                                   *)
(***************************************************************************)
EXTENDS Session, TLAPS

\* The messages read from the socket so far are 1..NRead.
NRead == Len(sent) - Len(socket)

\* The socket holds the messages that were not read, in order.
SocketOK ==
    /\ sent \in Seq(Kinds) /\ Len(sent) <= MaxMessages
    /\ socket \in Seq(Ids) /\ Len(socket) <= Len(sent)
    /\ \A k \in 1..Len(socket) : socket[k] = NRead + k

\* The type of the endpoint's local state.
RunOK ==
    /\ agent \in Agents
    /\ loop \in {"receiving", "refresh", "oauth", "running", "notify", "close", "record"}
    /\ current \in Ids \cup {NoMessage} /\ next_request \in Ids \cup {NoMessage}
    /\ receiver \in Ids \cup {NoMessage}
    /\ stream \in {"off", "starting", "running", "done", "raised", "oauth"}
    /\ resumes \in BOOLEAN

\* The type of the agent's thread.
ThreadOK ==
    /\ messages \subseteq Ids /\ history \subseteq Ids
    /\ tail \in {"none", "human", "call", "result", "ai"}
    /\ waits \in {"none", "interrupt", "question"}

\* Where the messages are that were read and have no outcome.
PlacesOK ==
    /\ loop = "receiving" => current = NoMessage
    /\ current = NoMessage => loop \in Connected
    /\ loop \in {"receiving", "refresh", "oauth"} => receiver = NoMessage
    /\ loop \in {"notify", "close", "record"} => receiver # NoMessage
    /\ loop \in {"close", "record"} => sent[receiver] # "malformed"
    /\ current <= NRead
    /\ receiver # NoMessage => receiver = NRead /\ current < receiver
    /\ next_request # NoMessage => next_request = NRead /\ loop = "receiving"

Outcomes == {"none", "handled", "failed", "stopped", "dropped", "cut"}

\* A message has no outcome just while it is in the socket, or in one of the places.
OutcomeOK ==
    /\ outcome \in [Ids -> Outcomes]
    /\ \A i \in Ids : outcome[i] = "none" <=> i > NRead \/ i \in {current, receiver, next_request}

OrderInv == SocketOK /\ RunOK /\ ThreadOK /\ PlacesOK /\ OutcomeOK

\* Numbers of messages, for any bound.
LEMMA IdFacts == MaxMessages \in Nat /\ Ids \subseteq Nat /\ NoMessage \notin Ids /\ \A i \in Ids : i >= 1
    BY SessionAssumption DEF Ids, NoMessage

\* The state has its type when the order is kept.
LEMMA OrderType == OrderInv => TypeOK
    BY DEF OrderInv, SocketOK, RunOK, ThreadOK, PlacesOK, OutcomeOK, Outcomes, TypeOK

\* Nothing was sent initially.
LEMMA InitOrder == Init => OrderInv
<1> SUFFICES ASSUME Init
             PROVE  OrderInv
    OBVIOUS
<1>1. Len(sent) = 0 /\ Len(socket) = 0 /\ NRead = 0
    BY DEF Init, NRead
<1>2. SocketOK
    BY <1>1, IdFacts DEF Init, SocketOK
<1>3. RunOK /\ ThreadOK /\ PlacesOK
    <2>1. RunOK
        BY DEF Init, RunOK, Connected, FirstStages
    <2>2. ThreadOK
        BY DEF Init, ThreadOK
    <2>3. PlacesOK
        BY <1>1 DEF Init, PlacesOK, Connected, FirstStages, NoMessage
    <2>4. QED
        BY <2>1, <2>2, <2>3
<1>4. OutcomeOK
    BY <1>1, IdFacts DEF Init, OutcomeOK, Outcomes, NoMessage
<1>5. QED
    BY <1>2, <1>3, <1>4 DEF OrderInv

\* Whoever reads the socket gets the first message that was not read.
LEMMA ReadsNext ==
    ASSUME SocketOK, socket # << >>, sent' = sent, socket' = Tail(socket)
    PROVE  /\ SocketOK' /\ NRead' = NRead + 1 /\ NRead \in Nat
           /\ Head(socket) = NRead + 1 /\ Head(socket) \in Ids
           /\ Head(socket) \in 1..Len(sent)
<1>1. Len(socket) \in Nat \ {0} /\ Len(sent) \in Nat
    BY DEF SocketOK
<1>2. Tail(socket) \in Seq(Ids) /\ Len(Tail(socket)) = Len(socket) - 1
    BY DEF SocketOK
<1>3. NRead' = NRead + 1 /\ NRead \in Nat
    BY <1>1, <1>2 DEF NRead, SocketOK
<1>4. \A k \in 1..(Len(socket) - 1) : Tail(socket)[k] = socket[k + 1]
    BY <1>1 DEF SocketOK
<1>5. \A k \in 1..Len(socket') : socket'[k] = NRead' + k
    BY <1>1, <1>2, <1>3, <1>4 DEF SocketOK
<1>6. Head(socket) = socket[1] /\ socket[1] \in Ids /\ socket[1] = NRead + 1
    BY <1>1 DEF SocketOK
<1>7. Head(socket) \in 1..Len(sent)
    BY <1>1, <1>3, <1>6 DEF NRead
<1>8. QED
    BY <1>1, <1>2, <1>3, <1>5, <1>6, <1>7 DEF SocketOK

\* A step that does not touch the socket reads nothing.
LEMMA ReadsNothing ==
    ASSUME SocketOK, sent' = sent, socket' = socket
    PROVE  SocketOK' /\ NRead' = NRead /\ NRead \in Nat /\ NRead <= Len(sent) /\ Len(sent) \in Nat
    BY DEF SocketOK, NRead

\* What the client sends is read last.
LEMMA ClientOrder ==
    ASSUME OrderInv, Client
    PROVE  OrderInv'
<1>1. PICK kind \in Kinds : ClientSends(kind)
    BY DEF Client
<1>2. /\ Len(sent) < MaxMessages /\ sent' = Append(sent, kind)
      /\ socket' = Append(socket, Len(sent) + 1)
      /\ UNCHANGED <<agent, loop, current, next_request, stream, receiver, resumes,
                     messages, history, tail, waits, outcome>>
    BY <1>1 DEF ClientSends, run, thread
<1>3. Len(sent) \in Nat /\ Len(socket) \in Nat /\ Len(sent) + 1 \in Ids
    BY <1>2, IdFacts DEF OrderInv, SocketOK, Ids
<1>4. /\ sent' \in Seq(Kinds) /\ Len(sent') = Len(sent) + 1
      /\ socket' \in Seq(Ids) /\ Len(socket') = Len(socket) + 1
    BY <1>2, <1>3 DEF OrderInv, SocketOK
<1>5. NRead' = NRead /\ NRead \in Nat
    BY <1>3, <1>4 DEF NRead, OrderInv, SocketOK
<1>6. \A k \in 1..Len(socket') : socket'[k] = NRead' + k
    <2> SUFFICES ASSUME NEW k \in 1..(Len(socket) + 1)
                 PROVE  socket'[k] = NRead + k
        BY <1>4, <1>5
    <2>1. CASE k = Len(socket) + 1
        BY <1>2, <1>3, <2>1 DEF NRead, OrderInv, SocketOK
    <2>2. CASE k \in 1..Len(socket)
        BY <1>2, <1>3, <2>2 DEF OrderInv, SocketOK
    <2>3. QED
        BY <1>3, <2>1, <2>2
<1>7. SocketOK'
    BY <1>2, <1>3, <1>4, <1>6, IdFacts DEF OrderInv, SocketOK
<1>8. receiver # NoMessage => sent'[receiver] = sent[receiver]
    <2>1. receiver # NoMessage => receiver = NRead /\ receiver \in Ids
        BY DEF OrderInv, PlacesOK, RunOK
    <2>2. receiver # NoMessage => receiver \in 1..Len(sent)
        BY <1>3, <1>5, <2>1, IdFacts DEF OrderInv, SocketOK, NRead
    <2>3. QED
        BY <1>2, <1>3, <2>2 DEF OrderInv, SocketOK
<1>9. RunOK' /\ ThreadOK' /\ PlacesOK' /\ OutcomeOK'
    <2>1. RunOK' /\ ThreadOK' /\ OutcomeOK'
        BY <1>2, <1>5 DEF OrderInv, RunOK, ThreadOK, OutcomeOK
    <2>2. loop' \in {"close", "record"} => sent'[receiver'] # "malformed"
        BY <1>2, <1>8 DEF OrderInv, PlacesOK
    <2>3. PlacesOK'
        BY <1>2, <1>5, <2>2 DEF OrderInv, PlacesOK, Connected, LogsInFirst
    <2>4. QED
        BY <2>1, <2>3
<1>10. QED
    BY <1>7, <1>9 DEF OrderInv

\* What the agent does changes its thread and its stream, and reads nothing.
LEMMA StreamOrder ==
    ASSUME OrderInv, Stream
    PROVE  OrderInv'
<1>1. UNCHANGED <<agent, sent, socket, loop, current, next_request, receiver, resumes, outcome>>
    BY DEF Stream, StreamStarts, StreamCalls, StreamReturns, StreamInterrupts, StreamNeedsOauth2,
           StreamEnds, StreamRaises, StreamReplies, ThreadOnly
<1>2. SocketOK' /\ NRead' = NRead
    BY <1>1, ReadsNothing DEF OrderInv
<1>3. PlacesOK' /\ OutcomeOK'
    BY <1>1, <1>2 DEF OrderInv, PlacesOK, Connected, LogsInFirst, OutcomeOK
<1>4. stream' \in {"off", "starting", "running", "done", "raised", "oauth"}
    BY DEF Stream, StreamStarts, StreamCalls, StreamReturns, StreamInterrupts, StreamNeedsOauth2,
           StreamEnds, StreamRaises, StreamReplies, OrderInv, RunOK
<1>5. RunOK'
    BY <1>1, <1>4 DEF OrderInv, RunOK
<1>6. ThreadOK'
    <2>1. CASE StreamStarts
        <3>1. current \in Ids
            BY <2>1 DEF StreamStarts, OrderInv, PlacesOK, Connected, FirstStages, RunOK
        <3>2. QED
            BY <2>1, <3>1 DEF StreamStarts, OrderInv, ThreadOK
    <2>2. CASE StreamCalls \/ StreamReturns \/ StreamInterrupts
        BY <2>2 DEF StreamCalls, StreamReturns, StreamInterrupts, Remembered, OrderInv, ThreadOK
    <2>3. CASE StreamNeedsOauth2 \/ StreamEnds \/ StreamRaises
        BY <2>3 DEF StreamNeedsOauth2, StreamEnds, StreamRaises, thread, OrderInv, ThreadOK
    <2>4. CASE \E asks \in BOOLEAN : StreamReplies(asks)
        BY <2>4 DEF StreamReplies, Remembered, OrderInv, ThreadOK
    <2>5. QED
        BY <2>1, <2>2, <2>3, <2>4 DEF Stream
<1>7. QED
    BY <1>2, <1>3, <1>5, <1>6 DEF OrderInv

\* A lost connection settles all that was sent.
LEMMA DisconnectOrder ==
    ASSUME OrderInv, Disconnect
    PROVE  OrderInv'
<1>1. /\ socket' = << >> /\ loop' \in Connected /\ stream' = "off" /\ current' = NoMessage
      /\ next_request' = NoMessage /\ receiver' = NoMessage
      /\ UNCHANGED <<agent, sent, resumes, messages, history, tail, waits>>
      /\ outcome' = [i \in Ids |-> IF outcome[i] = "none" /\ i <= Len(sent) THEN "cut" ELSE outcome[i]]
    BY DEF Disconnect, thread
<1>2. Len(sent) \in Nat /\ NRead' = Len(sent) /\ NRead \in Nat /\ NRead <= Len(sent) /\ Len(socket') = 0
    BY <1>1 DEF OrderInv, SocketOK, NRead
<1>3. SocketOK'
    BY <1>1, <1>2 DEF OrderInv, SocketOK
<1>4. RunOK' /\ ThreadOK' /\ PlacesOK'
    BY <1>1, <1>2 DEF OrderInv, RunOK, ThreadOK, PlacesOK, Connected, LogsInFirst, FirstStages, NoMessage
<1>5. ASSUME NEW i \in Ids
      PROVE  outcome'[i] \in Outcomes /\ (outcome'[i] = "none" <=> i > NRead')
    <2>1. i \in Nat /\ i # 0
        BY IdFacts DEF NoMessage
    <2>2. outcome'[i] = IF outcome[i] = "none" /\ i <= Len(sent) THEN "cut" ELSE outcome[i]
        BY <1>1
    <2>3. i > Len(sent) => outcome[i] = "none"
        BY <1>2, <2>1 DEF OrderInv, OutcomeOK
    <2>4. outcome[i] \in Outcomes
        BY DEF OrderInv, OutcomeOK
    <2>5. QED
        BY <1>2, <2>1, <2>2, <2>3, <2>4 DEF Outcomes
<1>6. OutcomeOK'
    BY <1>1, <1>5, IdFacts DEF OutcomeOK
<1>7. QED
    BY <1>3, <1>4, <1>6 DEF OrderInv

\* The endpoint takes the first message that has no outcome.
LEMMA TakesNext ==
    ASSUME OrderInv, loop = "receiving", NEW i \in Ids, NEW rest, Takes(i, rest),
           sent' = sent, socket' = rest
    PROVE  /\ SocketOK' /\ NRead' = i /\ i \in 1..Len(sent)
           /\ \A j \in Ids : outcome[j] = "none" <=> j >= i
<1>1. current = NoMessage /\ receiver = NoMessage /\ SocketOK /\ NRead \in Nat
    BY ReadsNothing DEF OrderInv, PlacesOK, SocketOK, NRead
<1>2. \A j \in Ids : outcome[j] = "none" <=> j > NRead \/ j = next_request
    BY <1>1, IdFacts DEF OrderInv, OutcomeOK
<1>3. CASE next_request # NoMessage
    <2>1. i = next_request /\ i = NRead /\ socket' = socket
        BY <1>3 DEF Takes, OrderInv, PlacesOK
    <2>2. SocketOK' /\ NRead' = NRead /\ NRead <= Len(sent) /\ Len(sent) \in Nat
        BY <1>1, <2>1, ReadsNothing
    <2>3. \A j \in Ids : outcome[j] = "none" <=> j >= i
        BY <1>1, <1>2, <2>1, IdFacts
    <2>4. QED
        BY <2>1, <2>2, <2>3, IdFacts
<1>4. CASE next_request = NoMessage
    <2>1. socket # << >> /\ i = Head(socket) /\ socket' = Tail(socket)
        BY <1>4 DEF Takes
    <2>2. SocketOK' /\ NRead' = NRead + 1 /\ i = NRead + 1 /\ i \in 1..Len(sent)
        BY <1>1, <2>1, ReadsNext
    <2>3. \A j \in Ids : outcome[j] = "none" <=> j >= i
        BY <1>1, <1>2, <1>4, <2>2, IdFacts
    <2>4. QED
        BY <2>2, <2>3
<1>5. QED
    BY <1>3, <1>4

\* What the loop does with the next message keeps the order.
LEMMA HandleOrder ==
    ASSUME OrderInv, HandleRequest \/ HandleStop \/ ParseFails
    PROVE  OrderInv'
<1>1. PICK i \in Ids : Receives(i) /\ \/ HandleRequest /\ current' = i
                                      \/ HandleStop /\ End(i, "handled")
                                      \/ ParseFails /\ End(i, "failed")
    BY DEF HandleRequest, HandleStop, ParseFails
<1>2. /\ loop = "receiving" /\ next_request' = NoMessage /\ agent' = agent /\ sent' = sent
      /\ \E rest : Takes(i, rest) /\ socket' = rest
    BY <1>1 DEF Receives, HandleRequest, HandleStop, ParseFails
<1>3. /\ SocketOK' /\ NRead' = i /\ i \in 1..Len(sent)
      /\ \A j \in Ids : outcome[j] = "none" <=> j >= i
    BY <1>2, TakesNext
<1>4. current = NoMessage /\ receiver = NoMessage /\ i # NoMessage /\ i \in Nat
    BY <1>2, IdFacts DEF OrderInv, PlacesOK
<1>5. CASE HandleRequest /\ current' = i
    <2>1. /\ current' = i /\ loop' \in {"running"} \cup FirstStages
          /\ stream' = "starting" /\ receiver' = NoMessage /\ resumes' = (waits = "interrupt")
          /\ UNCHANGED <<messages, history, tail, waits, outcome>>
        BY <1>5 DEF HandleRequest, thread
    <2>2. resumes' \in BOOLEAN
        BY <2>1, Zenon
    <2>3. RunOK'
        BY <1>2, <2>1, <2>2 DEF OrderInv, RunOK, FirstStages
    <2>4. ThreadOK'
        BY <2>1 DEF OrderInv, ThreadOK
    <2>5. PlacesOK'
        BY <1>2, <1>3, <1>4, <2>1 DEF PlacesOK, FirstStages
    <2>6. OutcomeOK'
        BY <1>2, <1>3, <1>4, <2>1, IdFacts DEF OrderInv, OutcomeOK
    <2>7. QED
        BY <1>3, <2>3, <2>4, <2>5, <2>6 DEF OrderInv
<1>6. ASSUME NEW how \in {"handled", "failed"}, End(i, how), HandleStop \/ ParseFails
      PROVE  OrderInv'
    <2>1. /\ outcome' = [outcome EXCEPT ![i] = how]
          /\ UNCHANGED <<loop, current, stream, receiver, resumes, messages, history>>
        BY <1>6 DEF HandleStop, ParseFails, End, thread
    <2>2. tail' \in {tail, "ai"} /\ waits' \in {waits, "none"}
        BY <1>6 DEF HandleStop, ParseFails, ForceClose, thread
    <2>3. RunOK' /\ ThreadOK'
        BY <1>2, <2>1, <2>2 DEF OrderInv, RunOK, ThreadOK
    <2>4. PlacesOK'
        BY <1>2, <1>3, <1>4, <2>1 DEF OrderInv, PlacesOK, Connected, LogsInFirst, NoMessage
    <2>5. \A j \in Ids : outcome'[j] = IF j = i THEN how ELSE outcome[j]
        BY <2>1 DEF OrderInv, OutcomeOK
    <2>6. OutcomeOK'
        BY <1>2, <1>3, <1>4, <2>1, <2>5, IdFacts DEF OrderInv, OutcomeOK, Outcomes
    <2>7. QED
        BY <1>3, <2>3, <2>4, <2>6 DEF OrderInv
<1>7. QED
    BY <1>1, <1>5, <1>6

\* What the session does with a run keeps the order: the receiver reads the next
\* message, which is dropped with it, answered with the run, or handled next.
LEMMA RunOrder ==
    ASSUME OrderInv, \/ ReceiverReads \/ RunFinishes \/ RunIsCut \/ NotifyClient \/ CutParseFails
                     \/ CloseThread \/ RecordStopped \/ OauthStarts
    PROVE  OrderInv'
<1>1. SocketOK /\ RunOK /\ ThreadOK /\ PlacesOK /\ OutcomeOK
    BY DEF OrderInv
<1>2. NRead \in Nat /\ current \in Nat /\ receiver \in Nat
    BY <1>1, IdFacts DEF SocketOK, NRead, RunOK, NoMessage
<1>3. ASSUME sent' = sent, socket' = socket
      PROVE  SocketOK' /\ NRead' = NRead
    BY <1>1, <1>3, ReadsNothing
<1>4. CASE ReceiverReads
    <2>1. /\ loop = "running" /\ socket # << >> /\ receiver = NoMessage /\ receiver' = Head(socket)
          /\ socket' = Tail(socket)
          /\ UNCHANGED <<agent, sent, loop, current, next_request, stream, resumes, messages, history, tail, waits, outcome>>
        BY <1>4 DEF ReceiverReads, thread
    <2>2. SocketOK' /\ NRead' = NRead + 1 /\ receiver' = NRead + 1 /\ receiver' \in Ids
        BY <1>1, <2>1, ReadsNext
    <2>3. next_request = NoMessage
        BY <1>1, <2>1 DEF PlacesOK
    <2>4. RunOK' /\ ThreadOK'
        BY <1>1, <2>1, <2>2 DEF RunOK, ThreadOK
    <2>5. PlacesOK'
        BY <1>1, <1>2, <2>1, <2>2, <2>3, IdFacts DEF PlacesOK, Connected, LogsInFirst, RunOK, NoMessage
    <2>6. OutcomeOK'
        BY <1>1, <1>2, <2>1, <2>2, <2>3, IdFacts DEF OutcomeOK
    <2>7. QED
        BY <2>2, <2>4, <2>5, <2>6 DEF OrderInv
<1>5. CASE RunFinishes
    <2> DEFINE how == IF stream = "done" THEN "handled" ELSE "failed"
    <2>1. /\ loop' = "receiving" /\ stream' = "off" /\ receiver' = NoMessage /\ current' = NoMessage
          /\ UNCHANGED <<agent, sent, socket, next_request, resumes, messages, history, tail, waits>>
          /\ outcome' = Dropped([outcome EXCEPT ![current] = how]) /\ loop = "running"
        BY <1>5 DEF RunFinishes, ReceiverIsCancelled, thread
    <2>2. next_request = NoMessage /\ current \in Ids
        BY <1>1, <2>1 DEF PlacesOK, Connected, FirstStages, RunOK
    <2>3. \A j \in Ids : outcome'[j] = IF j = receiver THEN "dropped" ELSE IF j = current THEN how ELSE outcome[j]
        BY <1>1, <2>1, IdFacts DEF Dropped, OutcomeOK
    <2>4. outcome' \in [Ids -> Outcomes]
        <3>1. [outcome EXCEPT ![current] = how] \in [Ids -> Outcomes]
            BY <1>1 DEF OutcomeOK, Outcomes
        <3>2. QED
            BY <2>1, <3>1 DEF Dropped, Outcomes
    <2>5. OutcomeOK'
        <3>1. current <= NRead /\ receiver <= NRead /\ NRead' = NRead /\ how # "none"
            BY <1>1, <1>2, <1>3, <2>1 DEF PlacesOK, NoMessage
        <3>2. ASSUME NEW j \in Ids
              PROVE  outcome'[j] = "none" <=> j > NRead
            <4>1. outcome[j] = "none" <=> j > NRead \/ j \in {current, receiver}
                BY <1>1, <2>2, IdFacts DEF OutcomeOK
            <4>2. QED
                BY <1>2, <2>3, <3>1, <4>1, IdFacts
        <3>3. QED
            BY <2>1, <2>2, <2>4, <3>1, <3>2, IdFacts DEF OutcomeOK
    <2>6. RunOK' /\ ThreadOK' /\ PlacesOK'
        BY <1>1, <1>2, <1>3, <2>1, <2>2 DEF RunOK, ThreadOK, PlacesOK, Connected, LogsInFirst, NoMessage
    <2>7. QED
        BY <1>3, <2>1, <2>5, <2>6 DEF OrderInv
<1>6. CASE RunIsCut \/ NotifyClient \/ CloseThread
    <2>1. /\ UNCHANGED <<agent, sent, socket, current, next_request, receiver, resumes, messages, history, outcome>>
          /\ loop' \in {"notify", "close", "record"} /\ current # NoMessage
          /\ stream' \in {stream, "off"} /\ tail' \in {tail, "ai"} /\ waits' \in {waits, "none"}
          /\ receiver # NoMessage
          /\ loop' \in {"close", "record"} => sent[receiver] # "malformed"
        BY <1>1, <1>6 DEF RunIsCut, Cut, NotifyClient, CloseThread, ForceClose, run, thread, PlacesOK, Connected, FirstStages
    <2>2. QED
        BY <1>1, <1>3, <2>1 DEF OrderInv, RunOK, ThreadOK, PlacesOK, Connected, LogsInFirst, OutcomeOK
<1>7. CASE RecordStopped
    <2> DEFINE how == IF sent[receiver] = "stop" THEN "handled" ELSE outcome[receiver]
    <2>1. /\ loop = "record" /\ loop' = "receiving" /\ current' = NoMessage /\ receiver' = NoMessage
          /\ next_request' = IF sent[receiver] = "stop" THEN NoMessage ELSE receiver
          /\ history' = history \cup (messages \cap {current})
          /\ UNCHANGED <<agent, sent, socket, stream, resumes, messages, tail, waits>>
        BY <1>7 DEF RecordStopped, RecordsRequest, Preempting
    <2>2. /\ current \in Ids /\ receiver \in Ids /\ receiver = NRead /\ current < receiver
          /\ next_request = NoMessage
        BY <1>1, <2>1 DEF PlacesOK, Connected, FirstStages, RunOK
    <2>3. outcome' = [outcome EXCEPT ![current] = "stopped", ![receiver] = how]
        BY <1>1, <1>2, <1>7, <2>2 DEF RecordStopped, OutcomeOK
    <2>4. \A j \in Ids : outcome'[j] = IF j = receiver THEN how ELSE IF j = current THEN "stopped" ELSE outcome[j]
        BY <1>1, <2>2, <2>3 DEF OutcomeOK
    <2>5. how \in Outcomes
        BY <1>1, <2>2 DEF OutcomeOK, Outcomes
    <2>6. outcome' \in [Ids -> Outcomes]
        BY <1>1, <2>2, <2>3, <2>5 DEF OutcomeOK, Outcomes
    <2>7. outcome[receiver] = "none"
        BY <1>1, <2>2 DEF OutcomeOK
    <2>8. OutcomeOK'
        BY <1>1, <1>2, <1>3, <2>1, <2>2, <2>4, <2>6, <2>7, IdFacts DEF OutcomeOK
    <2>9. RunOK' /\ ThreadOK' /\ PlacesOK'
        BY <1>1, <1>2, <1>3, <2>1, <2>2 DEF RunOK, ThreadOK, PlacesOK, Connected, LogsInFirst, NoMessage
    <2>10. QED
        BY <1>3, <2>1, <2>8, <2>9 DEF OrderInv
<1>8. CASE OauthStarts
    <2>1. /\ loop = "running" /\ loop' \in FirstStages /\ receiver' = NoMessage /\ outcome' = Dropped(outcome)
          /\ UNCHANGED <<agent, sent, socket, current, next_request, stream, resumes, messages, history, tail, waits>>
        BY <1>8 DEF OauthStarts, thread
    <2>2. next_request = NoMessage /\ current \in Ids
        BY <1>1, <2>1 DEF PlacesOK, Connected, FirstStages, RunOK
    <2>3. \A j \in Ids : outcome'[j] = IF j = receiver THEN "dropped" ELSE outcome[j]
        BY <1>1, <2>1, IdFacts DEF Dropped, OutcomeOK
    <2>4. outcome' \in [Ids -> Outcomes]
        BY <1>1, <2>1 DEF Dropped, OutcomeOK, Outcomes
    <2>5. current # receiver
        BY <1>1, <1>2, <2>2, IdFacts DEF PlacesOK
    <2>6. OutcomeOK'
        <3>1. current <= NRead /\ receiver <= NRead /\ NRead' = NRead
            BY <1>1, <1>2, <1>3, <2>1 DEF PlacesOK, NoMessage
        <3>2. ASSUME NEW j \in Ids
              PROVE  outcome'[j] = "none" <=> j > NRead \/ j = current
            <4>1. outcome[j] = "none" <=> j > NRead \/ j \in {current, receiver}
                BY <1>1, <2>2, IdFacts DEF OutcomeOK
            <4>2. QED
                BY <1>2, <2>3, <2>5, <3>1, <4>1, IdFacts
        <3>3. QED
            BY <2>1, <2>2, <2>4, <3>1, <3>2, IdFacts DEF OutcomeOK
    <2>7. RunOK' /\ ThreadOK' /\ PlacesOK'
        BY <1>1, <1>2, <1>3, <2>1, <2>2 DEF RunOK, ThreadOK, PlacesOK, Connected, LogsInFirst, NoMessage, FirstStages
    <2>8. QED
        BY <1>3, <2>1, <2>6, <2>7 DEF OrderInv
<1>9. CASE CutParseFails
    <2>1. /\ loop = "notify" /\ loop' = "receiving" /\ current' = NoMessage /\ receiver' = NoMessage
          /\ UNCHANGED <<agent, sent, socket, next_request, stream, resumes, messages, history, tail, waits>>
          /\ outcome' = [outcome EXCEPT ![current] = "failed", ![receiver] = "failed"]
        BY <1>9 DEF CutParseFails, thread
    <2>2. next_request = NoMessage /\ current \in Ids /\ receiver \in Ids /\ receiver = NRead
        BY <1>1, <2>1 DEF PlacesOK, Connected, FirstStages, RunOK
    <2>3. \A j \in Ids : outcome'[j] = IF j \in {current, receiver} THEN "failed" ELSE outcome[j]
        BY <1>1, <2>1, <2>2 DEF OutcomeOK
    <2>4. outcome' \in [Ids -> Outcomes]
        BY <1>1, <2>1, <2>2 DEF OutcomeOK, Outcomes
    <2>5. OutcomeOK'
        <3>1. current <= NRead /\ NRead' = NRead
            BY <1>1, <1>3, <2>1 DEF PlacesOK
        <3>2. ASSUME NEW j \in Ids
              PROVE  outcome'[j] = "none" <=> j > NRead
            <4>1. outcome[j] = "none" <=> j > NRead \/ j \in {current, receiver}
                BY <1>1, <2>2, IdFacts DEF OutcomeOK
            <4>2. QED
                BY <1>2, <2>2, <2>3, <3>1, <4>1, IdFacts
        <3>3. QED
            BY <2>1, <2>2, <2>4, <3>1, <3>2, IdFacts DEF OutcomeOK
    <2>6. RunOK' /\ ThreadOK' /\ PlacesOK'
        BY <1>1, <1>2, <1>3, <2>1, <2>2 DEF RunOK, ThreadOK, PlacesOK, Connected, LogsInFirst, NoMessage
    <2>7. QED
        BY <1>3, <2>1, <2>5, <2>6 DEF OrderInv
<1>10. QED
    BY <1>4, <1>5, <1>6, <1>7, <1>8, <1>9

\* The OAuth2 exchange settles the message it reads, and the request if it fails.
LEMMA OauthOrder ==
    ASSUME OrderInv, RefreshFails \/ LoginEnds \/ OauthSucceeds \/ OauthFails \/ OauthReloadFails
    PROVE  OrderInv'
<1> DEFINE h == Head(socket)
<1>1. SocketOK /\ RunOK /\ ThreadOK /\ PlacesOK /\ OutcomeOK
    BY DEF OrderInv
<1>2. socket # << >> /\ socket' = Tail(socket) /\ sent' = sent /\ agent' = agent /\ Authenticating
    BY DEF RefreshFails, LoginEnds, OauthSucceeds, OauthFails, OauthReloadFails, RequestFails, Stage,
           Authenticating, FirstStages
<1>3. SocketOK' /\ NRead' = NRead + 1 /\ NRead \in Nat /\ h = NRead + 1 /\ h \in Ids
    BY <1>1, <1>2, ReadsNext
<1>4. current \in Ids \cup {NoMessage} /\ current <= NRead /\ receiver = NoMessage /\ next_request = NoMessage /\ current # h
    BY <1>1, <1>2, <1>3, IdFacts DEF Authenticating, FirstStages, PlacesOK, RunOK
<1>5. \A j \in Ids : outcome[j] = "none" <=> j >= h \/ j = current
    BY <1>1, <1>3, <1>4, IdFacts DEF OutcomeOK
<1>6. UNCHANGED <<next_request, receiver, resumes, messages, history>>
    BY DEF RefreshFails, LoginEnds, OauthSucceeds, OauthFails, OauthReloadFails, RequestFails, run, thread
<1>7. /\ stream' \in {stream, "running", "off"}
      /\ tail' \in {tail, "result"} /\ waits' \in {waits, "none"}
    BY DEF RefreshFails, LoginEnds, OauthSucceeds, OauthFails, OauthReloadFails, RequestFails, PatchesCall, run, thread
<1>8. CASE RefreshFails \/ LoginEnds \/ OauthSucceeds
    <2>1. PICK how \in {"handled", "dropped"} : outcome' = [outcome EXCEPT ![h] = how]
        BY <1>8 DEF RefreshFails, LoginEnds, OauthSucceeds, End
    <2>2. /\ current' = current /\ loop' \in {"receiving", "oauth", "running"}
          /\ loop' = "receiving" => current = NoMessage
          /\ loop' = "running" => current # NoMessage
          /\ current = NoMessage => LogsInFirst
        BY <1>1, <1>2, <1>8 DEF RefreshFails, LoginEnds, OauthSucceeds, run, PlacesOK, Connected, Stage, Authenticating, FirstStages
    <2>3. \A j \in Ids : outcome'[j] = IF j = h THEN how ELSE outcome[j]
        BY <1>1, <2>1 DEF OutcomeOK
    <2>4. outcome' \in [Ids -> Outcomes]
        BY <1>1, <1>3, <2>1 DEF OutcomeOK, Outcomes
    <2>5. ASSUME NEW j \in Ids
          PROVE  outcome'[j] = "none" <=> j > NRead' \/ j = current
        BY <1>3, <1>4, <1>5, <2>3, IdFacts
    <2>6. OutcomeOK'
        BY <1>4, <1>6, <2>2, <2>4, <2>5, IdFacts DEF OutcomeOK
    <2>7. RunOK' /\ ThreadOK'
        BY <1>1, <1>2, <1>4, <1>6, <1>7, <2>2 DEF RunOK, ThreadOK
    <2>8. PlacesOK'
        BY <1>2, <1>3, <1>4, <1>6, <2>2, IdFacts DEF PlacesOK, Connected, LogsInFirst, FirstStages
    <2>9. QED
        BY <1>3, <2>6, <2>7, <2>8 DEF OrderInv
<1>9. CASE OauthFails \/ OauthReloadFails
    <2>1. PICK how \in {"handled", "dropped"} : RequestFails([outcome EXCEPT ![h] = how])
        BY <1>9 DEF OauthFails, OauthReloadFails
    <2> current \in Ids
        BY <1>4, <1>9 DEF OauthFails, OauthReloadFails
    <2>2. /\ outcome' = [[outcome EXCEPT ![h] = how] EXCEPT ![current] = "failed"]
          /\ loop' = "receiving" /\ current' = NoMessage
        BY <2>1 DEF RequestFails
    <2>3. \A j \in Ids : outcome'[j] = IF j = current THEN "failed" ELSE IF j = h THEN how ELSE outcome[j]
        BY <1>1, <1>3, <1>4, <2>2 DEF OutcomeOK
    <2>4. outcome' \in [Ids -> Outcomes]
        <3>1. [outcome EXCEPT ![h] = how] \in [Ids -> Outcomes]
            BY <1>1 DEF OutcomeOK, Outcomes
        <3>2. QED
            BY <2>2, <3>1 DEF Outcomes
    <2>5. ASSUME NEW j \in Ids
          PROVE  outcome'[j] = "none" <=> j > NRead'
        BY <1>3, <1>4, <1>5, <2>3, IdFacts
    <2>6. OutcomeOK'
        BY <1>4, <1>6, <2>2, <2>4, <2>5, IdFacts DEF OutcomeOK
    <2>7. RunOK' /\ ThreadOK'
        BY <1>1, <1>2, <1>4, <1>6, <1>7, <2>2 DEF RunOK, ThreadOK
    <2>8. PlacesOK'
        BY <1>3, <1>4, <1>6, <2>2, IdFacts DEF PlacesOK, Connected, NoMessage
    <2>9. QED
        BY <1>3, <2>6, <2>7, <2>8 DEF OrderInv
<1>10. QED
    BY <1>8, <1>9

\* Every step keeps the order.
LEMMA NextOrder == OrderInv /\ [Next]_vars => OrderInv'
<1>1. OrderInv /\ UNCHANGED vars => OrderInv'
    BY DEF vars, run, thread, OrderInv, SocketOK, NRead, RunOK, ThreadOK, PlacesOK, Connected, LogsInFirst, OutcomeOK
<1>2. QED
    BY <1>1, ClientOrder, StreamOrder, HandleOrder, RunOrder, OauthOrder, DisconnectOrder DEF Next, Endpoint

\* The state has its type in every behaviour.
THEOREM TypeCorrect == Spec => []TypeOK
    BY InitOrder, NextOrder, OrderType, PTL DEF Spec

\* Nothing that the client sent is forgotten, in every behaviour, whoever reads it.
THEOREM NothingForgotten == Spec => []Accounted
<1>1. OrderInv => Accounted
    <2> SUFFICES ASSUME OrderInv, NEW i \in 1..Len(sent), outcome[i] = "none",
                        i \notin {current, receiver, next_request}
                 PROVE  \E k \in DOMAIN socket : socket[k] = i
        BY DEF Accounted
    <2>1. Len(sent) \in Nat /\ Len(socket) \in Nat /\ i \in Ids /\ NRead \in Nat
        BY IdFacts DEF OrderInv, SocketOK, Ids, NRead
    <2>2. i > NRead
        BY <2>1 DEF OrderInv, OutcomeOK
    <2>3. i - NRead \in 1..Len(socket)
        BY <2>1, <2>2 DEF NRead
    <2>4. socket[i - NRead] = i
        BY <2>1, <2>3 DEF OrderInv, SocketOK
    <2>5. QED
        BY <2>3, <2>4 DEF OrderInv, SocketOK
<1>2. QED
    BY <1>1, InitOrder, NextOrder, PTL DEF Spec

-----------------------------------------------------------------------------
(* What a turn leaves in the thread.                                       *)

\* A run that is over is answered, unless it waits for the user or authenticates; a
\* stopped one is closed before it is recorded; and what was stopped is shown.
TurnInv ==
    /\ stream = "done" /\ tail = "call" => waits = "interrupt"
    /\ loop \in FirstStages /\ current # NoMessage => stream \in {"starting", "oauth"}
    /\ loop = "record" => tail \in {"none", "ai"}
    /\ StoppedIsRemembered

\* Nothing was stopped initially.
LEMMA InitTurn == Init => TurnInv
    BY DEF Init, Connected, FirstStages, TurnInv, StoppedIsRemembered

\* The agent's steps do not stop a request, and end a run with its answer.
LEMMA StreamTurn ==
    ASSUME OrderInv, TurnInv, Stream
    PROVE  TurnInv'
<1>1. UNCHANGED <<loop, outcome, current>> /\ loop = "running"
    BY DEF Stream, StreamStarts, StreamCalls, StreamReturns, StreamInterrupts, StreamNeedsOauth2,
           StreamEnds, StreamRaises, StreamReplies, ThreadOnly, Streaming
<1>2. history \subseteq history' /\ messages' \subseteq messages \cup {current}
    BY DEF Stream, StreamStarts, StreamCalls, StreamReturns, StreamInterrupts, StreamNeedsOauth2,
           StreamEnds, StreamRaises, StreamReplies, Remembered, thread
<1>3. \A i \in Ids : outcome[i] = "stopped" => i # current
    BY DEF OrderInv, OutcomeOK
<1>4. StoppedIsRemembered'
    BY <1>1, <1>2, <1>3 DEF TurnInv, StoppedIsRemembered
<1>5. stream' = "done" /\ tail' = "call" => waits' = "interrupt"
    BY DEF Stream, StreamStarts, StreamCalls, StreamReturns, StreamInterrupts, StreamNeedsOauth2,
           StreamEnds, StreamRaises, StreamReplies, Streaming, thread
<1>6. QED
    BY <1>1, <1>4, <1>5 DEF TurnInv, FirstStages

\* The request that RecordStopped stops is in the history if the agent had begun it.
LEMMA EndpointTurn ==
    ASSUME OrderInv, TurnInv, Endpoint
    PROVE  TurnInv'
<1>1. OutcomeOK /\ PlacesOK /\ RunOK
    BY DEF OrderInv
<1>2. ASSUME NEW i \in Ids, NEW how \in Outcomes, how # "stopped",
             outcome' = [outcome EXCEPT ![i] = how] \/ outcome' = outcome,
             UNCHANGED <<messages, history>>
      PROVE  StoppedIsRemembered'
    BY <1>1, <1>2 DEF OutcomeOK, TurnInv, StoppedIsRemembered
<1>3. CASE HandleRequest
    <2>1. loop' \in {"running", "refresh", "oauth"} /\ stream' = "starting" /\ UNCHANGED <<messages, history, outcome>>
        BY <1>3 DEF HandleRequest, FirstStages, thread
    <2>2. QED
        BY <2>1 DEF TurnInv, FirstStages, StoppedIsRemembered
<1>4. CASE HandleStop \/ ParseFails
    <2>1. PICK i \in Ids, how \in {"handled", "failed"} : outcome' = [outcome EXCEPT ![i] = how]
        BY <1>4 DEF HandleStop, ParseFails, End
    <2>2. /\ loop = "receiving" /\ UNCHANGED <<loop, stream, messages, history>>
          /\ (UNCHANGED <<tail, waits>> \/ (tail' = "ai" /\ waits' = "none"))
        BY <1>4 DEF HandleStop, ParseFails, Receives, ForceClose, thread
    <2>3. StoppedIsRemembered'
        BY <1>2, <2>1, <2>2 DEF Outcomes
    <2>4. QED
        BY <2>2, <2>3 DEF TurnInv, FirstStages
<1>5. CASE ReceiverReads \/ NotifyClient \/ RunIsCut \/ CloseThread
    <2>1. /\ UNCHANGED <<messages, history, outcome>>
          /\ stream' \in {stream, "off"}
          /\ (UNCHANGED <<tail, waits>> \/ (tail' = "ai" /\ waits' = "none"))
          /\ loop' \in {"running", "notify", "close"} \/ (loop' = "record" /\ tail' \in {"none", "ai"})
        BY <1>5 DEF ReceiverReads, NotifyClient, RunIsCut, CloseThread, NeedsClosing, ForceClose, run, thread
    <2>2. QED
        BY <2>1 DEF TurnInv, FirstStages, StoppedIsRemembered
<1>6. CASE RunFinishes
    <2>1. /\ loop' = "receiving" /\ stream' = "off" /\ UNCHANGED <<messages, history>>
          /\ outcome' = Dropped([outcome EXCEPT ![current] = IF stream = "done" THEN "handled" ELSE "failed"])
        BY <1>6 DEF RunFinishes, thread
    <2>2. \A i \in Ids : outcome'[i] = "stopped" => outcome[i] = "stopped"
        BY <1>1, <2>1 DEF Dropped, OutcomeOK
    <2>3. QED
        BY <2>1, <2>2 DEF TurnInv, FirstStages, StoppedIsRemembered
<1>7. CASE RecordStopped
    <2>1. /\ loop' = "receiving" /\ history' = history \cup (messages \cap {current})
          /\ UNCHANGED <<stream, messages, tail, waits>> /\ loop = "record"
        BY <1>7 DEF RecordStopped, RecordsRequest
    <2>2. /\ current \in Ids /\ receiver \in Ids /\ current # receiver
          /\ outcome[receiver] = "none"
        BY <1>1, <2>1, IdFacts DEF PlacesOK, Connected, FirstStages, RunOK, OutcomeOK
    <2>3. \A i \in Ids : outcome'[i] = "stopped" => outcome[i] = "stopped" \/ i = current
        BY <1>1, <1>7, <2>2 DEF RecordStopped, OutcomeOK
    <2>4. StoppedIsRemembered'
        BY <2>1, <2>3 DEF TurnInv, StoppedIsRemembered
    <2>5. QED
        BY <2>1, <2>4 DEF TurnInv, FirstStages
<1>8. CASE OauthStarts
    <2>1. /\ loop' \in {"refresh", "oauth"} /\ stream = "oauth" /\ outcome' = Dropped(outcome)
          /\ UNCHANGED <<stream, messages, history, tail, waits>>
        BY <1>8 DEF OauthStarts, FirstStages, thread
    <2>2. \A i \in Ids : outcome'[i] = "stopped" => outcome[i] = "stopped"
        BY <1>1, <2>1 DEF Dropped, OutcomeOK
    <2>3. QED
        BY <2>1, <2>2 DEF TurnInv, FirstStages, StoppedIsRemembered
<1>9. CASE RefreshFails \/ LoginEnds \/ OauthSucceeds \/ OauthFails \/ OauthReloadFails
    <2>1. /\ loop \in FirstStages /\ UNCHANGED <<messages, history>>
          /\ loop' \in {"receiving", "oauth", "running"}
          /\ loop' = "oauth" => stream' = stream /\ current' = current
          /\ \/ stream' = stream /\ UNCHANGED <<tail, waits>>
             \/ stream' \in {"running", "off"}
        BY <1>9 DEF RefreshFails, LoginEnds, OauthSucceeds, OauthFails, OauthReloadFails, RequestFails,
                    Stage, Authenticating, FirstStages, run, thread
    <2>2. \A i \in Ids : outcome'[i] = "stopped" => outcome[i] = "stopped"
        BY <1>1, <1>9 DEF RefreshFails, LoginEnds, OauthSucceeds, OauthFails, OauthReloadFails, RequestFails,
                          End, OutcomeOK
    <2>3. QED
        BY <2>1, <2>2 DEF TurnInv, FirstStages, StoppedIsRemembered
<1>10. CASE CutParseFails
    <2>1. /\ loop' = "receiving" /\ UNCHANGED <<stream, messages, history, tail, waits>>
          /\ outcome' = [outcome EXCEPT ![current] = "failed", ![receiver] = "failed"]
        BY <1>10 DEF CutParseFails, thread
    <2>2. \A i \in Ids : outcome'[i] = "stopped" => outcome[i] = "stopped"
        BY <1>1, <2>1 DEF OutcomeOK
    <2>3. QED
        BY <2>1, <2>2 DEF TurnInv, FirstStages, StoppedIsRemembered
<1>11. QED
    BY <1>3, <1>4, <1>5, <1>6, <1>7, <1>8, <1>9, <1>10 DEF Endpoint

\* Every step keeps what a turn leaves.
LEMMA NextTurn == OrderInv /\ TurnInv /\ [Next]_vars => TurnInv'
<1> SUFFICES ASSUME OrderInv, TurnInv, [Next]_vars
             PROVE  TurnInv'
    OBVIOUS
<1>1. CASE Client
    BY <1>1 DEF Client, ClientSends, run, thread, TurnInv, StoppedIsRemembered
<1>2. CASE Disconnect
    <2>1. /\ loop' \in Connected /\ current' = NoMessage /\ stream' = "off" /\ UNCHANGED <<messages, history>>
          /\ outcome' = [i \in Ids |-> IF outcome[i] = "none" /\ i <= Len(sent) THEN "cut" ELSE outcome[i]]
        BY <1>2 DEF Disconnect, thread
    <2>2. \A i \in Ids : outcome'[i] = "stopped" => outcome[i] = "stopped"
        BY <2>1
    <2>3. QED
        BY <2>1, <2>2 DEF TurnInv, Connected, FirstStages, StoppedIsRemembered
<1>3. CASE UNCHANGED vars
    BY <1>3 DEF vars, run, thread, TurnInv, StoppedIsRemembered
<1>4. QED
    BY <1>1, <1>2, <1>3, StreamTurn, EndpointTurn DEF Next

\* A stopped request that the agent had begun to work on is in the history, in every
\* behaviour.
THEOREM StoppedIsShown == Spec => []StoppedIsRemembered
<1>1. TurnInv => StoppedIsRemembered
    BY DEF TurnInv
<1>2. QED
    BY <1>1, InitOrder, NextOrder, InitTurn, NextTurn, PTL DEF Spec

\* A run that was cut leaves a closed thread to the next message, in every behaviour,
\* unless that message cannot be parsed or the connection is lost first.
THEOREM StoppedIsClosed == Spec => StoppedTurnIsClosed
<1>1. TurnInv /\ [Next]_vars =>
          [Closing /\ ~Closing' => tail' \in {"none", "ai"} \/ CutParseFails \/ Disconnect]_vars
    <2> SUFFICES ASSUME TurnInv, [Next]_vars, Closing, ~Closing', ~CutParseFails, ~Disconnect
                 PROVE  tail' \in {"none", "ai"}
        OBVIOUS
    <2>1. RecordStopped
        BY DEF Next, Client, ClientSends, Stream, StreamStarts, StreamCalls, StreamReturns, StreamInterrupts,
               StreamNeedsOauth2, StreamEnds, StreamRaises, StreamReplies, ThreadOnly, Streaming, Endpoint,
               HandleRequest, HandleStop, ParseFails, Receives, ReceiverReads, RunFinishes, RunIsCut, NotifyClient,
               CloseThread, OauthStarts, RefreshFails, LoginEnds, OauthSucceeds, OauthFails, OauthReloadFails,
               Stage, Authenticating, FirstStages, Closing, run, vars
    <2>2. QED
        BY <2>1 DEF RecordStopped, TurnInv
<1>2. QED
    BY <1>1, InitOrder, NextOrder, InitTurn, NextTurn, PTL DEF Spec, StoppedTurnIsClosed

\* A turn ends with a pending tool call only if an interrupt waits for the user, or its
\* run raised, the message that cut it cannot be parsed, the tools of a child fail to
\* load or the connection is lost, in every behaviour.
THEOREM CallsAreAnswered == Spec => DanglingCallsKnown
<1>1. TurnInv /\ [Next]_vars =>
          [TurnEnds /\ tail' = "call" /\ waits' # "interrupt"
            => stream = "raised" \/ CutParseFails \/ OauthReloadFails \/ Disconnect]_vars
    <2> SUFFICES ASSUME TurnInv, [Next]_vars, TurnEnds, tail' = "call", waits' # "interrupt",
                        stream # "raised", ~CutParseFails, ~Disconnect, ~OauthReloadFails
                 PROVE  FALSE
        OBVIOUS
    <2>1. ~(Client \/ Stream \/ UNCHANGED vars)
        BY DEF Client, ClientSends, Stream, StreamStarts, StreamCalls, StreamReturns, StreamInterrupts,
               StreamNeedsOauth2, StreamEnds, StreamRaises, StreamReplies, ThreadOnly, TurnEnds, run, vars
    <2>2. ~(HandleRequest \/ HandleStop \/ ParseFails \/ ReceiverReads \/ RunIsCut \/ NotifyClient \/ CloseThread
            \/ OauthStarts \/ RefreshFails \/ LoginEnds \/ OauthSucceeds)
        BY IdFacts DEF HandleRequest, HandleStop, ParseFails, ReceiverReads, RunIsCut, NotifyClient, CloseThread,
                       OauthStarts, RefreshFails, LoginEnds, OauthSucceeds, TurnEnds, run
    <2>3. RunFinishes \/ RecordStopped \/ OauthFails
        BY <2>1, <2>2 DEF Next, Endpoint
    <2>4. QED
        BY <2>3 DEF RunFinishes, RecordStopped, OauthFails, PatchesCall, TurnEnds, TurnInv, FirstStages, thread
<1>2. QED
    BY <1>1, InitOrder, NextOrder, InitTurn, NextTurn, PTL DEF Spec, DanglingCallsKnown

-----------------------------------------------------------------------------
(* The session implements SessionContract: each of its steps is a step of  *)
(* the one queue, or changes nothing the contract sees.                    *)

ContractVars == <<sent, current, outcome, Stage>>
Implements == Contract!Next \/ UNCHANGED ContractVars

\* A message that was read during a run is the first that waits.
LEMMA FirstReceived ==
    ASSUME OrderInv, receiver # NoMessage
    PROVE  receiver \in Ids /\ current < receiver /\ Contract!First(receiver)
<1>1. /\ receiver \in Ids /\ receiver = NRead /\ current < receiver
      /\ next_request # NoMessage => next_request = receiver
    BY DEF OrderInv, PlacesOK, RunOK
<1>2. NRead \in Nat /\ NRead <= Len(sent) /\ Len(sent) \in Nat /\ current \in Nat
    BY IdFacts DEF OrderInv, SocketOK, NRead, RunOK, NoMessage
<1>3. \A j \in Ids : outcome[j] = "none" <=> j > receiver \/ j \in {current, receiver}
    BY <1>1, IdFacts DEF OrderInv, OutcomeOK
<1>4. \A j \in 1..Len(sent) : j \in Ids /\ j \in Nat
    BY <1>2, IdFacts DEF OrderInv, SocketOK, Ids
<1>5. receiver \in Contract!Waiting
    BY <1>1, <1>2, <1>3, IdFacts DEF Contract!Waiting
<1>6. \A j \in Contract!Waiting : receiver <= j
    BY <1>1, <1>2, <1>3, <1>4 DEF Contract!Waiting
<1>7. QED
    BY <1>1, <1>5, <1>6 DEF Contract!First

\* While the client authenticates, the first that waits is at the head of the socket.
LEMMA FirstInSocket ==
    ASSUME OrderInv, Authenticating, socket # << >>
    PROVE  /\ Head(socket) \in Ids /\ current # Head(socket)
           /\ Contract!First(Head(socket))
<1> DEFINE h == Head(socket)
<1>1. /\ h = NRead + 1 /\ h \in Ids /\ h \in 1..Len(sent) /\ NRead \in Nat /\ Len(sent) \in Nat
    <2>1. Len(socket) \in Nat \ {0} /\ Len(sent) \in Nat
        BY DEF OrderInv, SocketOK
    <2>2. h = socket[1] /\ socket[1] \in Ids /\ socket[1] = NRead + 1 /\ NRead \in Nat
        BY <2>1 DEF OrderInv, SocketOK, NRead
    <2>3. QED
        BY <2>1, <2>2 DEF NRead
<1>2. current \in Nat /\ current <= NRead /\ receiver = NoMessage /\ next_request = NoMessage
    BY IdFacts DEF Authenticating, FirstStages, OrderInv, PlacesOK, RunOK, NoMessage
<1>3. \A j \in Ids : outcome[j] = "none" <=> j >= h \/ j = current
    BY <1>1, <1>2, IdFacts DEF OrderInv, OutcomeOK
<1>4. \A j \in 1..Len(sent) : j \in Ids /\ j \in Nat
    BY <1>1, IdFacts DEF OrderInv, SocketOK, Ids
<1> HIDE DEF h
<1>5. h # current
    BY <1>1, <1>2
<1>6. h \in Contract!Waiting
    BY <1>1, <1>2, <1>3, <1>5 DEF Contract!Waiting
<1>7. \A j \in Contract!Waiting : h <= j
    BY <1>1, <1>2, <1>3, <1>4 DEF Contract!Waiting
<1>8. QED
    BY <1>1, <1>2, <1>5, <1>6, <1>7 DEF Contract!First, h

\* What the loop takes next is the first that waits.
LEMMA FirstTaken ==
    ASSUME OrderInv, loop = "receiving", NEW i \in Ids, NEW rest, Takes(i, rest),
           sent' = sent, socket' = rest
    PROVE  current = NoMessage /\ Contract!First(i)
<1>1. i \in 1..Len(sent) /\ \A j \in Ids : outcome[j] = "none" <=> j >= i
    BY TakesNext
<1>2. current = NoMessage /\ i # NoMessage /\ Len(sent) \in Nat
    BY IdFacts DEF OrderInv, PlacesOK, SocketOK
<1>3. \A j \in 1..Len(sent) : j \in Ids /\ j \in Nat
    BY <1>2, IdFacts DEF OrderInv, SocketOK, Ids
<1>4. i \in Contract!Waiting
    BY <1>1, <1>2, <1>3 DEF Contract!Waiting
<1>5. \A j \in Contract!Waiting : i <= j
    BY <1>1, <1>3 DEF Contract!Waiting
<1>6. QED
    BY <1>2, <1>4, <1>5 DEF Contract!First

\* The client's step is the queue's; the agent's are not seen by it.
LEMMA OthersImplement ==
    ASSUME OrderInv, Client \/ Stream \/ Disconnect
    PROVE  Implements
<1>1. CASE Client
    <2>1. PICK kind \in Kinds : ClientSends(kind)
        BY <1>1 DEF Client
    <2>2. Contract!Send(kind)
        BY <2>1 DEF ClientSends, run, thread, Stage, Authenticating, Contract!Send
    <2>3. QED
        BY <2>2 DEF Implements, Contract!Next
<1>2. CASE Stream
    <2>1. UNCHANGED ContractVars
        BY <1>2 DEF Stream, StreamStarts, StreamCalls, StreamReturns, StreamInterrupts, StreamNeedsOauth2,
                    StreamEnds, StreamRaises, StreamReplies, ThreadOnly, ContractVars, Stage, Authenticating
    <2>2. QED
        BY <2>1 DEF Implements
<1>3. CASE Disconnect
    <2>1. /\ sent' = sent /\ current' = NoMessage
          /\ outcome' = [i \in Ids |-> IF outcome[i] = "none" /\ i <= Len(sent) THEN "cut" ELSE outcome[i]]
        BY <1>3 DEF Disconnect
    <2>2. /\ DOMAIN outcome = Ids /\ Len(sent) \in Nat /\ NRead \in Nat /\ NRead <= Len(sent)
          /\ \A i \in Ids : i = current => outcome[i] = "none"
          /\ current <= NRead
        BY DEF OrderInv, OutcomeOK, SocketOK, NRead, PlacesOK
    <2>3. ASSUME NEW i \in Ids
          PROVE  i \in Contract!Waiting \cup {current} <=> outcome[i] = "none" /\ i <= Len(sent)
        BY <2>2, IdFacts DEF Contract!Waiting
    <2>4. Contract!Cut
        BY <2>1, <2>2, <2>3 DEF Contract!Cut, Contract!Stages, Stage, NoMessage
    <2>5. QED
        BY <2>4 DEF Implements, Contract!Next
<1>4. QED
    BY <1>1, <1>2, <1>3

\* The loop begins the first that waits, or consumes one that is no request.
LEMMA HandleImplements ==
    ASSUME OrderInv, HandleRequest \/ HandleStop \/ ParseFails
    PROVE  Implements
<1>1. loop = "receiving" /\ Stage = "chat"
    BY DEF HandleRequest, HandleStop, ParseFails, Receives, Stage, Authenticating, FirstStages
<1>2. CASE HandleRequest
    <2>1. PICK i \in Ids : Receives(i) /\ sent[i] \notin {"stop", "malformed"} /\ current' = i
        BY <1>2 DEF HandleRequest
    <2>2. sent' = sent /\ outcome' = outcome /\ Stage' = "chat"
        BY <1>2, <2>1, IdFacts DEF HandleRequest, Stage
    <2>3. current = NoMessage /\ Contract!First(i)
        BY <1>1, <2>1, <2>2, FirstTaken DEF Receives
    <2>4. Contract!Begin(i)
        BY <1>1, <2>1, <2>2, <2>3 DEF Contract!Begin, NoMessage
    <2>5. QED
        BY <2>4 DEF Implements, Contract!Next, Ids
<1>3. CASE HandleStop \/ ParseFails
    <2>1. PICK i \in Ids : Receives(i) /\ \/ sent[i] = "stop" /\ End(i, "handled")
                                          \/ sent[i] = "malformed" /\ End(i, "failed")
        BY <1>3 DEF HandleStop, ParseFails
    <2>2. sent' = sent /\ current' = current /\ loop' = loop
        BY <1>3 DEF HandleStop, ParseFails
    <2>3. current = NoMessage /\ Contract!First(i)
        BY <1>1, <2>1, <2>2, FirstTaken DEF Receives
    <2>4. Stage' = "chat"
        BY <1>1, <2>2 DEF Stage, Authenticating
    <2>5. Contract!Consume(i)
        BY <1>1, <2>1, <2>2, <2>3, <2>4 DEF Contract!Consume, NoMessage, End
    <2>6. QED
        BY <2>5 DEF Implements, Contract!Next, Ids
<1>4. QED
    BY <1>2, <1>3

\* A run ends, and what was read during it is lost to it, or preempts it.
LEMMA RunImplements ==
    ASSUME OrderInv, \/ ReceiverReads \/ RunFinishes \/ RunIsCut \/ NotifyClient \/ CutParseFails
                     \/ CloseThread \/ RecordStopped \/ OauthStarts
    PROVE  Implements
<1> USE DEF NoMessage
<1>0. Stage = "chat" /\ Stage' = "chat"
    BY IdFacts DEF ReceiverReads, RunFinishes, RunIsCut, NotifyClient, CutParseFails, CloseThread, RecordStopped, OauthStarts,
                   OrderInv, PlacesOK, Connected, run, Stage, Authenticating, FirstStages
<1>1. CASE ReceiverReads \/ RunIsCut \/ NotifyClient \/ CloseThread
    BY <1>0, <1>1 DEF ReceiverReads, RunIsCut, NotifyClient, CloseThread, run, thread, Implements, ContractVars
<1>2. CASE RunFinishes
    <2> DEFINE how == IF stream = "done" THEN "handled" ELSE "failed"
    <2>1. /\ sent' = sent /\ current' = NoMessage
          /\ outcome' = Dropped([outcome EXCEPT ![current] = how]) /\ loop = "running"
        BY <1>2 DEF RunFinishes
    <2>2. current # 0 /\ how \in {"handled", "failed"}
        BY <2>1 DEF OrderInv, PlacesOK, Connected, FirstStages, NoMessage
    <2> HIDE DEF how
    <2>3. CASE receiver = NoMessage
        <3>1. Contract!Finish(how)
            BY <1>0, <2>1, <2>2, <2>3 DEF Dropped, Contract!Finish, NoMessage
        <3>2. QED
            BY <2>2, <3>1 DEF Implements, Contract!Next
    <2>4. CASE receiver # NoMessage
        <3>1. receiver \in Ids /\ Contract!First(receiver)
            BY <2>4, FirstReceived
        <3>2. outcome' = [outcome EXCEPT ![current] = how, ![receiver] = "dropped"]
            BY <2>1, <2>4 DEF Dropped
        <3>3. Contract!FinishBoth(how, receiver, "dropped")
            BY <1>0, <2>1, <2>2, <3>1, <3>2 DEF Contract!FinishBoth, NoMessage
        <3>4. QED
            BY <2>2, <3>1, <3>3 DEF Implements, Contract!Next, Ids
    <2>5. QED
        BY <2>3, <2>4
<1>3. CASE RecordStopped
    <2>1. /\ sent' = sent /\ current' = NoMessage /\ loop = "record"
          /\ outcome' = [outcome EXCEPT ![current] = "stopped",
                                        ![receiver] = IF sent[receiver] = "stop" THEN "handled" ELSE @]
        BY <1>3 DEF RecordStopped
    <2>2. current # 0 /\ receiver # NoMessage /\ sent[receiver] # "malformed"
        BY <2>1 DEF OrderInv, PlacesOK, Connected, FirstStages, NoMessage
    <2>3. Contract!Preempt(receiver) /\ receiver \in Ids
        BY <1>0, <2>1, <2>2, FirstReceived DEF Contract!Preempt, NoMessage
    <2>4. QED
        BY <2>3 DEF Implements, Contract!Next, Ids
<1>4. CASE OauthStarts
    <2>1. sent' = sent /\ current' = current /\ outcome' = Dropped(outcome) /\ loop = "running"
        BY <1>4 DEF OauthStarts
    <2>2. CASE receiver = NoMessage
        BY <1>0, <2>1, <2>2 DEF Dropped, Implements, ContractVars
    <2>3. CASE receiver # NoMessage
        <3>1. Contract!Absorb(receiver, "dropped") /\ receiver \in Ids
            BY <1>0, <2>1, <2>3, FirstReceived DEF Dropped, Contract!Absorb, OrderInv, PlacesOK, Connected, FirstStages, NoMessage
        <3>2. QED
            BY <3>1 DEF Implements, Contract!Next, Ids
    <2>4. QED
        BY <2>2, <2>3
<1>5. CASE CutParseFails
    <2>1. /\ sent' = sent /\ current' = NoMessage /\ loop = "notify" /\ sent[receiver] = "malformed"
          /\ outcome' = [outcome EXCEPT ![current] = "failed", ![receiver] = "failed"]
        BY <1>5 DEF CutParseFails
    <2>2. current # 0 /\ receiver # NoMessage
        BY <2>1 DEF OrderInv, PlacesOK, Connected, FirstStages, NoMessage
    <2>3. Contract!FailBoth(receiver) /\ receiver \in Ids
        BY <1>0, <2>1, <2>2, FirstReceived DEF Contract!FailBoth, Contract!FinishBoth, NoMessage
    <2>4. QED
        BY <2>3 DEF Implements, Contract!Next, Ids
<1>6. QED
    BY <1>1, <1>2, <1>3, <1>4, <1>5

\* The OAuth2 exchange takes the first that waits for an answer to it.
LEMMA OauthImplements ==
    ASSUME OrderInv, RefreshFails \/ LoginEnds \/ OauthSucceeds \/ OauthFails \/ OauthReloadFails
    PROVE  Implements
<1> DEFINE h == Head(socket)
<1>1. socket # << >> /\ sent' = sent /\ Authenticating
    BY DEF RefreshFails, LoginEnds, OauthSucceeds, OauthFails, OauthReloadFails, RequestFails, Stage,
           Authenticating, FirstStages
<1>2. h \in Ids /\ h # current /\ Contract!First(h)
    BY <1>1, FirstInSocket
<1>3. CASE RefreshFails \/ LoginEnds \/ OauthSucceeds
    <2>1. PICK how \in {"handled", "dropped"} : outcome' = [outcome EXCEPT ![h] = how]
        BY <1>3 DEF RefreshFails, LoginEnds, OauthSucceeds, End
    <2>2. current' = current /\ (current # 0 \/ Stage = "login") /\ Stage' \in {Stage, "chat"}
        BY <1>1, <1>3 DEF RefreshFails, LoginEnds, OauthSucceeds, Stage, NoMessage, run
    <2> HIDE DEF h
    <2>3. Contract!Absorb(h, how)
        BY <1>1, <1>2, <2>1, <2>2 DEF Contract!Absorb
    <2>4. QED
        BY <1>2, <2>3 DEF Implements, Contract!Next, Ids
<1>4. CASE OauthFails \/ OauthReloadFails
    <2>1. PICK how \in {"handled", "dropped"} : RequestFails([outcome EXCEPT ![h] = how])
        BY <1>4 DEF OauthFails, OauthReloadFails
    <2>2. /\ current # 0 /\ current' = 0 /\ Stage = "chat" /\ Stage' = "chat"
          /\ outcome' = [outcome EXCEPT ![h] = how, ![current] = "failed"]
        BY <1>4, <2>1 DEF OauthFails, OauthReloadFails, RequestFails, Stage, Authenticating, FirstStages, NoMessage
    <2> HIDE DEF h
    <2>3. outcome' = [outcome EXCEPT ![current] = "failed", ![h] = how]
        BY <1>2, <2>2 DEF OrderInv, OutcomeOK
    <2>4. Contract!FinishBoth("failed", h, how)
        BY <1>1, <1>2, <2>2, <2>3 DEF Contract!FinishBoth
    <2>5. QED
        BY <1>2, <2>4 DEF Implements, Contract!Next, Ids
<1>5. QED
    BY <1>3, <1>4

\* The session's messages are one queue, in every behaviour: the first that waits is the
\* next to be handled, and the only one that can stop, or be lost to, the one at work.
THEOREM SessionImplementsContract == Spec => IsOneQueue
<1>1. Init => Contract!Init
    BY DEF Init, Contract!Init, Contract!Stages, Ids, Stage, NoMessage
<1>2. OrderInv /\ [Next]_vars => [Contract!Next]_ContractVars
    <2> SUFFICES ASSUME OrderInv, [Next]_vars
                 PROVE  Implements
        BY DEF Implements
    <2>1. CASE UNCHANGED vars
        BY <2>1 DEF vars, run, Implements, ContractVars, Stage, Authenticating
    <2>2. QED
        BY <2>1, OthersImplement, HandleImplements, RunImplements, OauthImplements DEF Next, Endpoint
<1>3. QED
    BY <1>1, <1>2, InitOrder, NextOrder, PTL
       DEF Spec, IsOneQueue, Contract!Spec, Contract!contract, ContractVars

=============================================================================
