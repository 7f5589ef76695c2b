-------------------------- MODULE SupervisorProofs --------------------------
(***************************************************************************)
(* Theorems about the supervisor: its type, and in which ways alone a run  *)
(* leaves a call unanswered, for any constants; and, when a child asks for *)
(* one confirmation in a tool call at most, that an operation runs only if *)
(* the user granted it, that no confirmation outlives its call, and that a *)
(* "no" that reaches the child ends the run.                               *)
(***************************************************************************)
EXTENDS Supervisor, TLAPS

ChildRecords == [waits : 0..MaxOps, cancelled : BOOLEAN]

\* The type of the run.
RunOK ==
    /\ sup \in {"idle", "model", "tool", "interrupted", "oauth"}
    /\ step \in {"start", "returned", "resumed"}
    /\ tail \in {"none", "human", "call", "result", "cancelled", "ai"}
    /\ hops \in 0..RecursionLimit /\ refused \in BOOLEAN

\* The type of the tool call.
ToolOK ==
    /\ agent \in Children \cup {NoAgent}
    /\ idx \in Nat /\ resume \in Seq(Answers) /\ null \in Answers \cup {"none"}
    /\ shown \in 0..MaxOps /\ asks \in 0..AsksPerCall

\* The type of what the children and the conversation keep.
KeptOK ==
    /\ child \in [Children -> ChildRecords]
    /\ needs_oauth2 \subseteq OAuthAgents
    /\ calls \in [agent : Children \cup {NoAgent}, count : 0..(RecommendAfter - 1)]
    /\ ops \in 0..MaxOps /\ granted \subseteq Ops /\ ran \subseteq Ops

Active == sup \in {"tool", "interrupted", "oauth"}

\* A tool call is of a child; a child that waits was let ask; an answer is to the
\* operation that is shown, and none is shown while no tool is called, or before the
\* tools that a run has no superstep left for.
CallOK ==
    /\ Active => agent \in Children
    /\ \A a \in Children : child[a].waits # NoOp => AsksPerCall >= 1
    /\ sup \in {"idle", "model"} => shown = NoOp /\ null = "none"
    /\ sup = "interrupted" => shown # NoOp /\ null = "none"
    /\ null # "none" => shown # NoOp
    /\ sup = "tool" /\ ~HasHop => shown = NoOp /\ null = "none"

TypeInv == RunOK /\ ToolOK /\ KeptOK /\ CallOK

\* The bounds, as numbers.
LEMMA Bounds ==
    /\ AsksPerCall \in Nat /\ MaxOps \in Nat /\ RecursionLimit \in Nat \ {0} /\ RecommendAfter \in Nat \ {0}
    /\ NoOp = 0
    BY SupervisorAssumption DEF NoOp

\* The parts make up the type.
LEMMA TypeParts == TypeInv => TypeOK
    BY DEF TypeInv, RunOK, ToolOK, KeptOK, ChildRecords, TypeOK

\* The types hold initially.
LEMMA InitType == Init => TypeInv
<1> SUFFICES ASSUME Init
             PROVE  TypeInv
    OBVIOUS
<1>1. RunOK
    <2>1. hops \in 0..RecursionLimit
        BY Bounds DEF Init
    <2>2. refused \in BOOLEAN
        BY DEF Init
    <2>3. QED
        BY <2>1, <2>2 DEF Init, RunOK
<1>2. ToolOK
    BY Bounds DEF Init, ToolOK
<1>3. KeptOK
    BY Bounds DEF Init, KeptOK, ChildRecords
<1>4. CallOK
    BY DEF Init, CallOK, Active
<1>5. QED
    BY <1>1, <1>2, <1>3, <1>4 DEF TypeInv

\* A child that stops keeps its type, and asks only if it may.
LEMMA ChildStopsType ==
    ASSUME TypeInv, NEW a \in Children, NEW cancelled \in BOOLEAN, ChildStops(a, cancelled)
    PROVE  /\ child' \in [Children -> ChildRecords] /\ ops' \in 0..MaxOps /\ asks' \in 0..AsksPerCall
           /\ \A b \in Children : child'[b].waits # NoOp => AsksPerCall >= 1
           /\ \A b \in Children \ {a} : child'[b] = child[b]
           /\ child'[a].cancelled = cancelled
           /\ \/ child'[a].waits = NoOp /\ asks' = asks
              \/ asks < AsksPerCall /\ asks' = asks + 1
<1>1. child \in [Children -> ChildRecords] /\ ops \in 0..MaxOps /\ asks \in 0..AsksPerCall
      /\ \A b \in Children : child[b].waits # NoOp => AsksPerCall >= 1
    BY DEF TypeInv, KeptOK, ToolOK, CallOK
<1>2. CASE /\ child' = [child EXCEPT ![a] = [waits |-> NoOp, cancelled |-> cancelled]]
           /\ UNCHANGED <<ops, asks>>
    <2>1. [waits |-> NoOp, cancelled |-> cancelled] \in ChildRecords
        BY Bounds DEF ChildRecords
    <2>2. child' \in [Children -> ChildRecords] /\ child'[a] = [waits |-> NoOp, cancelled |-> cancelled]
          /\ \A b \in Children \ {a} : child'[b] = child[b]
        BY <1>1, <1>2, <2>1
    <2>3. child'[a].waits = NoOp /\ child'[a].cancelled = cancelled
        BY <2>2
    <2>4. \A b \in Children : child'[b].waits # NoOp => AsksPerCall >= 1
        BY <1>1, <2>2, <2>3
    <2>5. QED
        BY <1>1, <1>2, <2>2, <2>3, <2>4
<1>3. CASE /\ ops < MaxOps /\ asks < AsksPerCall /\ ops' = ops + 1 /\ asks' = asks + 1
           /\ child' = [child EXCEPT ![a] = [waits |-> ops + 1, cancelled |-> cancelled]]
    <2>1. ops + 1 \in 0..MaxOps /\ asks + 1 \in 0..AsksPerCall /\ AsksPerCall >= 1
        BY <1>1, <1>3, Bounds
    <2>2. [waits |-> ops + 1, cancelled |-> cancelled] \in ChildRecords
        BY <2>1 DEF ChildRecords
    <2>3. child' \in [Children -> ChildRecords] /\ child'[a] = [waits |-> ops + 1, cancelled |-> cancelled]
          /\ \A b \in Children \ {a} : child'[b] = child[b]
        BY <1>1, <1>3, <2>2
    <2>4. child'[a].cancelled = cancelled
        BY <2>3
    <2>5. QED
        BY <1>1, <1>3, <2>1, <2>3, <2>4
<1>4. QED
    BY <1>2, <1>3 DEF ChildStops

\* A child that changes nothing but that it waits no more keeps its type.
LEMMA ChildDoneType ==
    ASSUME TypeInv, NEW a \in Children
    PROVE  /\ [child EXCEPT ![a].waits = NoOp] \in [Children -> ChildRecords]
           /\ [child EXCEPT ![a] = [waits |-> NoOp, cancelled |-> TRUE]] \in [Children -> ChildRecords]
           /\ \A b \in Children : /\ [child EXCEPT ![a].waits = NoOp][b].waits \in {child[b].waits, NoOp}
                                 /\ [child EXCEPT ![a] = [waits |-> NoOp, cancelled |-> TRUE]][b].waits \in {child[b].waits, NoOp}
<1>1. child \in [Children -> ChildRecords]
    BY DEF TypeInv, KeptOK
<1>2. [child EXCEPT ![a].waits = NoOp] = [child EXCEPT ![a] = [child[a] EXCEPT !.waits = NoOp]]
    OBVIOUS
<1>3. [child[a] EXCEPT !.waits = NoOp] \in ChildRecords /\ [child[a] EXCEPT !.waits = NoOp].waits = NoOp
    BY <1>1, Bounds DEF ChildRecords
<1>4. [waits |-> NoOp, cancelled |-> TRUE] \in ChildRecords
    BY Bounds DEF ChildRecords
<1>5. /\ [child EXCEPT ![a].waits = NoOp] \in [Children -> ChildRecords]
      /\ \A b \in Children : [child EXCEPT ![a].waits = NoOp][b].waits \in {child[b].waits, NoOp}
    BY <1>1, <1>2, <1>3
<1>6. QED
    BY <1>1, <1>4, <1>5

\* The user's steps keep the types.
LEMMA UserType ==
    ASSUME TypeInv, User
    PROVE  TypeInv'
<1>1. RunOK /\ ToolOK /\ KeptOK /\ CallOK
    BY DEF TypeInv
<1>2. CASE StartTurn
    <2>1. /\ sup = "idle" /\ sup' = "model" /\ tail' = "human" /\ hops' = 0 /\ refused' = FALSE
          /\ UNCHANGED <<step, agent, idx, resume, null, shown, asks, child, needs_oauth2, calls, ops, granted, ran>>
        BY <1>2 DEF StartTurn, tool
    <2>2. RunOK'
        <3>1. hops' \in 0..RecursionLimit
            BY <2>1, Bounds
        <3>2. refused' \in BOOLEAN
            BY <2>1
        <3>3. QED
            BY <1>1, <2>1, <3>1, <3>2 DEF RunOK
    <2>3. ToolOK' /\ KeptOK' /\ CallOK'
        BY <1>1, <2>1 DEF ToolOK, KeptOK, CallOK, Active, HasHop
    <2>4. QED
        BY <2>2, <2>3 DEF TypeInv
<1>3. ASSUME NEW v \in Answers, Answer(v)
      PROVE  TypeInv'
    <2>1. /\ sup = "interrupted" /\ sup' = "tool" /\ step' = "start" /\ idx' = 0 /\ null' = v /\ hops' = 0
          /\ granted' = (IF v = "yes" THEN granted \cup {shown} ELSE granted) /\ refused' = (v = "no")
          /\ UNCHANGED <<agent, resume, shown, asks, tail, child, needs_oauth2, calls, ops, ran>>
        BY <1>3 DEF Answer
    <2>2. shown \in Ops
        BY <1>1, <2>1, Bounds DEF CallOK, ToolOK, Ops
    <2>3. RunOK'
        <3>1. hops' \in 0..RecursionLimit
            BY <2>1, Bounds
        <3>2. refused' \in BOOLEAN
            BY <2>1, Zenon
        <3>3. QED
            BY <1>1, <2>1, <3>1, <3>2 DEF RunOK
    <2>4. ToolOK' /\ KeptOK'
        BY <1>1, <2>1, <2>2 DEF ToolOK, KeptOK
    <2>5. CallOK'
        BY <1>1, <2>1, Bounds DEF CallOK, Active, HasHop
    <2>6. QED
        BY <2>3, <2>4, <2>5 DEF TypeInv
<1>4. CASE StopRun
    <2>1. /\ sup' = "idle" /\ step' = "start" /\ idx' = 0 /\ null' = "none"
          /\ child' = ChildrenClosed /\ tail' = "ai" /\ shown' = NoOp /\ resume' = << >>
          /\ UNCHANGED <<agent, asks, hops, needs_oauth2, calls, ops, granted, refused, ran>>
        BY <1>4 DEF StopRun, CloseStopped, history
    <2>2. child' \in [Children -> ChildRecords] /\ \A a \in Children : child'[a].waits = NoOp
        <3>1. \A a \in Children : /\ [child[a] EXCEPT !.waits = NoOp] \in ChildRecords
                                  /\ [child[a] EXCEPT !.waits = NoOp].waits = NoOp
            BY <1>1, Bounds DEF KeptOK, ChildRecords
        <3>2. QED
            BY <2>1, <3>1 DEF ChildrenClosed
    <2>3. RunOK' /\ ToolOK' /\ KeptOK'
        BY <1>1, <2>1, <2>2, Bounds DEF RunOK, ToolOK, KeptOK
    <2>4. CallOK'
        BY <2>1, <2>2 DEF CallOK, Active
    <2>5. QED
        BY <2>3, <2>4 DEF TypeInv
<1>5. QED
    BY <1>2, <1>3, <1>4 DEF User

\* The model's steps keep the types.
LEMMA ModelType ==
    ASSUME TypeInv, Model
    PROVE  TypeInv'
<1>1. RunOK /\ ToolOK /\ KeptOK /\ CallOK
    BY DEF TypeInv
<1>2. ASSUME NEW a \in Children, ModelCalls(a)
      PROVE  TypeInv'
    <2>1. /\ sup = "model" /\ hops < RecursionLimit
          /\ sup' = "tool" /\ step' = "start" /\ agent' = a /\ tail' = "call"
          /\ idx' = 0 /\ resume' = << >> /\ null' = "none"
          /\ asks' = (IF child[a].waits = NoOp THEN 0 ELSE 1) /\ hops' = hops + 1
          /\ UNCHANGED <<shown, child, needs_oauth2, calls, ops, granted, refused, ran>>
        BY <1>2 DEF ModelCalls, MayThink, NextHop, HasHop, history
    <2>2. asks' \in 0..AsksPerCall
        BY <1>1, <2>1, Bounds DEF CallOK
    <2>3. hops' \in 0..RecursionLimit
        BY <1>1, <2>1, Bounds DEF RunOK
    <2>4. RunOK' /\ ToolOK' /\ KeptOK'
        BY <1>1, <2>1, <2>2, <2>3 DEF RunOK, ToolOK, KeptOK
    <2>5. CallOK'
        BY <1>1, <2>1 DEF CallOK, Active
    <2>6. QED
        BY <2>4, <2>5 DEF TypeInv
<1>3. CASE ModelAnswers \/ ModelEndsCancelled \/ ModelExceedsLimit
    <2>1. /\ sup = "model" /\ sup' = "idle" /\ tail' \in {tail, "ai"}
          /\ UNCHANGED <<step, agent, idx, resume, null, shown, asks, hops, child, needs_oauth2, calls,
                         ops, granted, refused, ran>>
        BY <1>3 DEF ModelAnswers, ModelEndsCancelled, ModelExceedsLimit, ExceedsLimit, MayThink, tool, history
    <2>2. RunOK' /\ ToolOK' /\ KeptOK'
        BY <1>1, <2>1 DEF RunOK, ToolOK, KeptOK
    <2>3. CallOK'
        BY <1>1, <2>1 DEF CallOK, Active
    <2>4. QED
        BY <2>2, <2>3 DEF TypeInv
<1>4. QED
    BY <1>2, <1>3 DEF Model

\* A tool that goes on keeps the types: what is left of it to check is the child.
LEMMA ToolGoesOn ==
    ASSUME TypeInv, sup = "tool", HasHop, sup' = "tool", step' \in {"returned", "resumed"}, refused' \in BOOLEAN,
           UNCHANGED <<agent, shown, tail, hops, needs_oauth2, calls, granted>>,
           idx' \in Nat, resume' \in Seq(Answers), null' \in {null, "none"}, asks' \in 0..AsksPerCall,
           child' \in [Children -> ChildRecords], \A b \in Children : child'[b].waits # NoOp => AsksPerCall >= 1,
           ops' \in 0..MaxOps, ran' \subseteq Ops
    PROVE  TypeInv'
<1>1. RunOK'
    BY DEF TypeInv, RunOK
<1>2. ToolOK' /\ KeptOK'
    BY DEF TypeInv, ToolOK, KeptOK
<1>3. CallOK'
    BY DEF TypeInv, CallOK, Active, HasHop
<1>4. QED
    BY <1>1, <1>2, <1>3 DEF TypeInv

\* The answer that a tool takes is stored.
LEMMA TakesType ==
    ASSUME TypeInv, HasAnswer, TakeAnswer
    PROVE  /\ idx' = idx + 1 /\ idx' \in Nat /\ resume' \in Seq(Answers)
           /\ null' \in {null, "none"}
<1>1. idx \in Nat /\ resume \in Seq(Answers) /\ null \in Answers \cup {"none"}
    BY DEF TypeInv, ToolOK
<1>2. CASE idx < Len(resume)
    BY <1>1, <1>2 DEF TakeAnswer
<1>3. CASE ~(idx < Len(resume))
    BY <1>1, <1>3 DEF TakeAnswer, HasAnswer
<1>4. QED
    BY <1>2, <1>3

\* A tool that ends with a result keeps the types.
LEMMA ReturnType ==
    ASSUME TypeInv, sup = "tool", HasHop, NEW kind \in {"result", "cancelled"}, Return(kind), refused' \in BOOLEAN,
           child' \in [Children -> ChildRecords], \A b \in Children : child'[b].waits \in {child[b].waits, NoOp},
           calls' \in [agent : Children \cup {NoAgent}, count : 0..(RecommendAfter - 1)], ran' \subseteq Ops
    PROVE  TypeInv'
<1>1. /\ sup' = "model" /\ tail' = kind /\ hops' = hops + 1
      /\ step' = "start" /\ idx' = 0 /\ resume' = << >> /\ null' = "none" /\ shown' = NoOp
      /\ UNCHANGED <<agent, asks, needs_oauth2, ops, granted>>
    BY DEF Return, NextHop
<1>2. RunOK'
    <2>1. hops' \in 0..RecursionLimit
        BY <1>1, Bounds DEF TypeInv, RunOK, HasHop
    <2>2. QED
        BY <1>1, <2>1 DEF TypeInv, RunOK
<1>3. ToolOK'
    BY <1>1, Bounds DEF TypeInv, ToolOK
<1>4. KeptOK'
    BY <1>1 DEF TypeInv, KeptOK
<1>5. CallOK'
    BY <1>1 DEF TypeInv, CallOK, Active
<1>6. QED
    BY <1>2, <1>3, <1>4, <1>5 DEF TypeInv

\* A tool that asks the user keeps the types.
LEMMA AskType ==
    ASSUME TypeInv, sup = "tool", child[agent].waits # NoOp, ~HasAnswer, Ask(child[agent].waits)
    PROVE  TypeInv'
<1>1. agent \in Children /\ child[agent].waits \in 0..MaxOps /\ null = "none"
    BY DEF TypeInv, CallOK, Active, KeptOK, ChildRecords, HasAnswer
<1>2. /\ sup' = "interrupted" /\ shown' = child[agent].waits /\ step' = "start" /\ idx' = 0
      /\ UNCHANGED <<agent, resume, null, asks, tail, hops, child, needs_oauth2, calls, ops, granted, refused, ran>>
    BY DEF Ask, history
<1>3. RunOK'
    BY <1>2 DEF TypeInv, RunOK
<1>4. ToolOK' /\ KeptOK'
    BY <1>1, <1>2 DEF TypeInv, ToolOK, KeptOK
<1>5. CallOK'
    BY <1>1, <1>2 DEF TypeInv, CallOK, Active
<1>6. QED
    BY <1>3, <1>4, <1>5 DEF TypeInv

\* The tool's steps keep the types.
LEMMA ToolType ==
    ASSUME TypeInv, Tool
    PROVE  TypeInv'
<1>1. RunOK /\ ToolOK /\ KeptOK /\ CallOK
    BY DEF TypeInv
<1>2. sup = "tool" /\ agent \in Children
    BY <1>1 DEF Tool, ToolNeedsOauth2, ToolSends, ToolAsks, ToolResumesConfirmed, ToolResumesDeclined,
                ToolResumesUnprepared, ToolSendFails, ToolResumeFails, ToolCancelled, ToolAsksAgain, ToolReturns, MayReturn,
                ToolsExceedLimit, ExceedsLimit, AtStep, CallOK, Active
<1>3. child[agent] \in ChildRecords /\ child[agent].cancelled \in BOOLEAN
    BY <1>1, <1>2 DEF KeptOK, ChildRecords
<1>4. child[agent].waits # NoOp => child[agent].waits \in Ops
    BY <1>3, Bounds DEF ChildRecords, Ops
<1>5. ToolSends \/ ToolResumesUnprepared \/ ToolSendFails \/ ToolResumeFails \/ ToolCancelled \/ ToolReturns
        => refused' \in BOOLEAN
    BY <1>1 DEF ToolSends, ToolResumesUnprepared, ToolSendFails, ToolResumeFails, ToolCancelled, ToolReturns,
                MissesAnswer, RunOK
<1>6. CASE ToolNeedsOauth2
    <2>1. /\ sup' = "oauth"
          /\ UNCHANGED <<step, agent, idx, resume, null, shown, asks, tail, hops, child, needs_oauth2, calls,
                         ops, granted, refused, ran>>
        BY <1>6 DEF ToolNeedsOauth2, tool, history
    <2>2. RunOK' /\ ToolOK' /\ KeptOK'
        BY <1>1, <2>1 DEF RunOK, ToolOK, KeptOK
    <2>3. CallOK'
        BY <1>1, <1>2, <2>1 DEF CallOK, Active
    <2>4. QED
        BY <2>2, <2>3 DEF TypeInv
<1>7. CASE ToolSends
    BY <1>1, <1>2, <1>3, <1>5, <1>7, ChildStopsType, ToolGoesOn DEF ToolSends, AtStep, RunOK, ToolOK, KeptOK
<1>8. CASE ToolResumesConfirmed
    <2>1. ran' \subseteq Ops
        BY <1>1, <1>4, <1>8 DEF ToolResumesConfirmed, KeptOK
    <2>2. QED
        BY <1>1, <1>2, <1>3, <1>8, <2>1, ChildStopsType, TakesType, ToolGoesOn DEF ToolResumesConfirmed, AtStep, RunOK
<1>9. CASE ToolResumesDeclined
    <2>1. /\ child' = [child EXCEPT ![agent] = [waits |-> NoOp, cancelled |-> TRUE]]
          /\ HasAnswer /\ TakeAnswer /\ step' = "resumed" /\ HasHop
          /\ UNCHANGED <<sup, agent, shown, asks, tail, hops, needs_oauth2, calls, ops, granted, refused, ran>>
        BY <1>9 DEF ToolResumesDeclined, AtStep
    <2>2. child' \in [Children -> ChildRecords] /\ \A b \in Children : child'[b].waits # NoOp => AsksPerCall >= 1
        BY <1>1, <1>2, <2>1, ChildDoneType DEF CallOK
    <2>3. refused' \in BOOLEAN
        BY <1>1, <2>1 DEF RunOK
    <2>4. QED
        BY <1>1, <1>2, <2>1, <2>2, <2>3, TakesType, ToolGoesOn DEF ToolOK, KeptOK
<1>10. CASE ToolResumesUnprepared
    BY <1>1, <1>2, <1>3, <1>5, <1>10, ChildStopsType, TakesType, ToolGoesOn DEF ToolResumesUnprepared, AtStep, RunOK, KeptOK
<1>11. CASE ToolSendFails \/ ToolResumeFails
    <2>1. /\ child' \in {child, [child EXCEPT ![agent].waits = NoOp]} /\ UNCHANGED calls /\ Return("result")
          /\ HasHop
        BY <1>11 DEF ToolSendFails, ToolResumeFails, AtStep
    <2>2. ran' \subseteq Ops
        BY <1>1, <1>4, <1>11 DEF ToolSendFails, ToolResumeFails, KeptOK
    <2>3. child' \in [Children -> ChildRecords] /\ \A b \in Children : child'[b].waits \in {child[b].waits, NoOp}
        BY <1>1, <1>2, <2>1, ChildDoneType DEF KeptOK
    <2>4. QED
        BY <1>1, <1>2, <1>5, <1>11, <2>1, <2>2, <2>3, ReturnType DEF KeptOK
<1>12. CASE ToolCancelled
    BY <1>1, <1>2, <1>5, <1>12, ReturnType DEF ToolCancelled, AtStep, KeptOK
<1>13. CASE ToolReturns
    <2> DEFINE n == IF calls.agent = agent THEN calls.count + 1 ELSE 1
    <2>1. calls' = [agent |-> agent, count |-> IF n >= RecommendAfter THEN 0 ELSE n]
        BY <1>13 DEF ToolReturns, RecordCall
    <2>2. n \in Nat
        BY <1>1, Bounds DEF KeptOK
    <2>3. (IF n >= RecommendAfter THEN 0 ELSE n) \in 0..(RecommendAfter - 1)
        BY <2>2, Bounds
    <2>4. calls' \in [agent : Children \cup {NoAgent}, count : 0..(RecommendAfter - 1)]
        BY <1>1, <2>1, <2>3 DEF ToolOK
    <2>5. QED
        BY <1>1, <1>2, <1>5, <1>13, <2>4, ReturnType DEF ToolReturns, MayReturn, AtStep, KeptOK
<1>14. CASE ToolAsks \/ ToolAsksAgain
    BY <1>2, <1>14, AskType DEF ToolAsks, ToolAsksAgain
<1>15. CASE ToolsExceedLimit
    <2>1. /\ ~HasHop /\ sup' = "idle"
          /\ UNCHANGED <<step, agent, idx, resume, null, shown, asks, tail, hops, child, needs_oauth2, calls,
                         ops, granted, refused, ran>>
        BY <1>15 DEF ToolsExceedLimit, ExceedsLimit, tool, history
    <2>2. RunOK' /\ ToolOK' /\ KeptOK'
        BY <1>1, <2>1 DEF RunOK, ToolOK, KeptOK
    <2>3. CallOK'
        BY <1>1, <1>2, <2>1 DEF CallOK, Active
    <2>4. QED
        BY <2>2, <2>3 DEF TypeInv
<1>16. QED
    BY <1>6, <1>7, <1>8, <1>9, <1>10, <1>11, <1>12, <1>13, <1>14, <1>15 DEF Tool

\* The OAuth2 exchange and a lost connection keep the types.
LEMMA OthersType ==
    ASSUME TypeInv, Oauth \/ Disconnect
    PROVE  TypeInv'
<1>1. RunOK /\ ToolOK /\ KeptOK /\ CallOK
    BY DEF TypeInv
<1>2. CASE OauthResumes
    <2>1. /\ sup = "oauth" /\ sup' = "tool" /\ idx' = 0 /\ hops' = 0 /\ needs_oauth2' = needs_oauth2 \ {agent}
          /\ UNCHANGED <<step, agent, resume, null, shown, asks, tail, child, calls, ops, granted, refused, ran>>
        BY <1>2 DEF OauthResumes, history
    <2>2. RunOK' /\ ToolOK' /\ KeptOK'
        BY <1>1, <2>1, Bounds DEF RunOK, ToolOK, KeptOK
    <2>3. CallOK'
        BY <1>1, <2>1, Bounds DEF CallOK, Active, HasHop
    <2>4. QED
        BY <2>2, <2>3 DEF TypeInv
<1>3. CASE OauthFails
    <2>1. /\ sup = "oauth" /\ sup' = "idle" /\ tail' = "result" /\ shown' = NoOp /\ resume' = << >> /\ null' = "none"
          /\ UNCHANGED <<step, agent, idx, asks, hops, child, needs_oauth2, calls, ops, granted, refused, ran>>
        BY <1>3 DEF OauthFails, history
    <2>2. RunOK' /\ ToolOK' /\ KeptOK'
        BY <1>1, <2>1, Bounds DEF RunOK, ToolOK, KeptOK
    <2>3. CallOK'
        BY <1>1, <2>1 DEF CallOK, Active
    <2>4. QED
        BY <2>2, <2>3 DEF TypeInv
<1>4. CASE ReloadFails
    <2>1. /\ sup = "oauth" /\ sup' = (IF shown = NoOp THEN "idle" ELSE "interrupted") /\ null' = "none"
          /\ UNCHANGED <<step, agent, idx, resume, shown, asks, tail, hops, child, needs_oauth2, calls,
                         ops, granted, refused, ran>>
        BY <1>4 DEF ReloadFails, history
    <2>2. RunOK' /\ ToolOK' /\ KeptOK'
        BY <1>1, <2>1 DEF RunOK, ToolOK, KeptOK
    <2>3. CallOK'
        BY <1>1, <2>1 DEF CallOK, Active
    <2>4. QED
        BY <2>2, <2>3 DEF TypeInv
<1>5. CASE Disconnect
    <2>1. /\ (sup \in {"idle", "interrupted"} /\ UNCHANGED <<sup, null>>)
             \/ (sup' = (IF shown = NoOp THEN "idle" ELSE "interrupted") /\ null' = "none"
                 /\ sup \notin {"idle", "interrupted"})
          /\ step' = "start" /\ idx' = 0 /\ refused' = FALSE /\ needs_oauth2' \in SUBSET OAuthAgents
          /\ calls' = [agent |-> NoAgent, count |-> 0]
          /\ UNCHANGED <<agent, resume, shown, asks, tail, hops, child, ops, granted>>
        BY <1>5 DEF Disconnect
    <2>2. sup = "tool" => agent \in Children
        BY <1>1 DEF CallOK, Active
    <2>3. ran' \subseteq Ops
        <3>1. CASE UNCHANGED ran
            BY <1>1, <3>1 DEF KeptOK
        <3>2. CASE sup = "tool" /\ child[agent].waits # NoOp /\ ran' = ran \cup {child[agent].waits}
            <4>1. child[agent].waits \in Ops
                BY <1>1, <2>2, <3>2, Bounds DEF KeptOK, ChildRecords, Ops
            <4>2. QED
                BY <1>1, <3>2, <4>1 DEF KeptOK
        <3>3. QED
            BY <1>5, <3>1, <3>2 DEF Disconnect, AtStep
    <2>4. RunOK'
        <3>1. refused' \in BOOLEAN
            BY <2>1
        <3>2. sup' \in {"idle", "model", "tool", "interrupted", "oauth"}
            BY <1>1, <2>1 DEF RunOK
        <3>3. QED
            BY <1>1, <2>1, <3>1, <3>2 DEF RunOK
    <2>5. ToolOK'
        BY <1>1, <2>1 DEF ToolOK
    <2>6. KeptOK'
        <3>1. calls' \in [agent : Children \cup {NoAgent}, count : 0..(RecommendAfter - 1)]
            BY <2>1, Bounds
        <3>2. QED
            BY <1>1, <2>1, <2>3, <3>1 DEF KeptOK
    <2>7. CallOK'
        <3>1. sup' = "interrupted" => shown # NoOp /\ agent \in Children /\ null' = "none"
            BY <1>1, <2>1 DEF CallOK, Active, RunOK
        <3>2. sup' \in {"idle", "interrupted"} /\ null' = "none"
            BY <1>1, <2>1 DEF CallOK
        <3>3. sup' = "idle" => shown = NoOp
            BY <1>1, <2>1 DEF CallOK
        <3>4. QED
            BY <1>1, <2>1, <3>1, <3>2, <3>3 DEF CallOK, Active
    <2>8. QED
        BY <2>4, <2>5, <2>6, <2>7 DEF TypeInv
<1>6. QED
    BY <1>2, <1>3, <1>4, <1>5 DEF Oauth

\* Every step keeps the types.
LEMMA NextType == TypeInv /\ [Next]_vars => TypeInv'
<1>1. TypeInv /\ UNCHANGED vars => TypeInv'
    BY DEF vars, tool, history, TypeInv, RunOK, ToolOK, KeptOK, CallOK, Active, HasHop
<1>2. QED
    BY <1>1, UserType, ModelType, ToolType, OthersType DEF Next

\* The state has its type in every behaviour: the hops of a run, the operations and the
\* confirmations of a tool call stay within their bounds.
THEOREM TypeCorrect == Spec => []TypeOK
    BY InitType, NextType, TypeParts, PTL DEF Spec

-----------------------------------------------------------------------------
(* What a turn that ends leaves.                                           *)

\* The model never runs on an unanswered call.
TurnInv == sup = "model" => tail # "call"

\* Every step keeps it so.
LEMMA NextTurn == TurnInv /\ [Next]_vars => TurnInv'
<1> SUFFICES ASSUME TurnInv, [Next]_vars
             PROVE  TurnInv'
    OBVIOUS
<1>1. CASE User
    BY <1>1 DEF User, StartTurn, Answer, StopRun, TurnInv
<1>2. CASE Model
    BY <1>2 DEF Model, ModelCalls, ModelAnswers, ModelEndsCancelled, ModelExceedsLimit, ExceedsLimit, TurnInv
<1>3. CASE Tool
    BY <1>3 DEF Tool, ToolNeedsOauth2, ToolSends, ToolAsks, ToolResumesConfirmed, ToolResumesDeclined,
                ToolResumesUnprepared, ToolSendFails, ToolResumeFails, ToolCancelled, ToolAsksAgain, ToolReturns,
                ToolsExceedLimit, ExceedsLimit, MayReturn, AtStep, Ask, Return, TurnInv
<1>4. CASE Oauth \/ Disconnect
    BY <1>4 DEF Oauth, OauthResumes, OauthFails, ReloadFails, Disconnect, TurnInv
<1>5. CASE UNCHANGED vars
    BY <1>5 DEF vars, TurnInv
<1>6. QED
    BY <1>1, <1>2, <1>3, <1>4, <1>5 DEF Next

\* The model is not called initially.
LEMMA InitTurn == Init => TurnInv
    BY DEF Init, TurnInv

\* In every behaviour a run leaves a tool call without result only when the connection is
\* lost, the tools of a child fail to load, or the recursion limit falls between the
\* model and the tools.
THEOREM CallsAreAnswered == Spec => DanglingCallsKnown
<1>1. TurnInv /\ [Next]_vars =>
          [sup # "idle" /\ sup' = "idle" /\ tail' = "call"
            => Disconnect \/ ReloadFails \/ ToolsExceedLimit]_vars
    <2> SUFFICES ASSUME TurnInv, [Next]_vars, sup # "idle", sup' = "idle", tail' = "call",
                        ~Disconnect, ~ReloadFails, ~ToolsExceedLimit
                 PROVE  FALSE
        OBVIOUS
    <2>1. ~Tool
        BY DEF Tool, ToolNeedsOauth2, ToolSends, ToolAsks, ToolResumesConfirmed, ToolResumesDeclined,
               ToolResumesUnprepared, ToolSendFails, ToolResumeFails, ToolCancelled, ToolAsksAgain,
               ToolReturns, MayReturn, AtStep, Ask, Return
    <2>2. StopRun \/ ModelAnswers \/ ModelEndsCancelled \/ ModelExceedsLimit \/ OauthFails
        BY <2>1 DEF Next, User, Model, Oauth, StartTurn, Answer, ModelCalls, OauthResumes, vars
    <2>3. QED
        BY <2>2 DEF StopRun, CloseStopped, ModelAnswers, ModelEndsCancelled, ModelExceedsLimit, ExceedsLimit,
                    OauthFails, TurnInv
<1>2. QED
    BY <1>1, InitTurn, NextTurn, PTL DEF Spec, DanglingCallsKnown

-----------------------------------------------------------------------------
(* One confirmation in a tool call: answers go to the operation shown.     *)

\* With one confirmation in a tool call, that of its child is the first answer's and is
\* the one shown, and a child that goes on asks for no other.
GrantInv ==
    /\ Active /\ child[agent].waits # NoOp =>
           asks = 1 /\ resume = << >> /\ (shown # NoOp => child[agent].waits = shown)
    /\ Active /\ shown # NoOp => asks = 1
    /\ Active /\ asks = 0 => resume = << >>
    /\ null = "yes" => shown \in granted
    /\ sup \in {"oauth", "interrupted"} => step = "start"
    /\ sup = "tool" /\ step = "resumed" => child[agent].waits = NoOp
    /\ sup = "tool" /\ step = "returned" /\ child[agent].waits # NoOp => null = "none"
    /\ ran \subseteq granted

\* A child that is resumed has asked before, and asks no more in this tool call.
LEMMA ResumedAsksNoMore ==
    ASSUME AsksPerCall <= 1, TypeInv, GrantInv, sup = "tool", child[agent].waits # NoOp,
           NEW cancelled \in BOOLEAN, ChildStops(agent, cancelled)
    PROVE  child'[agent].waits = NoOp /\ asks' = asks
<1>1. agent \in Children /\ asks = 1 /\ AsksPerCall \in Nat
    BY Bounds DEF TypeInv, CallOK, Active, GrantInv
<1>2. \/ child'[agent].waits = NoOp /\ asks' = asks
      \/ asks < AsksPerCall
    BY <1>1, ChildStopsType
<1>3. QED
    BY <1>1, <1>2

\* The answer to a waiting child is the one just given; a yes is to its operation.
LEMMA AnswerIsToShown ==
    ASSUME TypeInv, GrantInv, sup = "tool", child[agent].waits # NoOp, HasAnswer
    PROVE  /\ NextAnswer = null /\ null # "none" /\ shown = child[agent].waits
           /\ Confirms(NextAnswer) => child[agent].waits \in granted
<1>1. resume = << >> /\ idx \in Nat /\ (shown # NoOp => child[agent].waits = shown)
    BY DEF GrantInv, Active, TypeInv, ToolOK
<1>2. ~(idx < Len(resume))
    BY <1>1
<1>3. null # "none" /\ NextAnswer = null
    BY <1>2 DEF HasAnswer, NextAnswer
<1>4. shown # NoOp
    BY <1>3 DEF TypeInv, CallOK
<1>5. QED
    BY <1>1, <1>3, <1>4 DEF Confirms, GrantInv

\* Every step keeps the answers with their operations.
LEMMA NextGrant == AsksPerCall <= 1 /\ TypeInv /\ GrantInv /\ [Next]_vars => GrantInv'
<1> SUFFICES ASSUME AsksPerCall <= 1, TypeInv, GrantInv, [Next]_vars
             PROVE  GrantInv'
    OBVIOUS
<1>1. RunOK /\ ToolOK /\ KeptOK /\ CallOK
    BY DEF TypeInv
<1>2. CASE StartTurn
    BY <1>1, <1>2 DEF StartTurn, tool, GrantInv, CallOK, Active
<1>3. ASSUME NEW v \in Answers, Answer(v)
      PROVE  GrantInv'
    BY <1>1, <1>3 DEF Answer, GrantInv, CallOK, Active
<1>4. CASE StopRun
    BY <1>4 DEF StopRun, CloseStopped, history, GrantInv, Active
<1>5. ASSUME NEW a \in Children, ModelCalls(a)
      PROVE  GrantInv'
    <2>1. /\ sup = "model" /\ sup' = "tool" /\ step' = "start" /\ agent' = a /\ resume' = << >> /\ null' = "none"
          /\ asks' = (IF child[a].waits = NoOp THEN 0 ELSE 1)
          /\ UNCHANGED <<shown, child, granted, ran>>
        BY <1>5 DEF ModelCalls, MayThink, history
    <2>2. shown = NoOp
        BY <1>1, <2>1 DEF CallOK
    <2>3. QED
        BY <2>1, <2>2 DEF GrantInv, Active
<1>6. CASE ModelAnswers \/ ModelEndsCancelled \/ ModelExceedsLimit
    BY <1>1, <1>6 DEF ModelAnswers, ModelEndsCancelled, ModelExceedsLimit, ExceedsLimit, tool, history, GrantInv, Active
<1>7. CASE Tool
    <2>1. sup = "tool" /\ agent \in Children
        BY <1>1, <1>7 DEF Tool, ToolNeedsOauth2, ToolSends, ToolAsks, ToolResumesConfirmed, ToolResumesDeclined,
                          ToolResumesUnprepared, ToolSendFails, ToolResumeFails, ToolCancelled, ToolAsksAgain, ToolReturns, MayReturn,
                          ToolsExceedLimit, ExceedsLimit, AtStep, CallOK, Active
    <2>2. child[agent].cancelled \in BOOLEAN
        BY <1>1, <2>1 DEF KeptOK, ChildRecords
    <2>3. CASE ToolNeedsOauth2
        BY <2>1, <2>3 DEF ToolNeedsOauth2, tool, history, GrantInv, Active
    <2>4. CASE ToolSends
        <3>1. /\ child[agent].waits = NoOp /\ ChildStops(agent, child[agent].cancelled)
              /\ sup' = "tool" /\ step' = "returned" /\ UNCHANGED <<agent, resume, null, shown, granted, ran>>
            BY <2>1, <2>4 DEF ToolSends
        <3>2. \/ child'[agent].waits = NoOp /\ asks' = asks
              \/ asks < AsksPerCall /\ asks' = asks + 1
            BY <2>1, <2>2, <3>1, ChildStopsType
        <3>3. CASE child'[agent].waits = NoOp /\ asks' = asks
            BY <2>1, <3>1, <3>3 DEF GrantInv, Active
        <3>4. CASE asks < AsksPerCall /\ asks' = asks + 1
            <4>1. asks = 0 /\ asks' = 1
                BY <1>1, <3>4, Bounds DEF ToolOK
            <4>2. shown = NoOp /\ resume = << >>
                BY <2>1, <4>1 DEF GrantInv, Active
            <4>3. null = "none"
                BY <1>1, <4>2 DEF CallOK
            <4>4. QED
                BY <3>1, <4>1, <4>2, <4>3 DEF GrantInv, Active
        <3>5. QED
            BY <3>2, <3>3, <3>4
    <2>5. ASSUME sup' = "tool", step' = "resumed", child'[agent].waits = NoOp, asks = 1, asks' = asks,
                 agent' = agent, shown' = shown, granted' = granted, ran' \subseteq granted,
                 null' \in {null, "none"}
          PROVE  GrantInv'
        BY <2>1, <2>5 DEF GrantInv, Active
    <2>6. CASE ToolResumesConfirmed \/ ToolResumesUnprepared
        <3>1. /\ child[agent].waits # NoOp /\ HasAnswer /\ TakeAnswer /\ sup' = "tool" /\ step' = "resumed"
              /\ ChildStops(agent, child[agent].cancelled)
              /\ ran' = ran \/ (Confirms(NextAnswer) /\ ran' = ran \cup {child[agent].waits})
              /\ UNCHANGED <<agent, shown, granted>>
            BY <2>1, <2>6 DEF ToolResumesConfirmed, ToolResumesUnprepared
        <3>2. child'[agent].waits = NoOp /\ asks' = asks
            BY <2>1, <2>2, <3>1, ResumedAsksNoMore
        <3>3. ran' \subseteq granted
            BY <2>1, <3>1, AnswerIsToShown DEF GrantInv
        <3>4. null' \in {null, "none"}
            BY <3>1, TakesType
        <3>5. asks = 1
            BY <2>1, <3>1 DEF GrantInv, Active
        <3>6. QED
            BY <2>5, <3>1, <3>2, <3>3, <3>4, <3>5
    <2>7. CASE ToolResumesDeclined
        <3>1. /\ child[agent].waits # NoOp /\ HasAnswer /\ TakeAnswer /\ sup' = "tool" /\ step' = "resumed"
              /\ child' = [child EXCEPT ![agent] = [waits |-> NoOp, cancelled |-> TRUE]]
              /\ UNCHANGED <<agent, shown, asks, granted, ran>>
            BY <2>1, <2>7 DEF ToolResumesDeclined
        <3>2. child'[agent] = [waits |-> NoOp, cancelled |-> TRUE]
            BY <1>1, <2>1, <3>1 DEF KeptOK
        <3>3. child'[agent].waits = NoOp
            BY <3>2
        <3>4. null' \in {null, "none"}
            BY <3>1, TakesType
        <3>5. asks = 1 /\ ran \subseteq granted
            BY <2>1, <3>1 DEF GrantInv, Active
        <3>6. QED
            BY <2>5, <3>1, <3>3, <3>4, <3>5
    <2>8. CASE ToolSendFails \/ ToolResumeFails
        <3>1. sup' = "model" /\ null' = "none" /\ granted' = granted
            BY <2>8 DEF ToolSendFails, ToolResumeFails, Return
        <3>2. ran' = ran \/ (child[agent].waits # NoOp /\ HasAnswer /\ Confirms(NextAnswer)
                              /\ ran' = ran \cup {child[agent].waits})
            BY <2>8 DEF ToolSendFails, ToolResumeFails
        <3>3. ran' \subseteq granted
            BY <2>1, <3>2, AnswerIsToShown DEF GrantInv
        <3>4. QED
            BY <3>1, <3>3 DEF GrantInv, Active
    <2>9. CASE ToolCancelled \/ ToolReturns
        BY <2>9 DEF ToolCancelled, ToolReturns, Return, GrantInv, Active
    <2>10. CASE ToolAsks \/ ToolAsksAgain
        <3>1. /\ child[agent].waits # NoOp /\ ~HasAnswer
              /\ sup' = "interrupted" /\ shown' = child[agent].waits /\ step' = "start"
              /\ UNCHANGED <<agent, resume, null, asks, child, granted, ran>>
            BY <2>10 DEF ToolAsks, ToolAsksAgain, Ask, history
        <3>2. null = "none"
            BY <3>1 DEF HasAnswer
        <3>3. QED
            BY <2>1, <3>1, <3>2 DEF GrantInv, Active
    <2>11. CASE ToolsExceedLimit
        BY <1>1, <2>1, <2>11 DEF ToolsExceedLimit, ExceedsLimit, tool, history, GrantInv, CallOK, Active
    <2>12. QED
        BY <1>7, <2>3, <2>4, <2>6, <2>7, <2>8, <2>9, <2>10, <2>11 DEF Tool
<1>8. CASE Oauth
    BY <1>8 DEF Oauth, OauthResumes, OauthFails, ReloadFails, history, GrantInv, Active
<1>9. CASE Disconnect
    <2>1. /\ sup' \in {"idle", "interrupted"} /\ step' = "start"
          /\ null' \in {null, "none"}
          /\ UNCHANGED <<agent, resume, shown, asks, child, granted>>
        BY <1>9 DEF Disconnect
    <2>2. sup' = "interrupted" => Active
        BY <1>1, <1>9 DEF Disconnect, CallOK, RunOK, Active
    <2>3. ran' = ran \/ (sup = "tool" /\ child[agent].waits # NoOp /\ HasAnswer /\ Confirms(NextAnswer)
                          /\ ran' = ran \cup {child[agent].waits})
        BY <1>9 DEF Disconnect, AtStep
    <2>4. ran' \subseteq granted
        BY <2>3, AnswerIsToShown DEF GrantInv
    <2>5. QED
        BY <2>1, <2>2, <2>4 DEF GrantInv, Active
<1>10. CASE UNCHANGED vars
    BY <1>10 DEF vars, tool, history, GrantInv, Active
<1>11. QED
    BY <1>2, <1>3, <1>4, <1>5, <1>6, <1>7, <1>8, <1>9, <1>10 DEF Next, User, Model

\* Nothing was granted, and nothing ran, initially.
LEMMA InitGrant == Init => GrantInv
    BY DEF Init, GrantInv, Active

\* With one confirmation in a tool call at most, an operation runs only if the user said
\* yes to that very operation, in every behaviour, through stops, faults and lost
\* connections.
THEOREM OnlyGrantedRuns == AsksPerCall <= 1 /\ Spec => []RunsOnlyGranted
<1>1. GrantInv => RunsOnlyGranted
    BY DEF GrantInv, RunsOnlyGranted
<1>2. QED
    <2> SUFFICES ASSUME AsksPerCall <= 1
                 PROVE  Spec => []RunsOnlyGranted
        OBVIOUS
    <2>1. TypeInv /\ GrantInv /\ [Next]_vars => GrantInv'
        BY NextGrant
    <2>2. QED
        BY <1>1, <2>1, InitType, NextType, InitGrant, PTL DEF Spec

\* With one confirmation in a tool call at most, an operation runs only on the answer just
\* given to it, in every behaviour: no answer that was given before runs anything later.
THEOREM LastAnswerRuns == AsksPerCall <= 1 /\ Spec => RunsOnLastAnswer
<1> SUFFICES ASSUME AsksPerCall <= 1
             PROVE  Spec => RunsOnLastAnswer
    OBVIOUS
<1>1. TypeInv /\ GrantInv /\ [Next]_vars =>
          [ran' # ran => null = "yes" /\ shown # NoOp /\ ran' = ran \cup {shown}]_vars
    <2> SUFFICES ASSUME TypeInv, GrantInv, [Next]_vars, ran' # ran
                 PROVE  null = "yes" /\ shown # NoOp /\ ran' = ran \cup {shown}
        OBVIOUS
    <2>1. ToolResumesConfirmed \/ ToolResumeFails \/ Disconnect
        BY DEF Next, User, StartTurn, StopRun, Answer, Model, ModelCalls, ModelAnswers, ModelEndsCancelled,
               ModelExceedsLimit, Tool, ToolNeedsOauth2, ToolSends, ToolAsks, ToolResumesDeclined,
               ToolResumesUnprepared, ToolSendFails, ToolCancelled, ToolAsksAgain, ToolReturns,
               ToolsExceedLimit, ExceedsLimit, Ask, Oauth, OauthResumes, OauthFails, ReloadFails, tool, history, vars
    <2>2. /\ sup = "tool" /\ child[agent].waits # NoOp /\ HasAnswer /\ Confirms(NextAnswer)
          /\ ran' = ran \cup {child[agent].waits}
        BY <2>1 DEF ToolResumesConfirmed, ToolResumeFails, Disconnect, AtStep
    <2>3. QED
        BY <2>2, AnswerIsToShown DEF Confirms
<1>2. TypeInv /\ GrantInv /\ [Next]_vars => GrantInv'
    BY NextGrant
<1>3. QED
    BY <1>1, <1>2, InitType, NextType, InitGrant, PTL DEF Spec, RunsOnLastAnswer

\* With one confirmation in a tool call at most, a child waits for the user after its tool
\* call got a result only if resuming it, or logging in, had failed, in every behaviour.
THEOREM NoneForgotten == AsksPerCall <= 1 /\ Spec => ConfirmationEndsWithCall
<1> SUFFICES ASSUME AsksPerCall <= 1
             PROVE  Spec => ConfirmationEndsWithCall
    OBVIOUS
<1>1. TypeInv /\ TurnInv /\ GrantInv /\ [Next]_vars =>
          [tail = "call" /\ tail' \in {"result", "cancelled", "ai"} /\ child'[agent].waits # NoOp
            => ToolResumeFails \/ OauthFails]_vars
    <2> SUFFICES ASSUME TypeInv, TurnInv, GrantInv, [Next]_vars, tail = "call",
                        tail' \in {"result", "cancelled", "ai"}, child'[agent].waits # NoOp,
                        ~ToolResumeFails, ~OauthFails
                 PROVE  FALSE
        OBVIOUS
    <2>1. StopRun \/ ModelAnswers \/ ModelEndsCancelled \/ ToolSendFails \/ ToolCancelled \/ ToolReturns
        BY DEF Next, User, StartTurn, Answer, Model, ModelCalls, ModelExceedsLimit, Tool,
               ToolNeedsOauth2, ToolSends, ToolAsks, ToolResumesConfirmed, ToolResumesDeclined,
               ToolResumesUnprepared, ToolAsksAgain, ToolsExceedLimit, ExceedsLimit, Ask, Oauth,
               OauthResumes, ReloadFails, Disconnect, vars
    <2>2. CASE StopRun
        <3>1. child' = [a \in Children |-> [child[a] EXCEPT !.waits = NoOp]]
            BY <2>2 DEF StopRun, CloseStopped, ChildrenClosed
        <3>2. sup \in {"model", "tool"} /\ sup # "model"
            BY <2>2 DEF StopRun, TurnInv
        <3>3. agent \in Children /\ child[agent] \in ChildRecords
            BY <3>2 DEF TypeInv, CallOK, KeptOK, Active
        <3>4. child'[agent].waits = NoOp
            BY <3>1, <3>3 DEF ChildRecords
        <3>5. QED
            BY <3>4
    <2>3. CASE ModelAnswers \/ ModelEndsCancelled
        BY <2>3 DEF ModelAnswers, ModelEndsCancelled, MayThink, TurnInv
    <2>4. CASE ToolSendFails
        BY <2>4 DEF ToolSendFails
    <2>5. CASE ToolCancelled \/ ToolReturns
        <3>1. child' = child /\ sup = "tool" /\ step \in {"returned", "resumed"}
            BY <2>5 DEF ToolCancelled, ToolReturns, MayReturn, AtStep
        <3>2. step = "returned" /\ null = "none"
            BY <3>1 DEF GrantInv
        <3>3. HasAnswer
            BY <2>5, <3>1, <3>2 DEF ToolCancelled, ToolReturns, MayReturn, AtStep
        <3>4. null # "none"
            BY <3>1, <3>3, AnswerIsToShown
        <3>5. QED
            BY <3>2, <3>4
    <2>6. QED
        BY <2>1, <2>2, <2>3, <2>4, <2>5
<1>2. TypeInv /\ GrantInv /\ [Next]_vars => GrantInv'
    BY NextGrant
<1>3. QED
    BY <1>1, <1>2, InitType, NextType, InitTurn, NextTurn, InitGrant, PTL DEF Spec, ConfirmationEndsWithCall

-----------------------------------------------------------------------------
(* A "no" that its child does not miss.                                    *)

\* After a "no" there is only the way to the child, and from it to the end of the run.
DeclineInv ==
    refused => \/ sup \in {"idle", "interrupted"}
               \/ sup = "model" /\ tail = "cancelled"
               \/ sup = "tool" /\ step = "resumed" /\ child[agent].cancelled
               \/ sup \in {"tool", "oauth"} /\ step = "start" /\ null = "no"

\* Every step keeps it so.
LEMMA NextDecline == TypeInv /\ GrantInv /\ DeclineInv /\ [Next]_vars => DeclineInv'
<1> SUFFICES ASSUME TypeInv, GrantInv, DeclineInv, [Next]_vars
             PROVE  DeclineInv'
    OBVIOUS
<1>1. RunOK /\ ToolOK /\ KeptOK /\ CallOK
    BY DEF TypeInv
<1>2. CASE StartTurn \/ Disconnect \/ ToolSends \/ ToolSendFails \/ ToolResumeFails \/ ToolResumesUnprepared
    <2>1. refused' = FALSE
        BY <1>2 DEF StartTurn, Disconnect, ToolSends, ToolSendFails, ToolResumeFails, ToolResumesUnprepared, MissesAnswer
    <2>2. ~refused'
        BY <2>1, Zenon
    <2>3. QED
        BY <2>2 DEF DeclineInv
<1>3. ASSUME NEW v \in Answers, Answer(v)
      PROVE  DeclineInv'
    <2>1. sup' = "tool" /\ step' = "start" /\ null' = v /\ refused' = (v = "no")
        BY <1>3 DEF Answer
    <2>2. refused' => null' = "no"
        BY <2>1, Zenon
    <2>3. QED
        BY <2>1, <2>2 DEF DeclineInv
<1>4. CASE StopRun \/ ModelAnswers \/ ModelEndsCancelled \/ ModelExceedsLimit \/ ToolsExceedLimit \/ OauthFails
    <2>1. sup' = "idle"
        BY <1>4 DEF StopRun, ModelAnswers, ModelEndsCancelled, ModelExceedsLimit, ToolsExceedLimit, ExceedsLimit,
                    OauthFails
    <2>2. QED
        BY <2>1 DEF DeclineInv
<1>5. ASSUME NEW a \in Children, ModelCalls(a)
      PROVE  DeclineInv'
    <2>1. /\ sup = "model" /\ tail # "cancelled" /\ refused' = refused
        BY <1>5 DEF ModelCalls, MayThink, history
    <2>2. QED
        BY <2>1 DEF DeclineInv
<1>6. CASE ToolNeedsOauth2
    BY <1>6 DEF ToolNeedsOauth2, tool, history, DeclineInv
<1>7. CASE ToolAsks \/ ToolAsksAgain
    <2>1. sup' = "interrupted"
        BY <1>7 DEF ToolAsks, ToolAsksAgain, Ask
    <2>2. QED
        BY <2>1 DEF DeclineInv
<1>8. CASE ToolResumesConfirmed
    <2>1. /\ child[agent].waits # NoOp /\ HasAnswer /\ Confirms(NextAnswer)
          /\ sup = "tool" /\ step = "start" /\ refused' = refused
        BY <1>8 DEF ToolResumesConfirmed, AtStep
    <2>2. null = "yes"
        BY <2>1, AnswerIsToShown DEF Confirms
    <2>3. QED
        BY <2>1, <2>2 DEF DeclineInv
<1>9. CASE ToolResumesDeclined
    <2>1. /\ sup = "tool" /\ agent \in Children /\ sup' = "tool" /\ step' = "resumed" /\ agent' = agent
          /\ child' = [child EXCEPT ![agent] = [waits |-> NoOp, cancelled |-> TRUE]]
        BY <1>1, <1>9 DEF ToolResumesDeclined, AtStep, CallOK, Active
    <2>2. child'[agent'].cancelled = TRUE
        BY <1>1, <2>1 DEF KeptOK
    <2>3. child'[agent'].cancelled
        BY <2>2, Zenon
    <2>4. QED
        BY <2>1, <2>3 DEF DeclineInv
<1>10. CASE ToolCancelled
    BY <1>10 DEF ToolCancelled, Return, DeclineInv
<1>11. CASE ToolReturns
    <2>1. ~FindsCancelled /\ sup = "tool" /\ step \in {"returned", "resumed"} /\ refused' = refused
        BY <1>11 DEF ToolReturns, MayReturn, AtStep
    <2>2. ~refused
        BY <2>1 DEF DeclineInv, FindsCancelled
    <2>3. QED
        BY <2>1, <2>2 DEF DeclineInv
<1>12. CASE OauthResumes \/ ReloadFails
    <2>1. /\ sup = "oauth" /\ refused' = refused /\ step' = step
          /\ (sup' = "tool" /\ null' = null) \/ sup' \in {"idle", "interrupted"}
        BY <1>12 DEF OauthResumes, ReloadFails, history
    <2>2. QED
        BY <2>1 DEF DeclineInv
<1>13. CASE UNCHANGED vars
    BY <1>13 DEF vars, tool, history, DeclineInv
<1>14. QED
    BY <1>2, <1>3, <1>4, <1>5, <1>6, <1>7, <1>8, <1>9, <1>10, <1>11, <1>12, <1>13 DEF Next, User, Model, Oauth, Tool

\* Nothing was refused initially.
LEMMA InitDecline == Init => DeclineInv
<1>1. Init => refused = FALSE /\ sup = "idle"
    BY DEF Init
<1>2. QED
    BY <1>1 DEF DeclineInv

\* With one confirmation in a tool call at most, no child is called after the user said
\* no, in every behaviour: through logins, reloads that fail, stops, lost connections and
\* children that raise, unless the child misses the answer (MissesAnswer).
THEOREM DeclinedIsLast == AsksPerCall <= 1 /\ Spec => DeclineEndsTurn
<1> SUFFICES ASSUME AsksPerCall <= 1
             PROVE  Spec => DeclineEndsTurn
    OBVIOUS
<1>1. DeclineInv => [\A a \in Children : ModelCalls(a) => ~refused]_vars
    BY DEF DeclineInv, ModelCalls, MayThink
<1>2. TypeInv /\ GrantInv /\ [Next]_vars => GrantInv'
    BY NextGrant
<1>3. TypeInv /\ GrantInv /\ DeclineInv /\ [Next]_vars => DeclineInv'
    BY NextDecline
<1>4. QED
    BY <1>1, <1>2, <1>3, InitType, NextType, InitGrant, InitDecline, PTL DEF Spec, DeclineEndsTurn
=============================================================================
