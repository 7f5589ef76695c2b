---------------------------- MODULE PlannerProofs ----------------------------
(* Proofs about Planner, for every value of its constants.                 *)
EXTENDS Planner, SequenceTheorems, TLAPS

(***************************************************************************)
(* The operators on plans.                                                 *)
(***************************************************************************)
\* A function over 1..n with values in S is a sequence of length n.
LEMMA FunctionIsSeq ==
    ASSUME NEW S, NEW n \in Nat, NEW f \in [1..n -> S]
    PROVE  f \in Seq(S) /\ Len(f) = n
<1>1. f \in Seq(S)
    BY SeqDef
<1>2. QED
    BY <1>1, LenProperties

\* Changing a subtask's status changes nothing else of the plan.
LEMMA WithStatusFacts ==
    ASSUME NEW sts \in Seq(SubTask), NEW i \in DOMAIN sts, NEW s \in Statuses
    PROVE  /\ WithStatus(sts, i, s) \in Seq(SubTask)
           /\ Len(WithStatus(sts, i, s)) = Len(sts)
           /\ \A j \in 1..Len(sts) :
                /\ WithStatus(sts, i, s)[j].status = IF j = i THEN s ELSE sts[j].status
                /\ WithStatus(sts, i, s)[j].task = sts[j].task
                /\ WithStatus(sts, i, s)[j].agent = sts[j].agent
<1> DEFINE t == [sts[i] EXCEPT !.status = s]
<1>1. i \in 1..Len(sts) /\ DOMAIN sts = 1..Len(sts)
    BY LenProperties
<1>2. sts[i] \in SubTask
    BY <1>1, ElementOfSeq
<1>3. t \in SubTask /\ t.status = s /\ t.task = sts[i].task /\ t.agent = sts[i].agent
    BY <1>2 DEF SubTask
<1>4. WithStatus(sts, i, s) = [sts EXCEPT ![i] = t]
    BY DEF WithStatus
<1>5. QED
    BY <1>1, <1>3, <1>4, ExceptSeq

\* A retried or restarted plan has the same subtasks, in the same order.
LEMMA RetriedFacts ==
    ASSUME subtasks \in Seq(SubTask)
    PROVE  /\ RetriedSubtasks \in Seq(SubTask)
           /\ Len(RetriedSubtasks) = Len(subtasks)
           /\ \A j \in 1..Len(subtasks) :
                /\ RetriedSubtasks[j].status =
                     IF request = "restart" \/ subtasks[j].status \in {"failed", "cancelled"}
                     THEN "pending" ELSE subtasks[j].status
                /\ RetriedSubtasks[j].task = subtasks[j].task
                /\ RetriedSubtasks[j].agent = subtasks[j].agent
<1>1. Len(subtasks) \in Nat /\ \A j \in 1..Len(subtasks) : subtasks[j] \in SubTask
    BY LenProperties, ElementOfSeq
<1>2. \A j \in 1..Len(subtasks) :
        /\ [subtasks[j] EXCEPT !.status = "pending"] \in SubTask
        /\ [subtasks[j] EXCEPT !.status = "pending"].status = "pending"
        /\ [subtasks[j] EXCEPT !.status = "pending"].task = subtasks[j].task
        /\ [subtasks[j] EXCEPT !.status = "pending"].agent = subtasks[j].agent
    BY <1>1 DEF SubTask, Statuses
<1>3. RetriedSubtasks \in [1..Len(subtasks) -> SubTask]
    BY <1>1, <1>2 DEF RetriedSubtasks
<1>4. RetriedSubtasks \in Seq(SubTask) /\ Len(RetriedSubtasks) = Len(subtasks)
    BY <1>1, <1>3, FunctionIsSeq
<1>5. QED
    BY <1>1, <1>2, <1>4 DEF RetriedSubtasks

\* A drafted plan is not empty and its tasks are new.
LEMMA DraftedFacts ==
    ASSUME plans \in 0..MaxPlans, plans < MaxPlans, NEW sts \in DraftedSubtasks
    PROVE  /\ sts \in Seq(SubTask)
           /\ Len(sts) \in 1..MaxSubtasks
           /\ \A j \in 1..Len(sts) : sts[j].status \in PlanStatuses /\ sts[j].task = <<plans + 1, j>>
<1>1. PICK n \in 1..MaxSubtasks : sts \in {Draft(choice) : choice \in [1..n -> AgentNames \X PlanStatuses]}
    BY DEF DraftedSubtasks
<1>2. PICK choice \in [1..n -> AgentNames \X PlanStatuses] : sts = Draft(choice)
    BY <1>1
<1>3. n \in Nat /\ plans + 1 \in 1..MaxPlans /\ 1..n \subseteq 1..MaxSubtasks
    BY PlannerAssumption
<1>4. ASSUME NEW i \in 1..n
      PROVE  /\ sts[i] \in SubTask
             /\ sts[i].status \in PlanStatuses
             /\ sts[i].task = <<plans + 1, i>>
    BY <1>2, <1>3, PlannerAssumption DEF SubTask, Tasks, Draft
<1>5. sts \in [1..n -> SubTask]
    BY <1>2, <1>4 DEF Draft
<1>6. sts \in Seq(SubTask) /\ Len(sts) = n
    BY <1>3, <1>5, FunctionIsSeq
<1>7. QED
    BY <1>4, <1>6

(***************************************************************************)
(* Type correctness.  The approval node only ever sees a plan, which is    *)
(* what makes the plan it approves well defined.                           *)
(***************************************************************************)
TypeInv == TypeOK /\ (node = "approval" => subtasks # << >>)

Calls == [agent : ChildAgents \cup {NoAgent}, count : 0..(RecommendAfter - 1)]

\* A thread without checkpoints is well typed.
LEMMA InitType == Init => TypeInv
<1> SUFFICES ASSUME Init PROVE TypeInv
    OBVIOUS
<1>1. << >> \in Seq(SubTask) /\ << >> \in Seq(Result)
    OBVIOUS
<1>2. child \in [ChildAgents -> ChildThread]
    BY DEF Init, ChildThread
<1>3. calls \in Calls
    BY PlannerAssumption DEF Init, Calls
<1>4. needs_oauth2 \subseteq OAuthAgents
    BY DEF Init
<1>5. plans \in 0..MaxPlans /\ feedback \in Nat /\ approved \subseteq 1..MaxPlans
    BY PlannerAssumption DEF Init
<1>6. /\ mode = "idle" /\ node = "end" /\ work = "none" /\ request = "task"
      /\ tail = "none" /\ prior = "none" /\ answer = "none" /\ wait = "none"
      /\ cancelled = FALSE /\ retry = FALSE /\ awaiting_input = FALSE
      /\ subtasks = << >> /\ results = << >>
    BY DEF Init
<1>7. QED
    BY <1>1, <1>2, <1>3, <1>4, <1>5, <1>6
    DEF TypeInv, TypeOK, Nodes, Requests, MessageKinds, Calls

\* Closing or cutting the children keeps their threads well typed.
LEMMA ClosedChildrenType ==
    ASSUME child \in [ChildAgents -> ChildThread]
    PROVE  ChildrenClosed \in [ChildAgents -> ChildThread] /\ CutChildren \in [ChildAgents -> ChildThread]
    BY DEF ChildThread, ChildrenClosed, CutChildren

\* An aborted run.
LEMMA AbortRunType ==
    ASSUME TypeInv, AbortRun,
           child' \in [ChildAgents -> ChildThread], calls' \in Calls, needs_oauth2' \subseteq OAuthAgents
    PROVE  TypeInv'
    BY DEF TypeInv, TypeOK, AbortRun, Nodes, state, Calls

\* A return of the execute node.
LEMMA ExecuteReturnsType ==
    ASSUME TypeInv, NEW sts \in Seq(SubTask), NEW res \in Seq(Result),
           NEW stopped \in BOOLEAN, NEW awaiting \in BOOLEAN, NEW kind \in MessageKinds,
           ExecuteReturns(sts, res, stopped, awaiting, kind),
           child' \in [ChildAgents -> ChildThread], calls' \in Calls
    PROVE  TypeInv'
<1>1. node' \in {"execute", "reduce", "ui_tools", "summarize"}
    BY DEF ExecuteReturns, RouteNext
<1>2. /\ mode' = mode /\ request' = request /\ prior' = prior /\ feedback' = feedback
      /\ retry' = retry /\ needs_oauth2' = needs_oauth2 /\ plans' = plans /\ approved' = approved
      /\ work' = "none" /\ answer' = "none" /\ wait' = "none"
      /\ subtasks' = sts /\ results' = res /\ cancelled' = stopped
      /\ awaiting_input' = awaiting /\ tail' = kind
    BY DEF ExecuteReturns
<1>3. QED
    BY <1>1, <1>2 DEF TypeInv, TypeOK, Nodes, Calls

\* The execute node giving the plan up: a failed or a declined subtask.
LEMMA FailPlanType ==
    ASSUME TypeInv, NEW i \in DOMAIN subtasks, FailPlan(i) \/ CancelPlan(i),
           child' \in [ChildAgents -> ChildThread], calls' \in Calls
    PROVE  TypeInv'
<1>1. \A s \in Statuses : WithStatus(subtasks, i, s) \in Seq(SubTask)
    BY WithStatusFacts DEF TypeInv, TypeOK
<1>2. results \in Seq(Result)
    BY DEF TypeInv, TypeOK
<1>3. CASE FailPlan(i)
    BY <1>1, <1>2, <1>3, ExecuteReturnsType DEF FailPlan, Statuses, MessageKinds
<1>4. CASE CancelPlan(i)
    BY <1>1, <1>2, <1>4, ExecuteReturnsType DEF CancelPlan, Statuses, MessageKinds
<1>5. QED
    BY <1>3, <1>4

\* The plan node storing a plan, drafted or retried.
LEMMA StorePlanType ==
    ASSUME TypeInv, NEW sts \in Seq(SubTask), NEW again \in BOOLEAN, StorePlan(sts, again),
           plans' \in 0..MaxPlans, sts # << >>
    PROVE  TypeInv'
<1>1. node' \in {"execute", "approval"}
    BY DEF StorePlan, RouteAfterPlan
<1>2. << >> \in Seq(Result) /\ results' \in Seq(Result)
    BY DEF StorePlan, TypeInv, TypeOK
<1>3. /\ mode' = mode /\ work' = work /\ request' = request /\ prior' = prior
      /\ answer' = answer /\ wait' = wait /\ child' = child /\ needs_oauth2' = needs_oauth2
      /\ calls' = calls /\ tail' = tail /\ feedback' = feedback
      /\ awaiting_input' = awaiting_input /\ approved' = approved
      /\ subtasks' = sts /\ cancelled' = FALSE /\ retry' = again
    BY DEF StorePlan, PlanKeeps
<1>4. retry' \in BOOLEAN /\ cancelled' \in BOOLEAN /\ subtasks' \in Seq(SubTask) /\ node' \in Nodes
    BY <1>1, <1>3 DEF Nodes
<1>5. TypeOK'
    BY <1>2, <1>3, <1>4 DEF TypeInv, TypeOK
<1>6. QED
    BY <1>3, <1>5 DEF TypeInv

\* Every step of a planner's thread keeps its type.
LEMMA TypeStep == TypeInv /\ [Next]_vars => TypeInv'
<1> SUFFICES ASSUME TypeInv, [Next]_vars PROVE TypeInv'
    OBVIOUS
<1> DEFINE Threads == [ChildAgents -> ChildThread]
<1>0. /\ child \in Threads /\ calls \in Calls /\ needs_oauth2 \subseteq OAuthAgents
      /\ subtasks \in Seq(SubTask) /\ results \in Seq(Result)
      /\ DOMAIN subtasks = 1..Len(subtasks) /\ Len(subtasks) \in Nat
      /\ tail \in MessageKinds /\ cancelled \in BOOLEAN
      /\ feedback \in Nat /\ approved \subseteq 1..MaxPlans
    BY LenProperties DEF TypeInv, TypeOK, Calls
<1>1. ChildrenClosed \in Threads /\ CutChildren \in Threads
    BY <1>0, ClosedChildrenType
<1>2. << >> \in Seq(SubTask) /\ << >> \in Seq(Result)
    OBVIOUS
<1>3. CASE UNCHANGED vars
    BY <1>3 DEF vars, state, TypeInv, TypeOK
<1>4. ASSUME NEW r \in Requests, StartTurn(r) PROVE TypeInv'
    BY <1>4 DEF StartTurn, TypeInv, TypeOK, state, Nodes, MessageKinds
<1>5. ASSUME NEW a \in {"yes", "no", "other"}, ResumeTurn(a) PROVE TypeInv'
    BY <1>5 DEF ResumeTurn, TypeInv, TypeOK, state
<1>6. CASE StopRun
  <2>1. child' \in Threads /\ mode' = "idle" /\ node' = "end" /\ work' = "none" /\ answer' = "none" /\ wait' = "none"
      BY <1>1, <1>6 DEF StopRun
  <2>2. CASE ResetStopped
    BY <1>2, <1>6, <2>1, <2>2 DEF StopRun, ResetStopped, TypeInv, TypeOK, Nodes, MessageKinds
  <2>3. CASE UNCHANGED <<state, tail>>
    BY <1>6, <2>1, <2>3 DEF StopRun, TypeInv, TypeOK, Nodes, state
  <2>4. QED
    BY <1>6, <2>2, <2>3 DEF StopRun
<1>7. CASE StopWaitingPlan
  <2>1. child' \in Threads
      BY <1>1, <1>7 DEF StopWaitingPlan
  <2>2. QED
    BY <1>2, <1>7, <2>1 DEF StopWaitingPlan, ResetStopped, TypeInv, TypeOK, Nodes, MessageKinds
<1>8. CASE Disconnect
  <2>1. child' \in Threads /\ calls' \in Calls /\ needs_oauth2' \subseteq OAuthAgents
    BY <1>1, <1>8, PlannerAssumption DEF Disconnect, Calls
  <2>2. CASE AbortRun
    BY <2>1, <2>2, AbortRunType
  <2>3. CASE UNCHANGED <<mode, node, work, answer, request, tail, prior, wait, state, plans, approved>>
    BY <2>1, <2>3 DEF TypeInv, TypeOK, state, Calls
  <2>4. QED
    BY <1>8, <2>2, <2>3 DEF Disconnect
<1>9. CASE RunError
    BY <1>0, <1>9, AbortRunType DEF RunError
<1>10. CASE Oauth
  <2>1. CASE OauthResumes
    BY <2>1 DEF OauthResumes, TypeInv, TypeOK, state
  <2>2. CASE OauthAbandoned
    BY <1>0, <2>2, AbortRunType DEF OauthAbandoned
  <2>3. QED
    BY <1>10, <2>1, <2>2 DEF Oauth
<1>11. CASE PlanNode
  <2>1. CASE PlanForwardsAnswer
    <3>1. node' \in Nodes /\ node' # "approval"
      BY <2>1 DEF PlanForwardsAnswer, AnswersQuestion, RouteAfterPlan, Nodes
    <3>2. QED
      BY <2>1, <3>1 DEF PlanForwardsAnswer, TypeInv, TypeOK, state
  <2>2. CASE PlanFailureAction
    <3>1. node' = "summarize"
      BY <2>2 DEF PlanFailureAction, RouteAfterPlan
    <3>2. QED
      BY <1>2, <2>2, <3>1 DEF PlanFailureAction, TypeInv, TypeOK, Nodes, MessageKinds
  <2>3. CASE PlanRetries
    <3>1. RetriedSubtasks \in Seq(SubTask) /\ RetriedSubtasks # << >>
      BY <1>0, <2>3, RetriedFacts, EmptySeq DEF PlanRetries
    <3>2. QED
      BY <2>3, <3>1, StorePlanType DEF PlanRetries, TypeInv, TypeOK
  <2>4. CASE PlanDrafts
    <3>1. PICK sts \in DraftedSubtasks : StorePlan(sts, FALSE)
      BY <2>4 DEF PlanDrafts
    <3>2. plans \in 0..MaxPlans /\ plans < MaxPlans /\ plans' = plans + 1
      BY <2>4 DEF PlanDrafts, TypeInv, TypeOK
    <3>3. sts \in Seq(SubTask) /\ sts # << >>
      BY <3>2, DraftedFacts, EmptySeq, PlannerAssumption
    <3>4. plans' \in 0..MaxPlans /\ FALSE \in BOOLEAN
      BY <3>2, PlannerAssumption
    <3>5. QED
      BY <3>1, <3>3, <3>4, StorePlanType
  <2>5. ASSUME NEW k \in {"none", "reply", "cancel"}, PlanEndsTurn(k) PROVE TypeInv'
    <3>1. node' = "summarize" /\ tail' = "ai" /\ cancelled' \in BOOLEAN /\ feedback' = 0
      BY <2>5 DEF PlanEndsTurn, RejectPlan, RouteAfterPlan
    <3>2. /\ subtasks' = << >> /\ results' = << >>
          /\ UNCHANGED <<retry, awaiting_input, PlanKeeps, plans, approved>>
      BY <2>5 DEF PlanEndsTurn, RejectPlan
    <3>3. QED
      BY <1>2, <3>1, <3>2 DEF PlanKeeps, TypeInv, TypeOK, Nodes, MessageKinds
  <2>6. QED
    BY <1>11, <2>1, <2>2, <2>3, <2>4, <2>5 DEF PlanNode
<1>12. CASE ApprovalAsks
    BY <1>12 DEF ApprovalAsks, Interrupt, TypeInv, TypeOK, state
<1>13. CASE ApprovalAnswered
  <2>1. subtasks[1].task[1] \in 1..MaxPlans
    <3>1. 1 \in 1..Len(subtasks)
      BY <1>0, <1>13, EmptySeq DEF ApprovalAnswered, AtNode, TypeInv
    <3>2. subtasks[1] \in SubTask
      BY <1>0, <3>1, ElementOfSeq
    <3>3. subtasks[1].task \in (1..MaxPlans) \X (1..MaxSubtasks)
      BY <3>2 DEF SubTask, Tasks
    <3>4. QED
      BY <3>3
  <2>2. node' \in {"summarize", "plan", "execute"}
    BY <1>13 DEF ApprovalAnswered, RouteAfterApproval
  <2>3. /\ subtasks' \in Seq(SubTask) /\ results' \in Seq(Result)
        /\ feedback' \in Nat /\ tail' \in MessageKinds
    <3>1. \/ feedback' = 0 \/ feedback' = feedback + 1
      BY <1>13 DEF ApprovalAnswered, RejectPlan
    <3>2. \/ UNCHANGED <<subtasks, results, tail>>
          \/ subtasks' = << >> /\ results' = << >> /\ tail' = "ai"
      BY <1>13 DEF ApprovalAnswered, RejectPlan
    <3>3. feedback' \in Nat
      BY <1>0, <3>1
    <3>4. "ai" \in MessageKinds
      BY DEF MessageKinds
    <3>5. QED
      BY <1>0, <1>2, <3>2, <3>3, <3>4
  <2>4. approved' \subseteq 1..MaxPlans
    <3>1. approved' = approved \cup {subtasks[1].task[1]} \/ approved' = approved
      BY <1>13 DEF ApprovalAnswered
    <3>2. QED
      BY <1>0, <2>1, <3>1
  <2>5. cancelled' \in BOOLEAN /\ retry' = retry /\ awaiting_input' = awaiting_input
    <3>1. cancelled' = cancelled \/ cancelled' = TRUE
      BY <1>13 DEF ApprovalAnswered, RejectPlan
    <3>2. QED
      BY <1>0, <1>13, <3>1, Zenon DEF ApprovalAnswered, RejectPlan
  <2>6. QED
    BY <1>13, <2>2, <2>3, <2>4, <2>5 DEF ApprovalAnswered, TypeInv, TypeOK, Nodes
<1>14. CASE ExecuteFindsNothing
    BY <1>0, <1>14, AbortRunType DEF ExecuteFindsNothing
<1>15. CASE ExecuteUnknownAgent
    BY <1>0, <1>15, FailPlanType DEF ExecuteUnknownAgent
<1>16. CASE ExecuteNeedsOauth2
    BY <1>16 DEF ExecuteNeedsOauth2, TypeInv, TypeOK, state
<1>17. ASSUME NEW i \in DOMAIN subtasks, NEW a \in ChildAgents,
              ExecuteSends(i, a) \/ ExecuteSurfaces(i, a) \/ ExecuteResumesChild(i, a)
       PROVE  TypeInv'
  <2>0. subtasks[i] \in SubTask
    BY <1>0, ElementOfSeq
  <2>1. subtasks[i].task \in Tasks
    BY <2>0 DEF SubTask
  <2>2. CASE ExecuteSends(i, a)
    <3>1. child' \in Threads
      BY <1>0, <2>1, <2>2 DEF ExecuteSends, ChildThread
    <3>2. QED
      BY <2>2, <3>1 DEF ExecuteSends, TypeInv, TypeOK, state
  <2>3. CASE ExecuteSurfaces(i, a)
    BY <2>3 DEF ExecuteSurfaces, Interrupt, TypeInv, TypeOK, state
  <2>4. CASE ExecuteResumesChild(i, a)
    <3>1. child' \in Threads
      BY <1>0, <2>4 DEF ExecuteResumesChild, ChildThread
    <3>2. QED
      BY <2>4, <3>1 DEF ExecuteResumesChild, TypeInv, TypeOK, state
  <2>5. QED
    BY <1>17, <2>2, <2>3, <2>4
<1>18. ASSUME NEW i \in DOMAIN subtasks, NEW a \in ChildAgents,
              \/ ExecutePausedReturns(i, a) \/ ExecuteDeclinedReturns(i, a)
              \/ ExecuteCompletes(i, a) \/ ExecuteNeedsInput(i, a) \/ ExecuteFails(i, a)
       PROVE  TypeInv'
  <2>1. \A s \in Statuses : WithStatus(subtasks, i, s) \in Seq(SubTask)
    BY <1>0, WithStatusFacts
  <2>2. [child EXCEPT ![a].phase = "idle"] \in Threads
    BY <1>0 DEF ChildThread
  <2>3. CASE ExecutePausedReturns(i, a)
    BY <1>0, <2>1, <2>3, ExecuteReturnsType DEF ExecutePausedReturns, Statuses
  <2>4. CASE ExecuteDeclinedReturns(i, a)
    BY <1>0, <2>2, <2>4, FailPlanType DEF ExecuteDeclinedReturns
  <2>5. CASE ExecuteCompletes(i, a)
    <3>1. [task |-> subtasks[i].task, got |-> child[a].task] \in Result
      <4>1. subtasks[i] \in SubTask /\ child[a] \in ChildThread
        BY <1>0, ElementOfSeq
      <4>2. QED
        BY <4>1 DEF SubTask, Result, ChildThread
    <3>2. Append(results, [task |-> subtasks[i].task, got |-> child[a].task]) \in Seq(Result)
      BY <1>0, <3>1, AppendProperties
    <3>3. calls' \in Calls
      BY <1>0, <2>5, PlannerAssumption DEF ExecuteCompletes, RecordCall, Calls
    <3>4. (IF IsDirectHandoff(subtasks) THEN "ai" ELSE tail) \in MessageKinds
      BY <1>0 DEF MessageKinds
    <3>5. QED
      BY <1>0, <2>1, <2>5, <3>2, <3>3, <3>4, ExecuteReturnsType DEF ExecuteCompletes, Statuses
  <2>6. CASE ExecuteNeedsInput(i, a)
    BY <1>0, <2>1, <2>6, ExecuteReturnsType DEF ExecuteNeedsInput, Statuses, MessageKinds
  <2>7. CASE ExecuteFails(i, a)
    BY <1>0, <2>7, FailPlanType DEF ExecuteFails
  <2>8. QED
    BY <1>18, <2>3, <2>4, <2>5, <2>6, <2>7
<1>19. ASSUME NEW i \in DOMAIN subtasks, NEW a \in ChildAgents, ChildRaises(i, a)
       PROVE  TypeInv'
  <2>1. child' \in Threads /\ calls' \in Calls
    BY <1>0, <1>19 DEF ChildRaises, ChildThread
  <2>2. CASE AbortRun /\ UNCHANGED needs_oauth2
    BY <1>0, <2>1, <2>2, AbortRunType
  <2>3. CASE FailPlan(i)
    BY <2>1, <2>3, FailPlanType
  <2>4. QED
    BY <1>19, <2>2, <2>3 DEF ChildRaises
<1>20. ASSUME NEW i \in DOMAIN subtasks, NEW a \in ChildAgents,
              NEW phase \in {"idle", "paused"}, ChildStops(i, a, phase)
       PROVE  TypeInv'
  <2>1. child' \in Threads
    BY <1>0, <1>20 DEF ChildStops, ChildThread
  <2>2. QED
    BY <1>20, <2>1 DEF ChildStops, TypeInv, TypeOK, state
<1>21. CASE Reduce
    BY <1>2, <1>21 DEF Reduce, TypeInv, TypeOK, Nodes, MessageKinds
<1>22. CASE SelectUiTools \/ Summarize
  <2>1. node' \in {"end", "summarize"} /\ mode' \in {mode, "idle"}
    BY <1>22 DEF SelectUiTools, Summarize
  <2>2. UNCHANGED <<work, request, tail, prior, answer, wait, state, child,
                    needs_oauth2, calls, plans, approved>>
    BY <1>22 DEF SelectUiTools, Summarize
  <2>3. QED
    BY <2>1, <2>2 DEF TypeInv, TypeOK, Nodes, state
<1>23. QED
    BY <1>3, <1>4, <1>5, <1>6, <1>7, <1>8, <1>9, <1>10, <1>11, <1>12, <1>13, <1>14, <1>15,
       <1>16, <1>17, <1>18, <1>19, <1>20, <1>21, <1>22
    DEF Next, User, Fault, Run, ApprovalNode, ExecuteNode, ChildAgent

\* Type correctness, for every number of agents, plans and subtasks, whatever
\* statuses the LLM supplies and whatever faults happen.
THEOREM TypeCorrect == Spec => []TypeOK
<1>1. TypeInv => TypeOK
    BY DEF TypeInv
<1>2. QED
    BY <1>1, InitType, TypeStep, PTL DEF Spec

(***************************************************************************)
(* The safety of plans, for every value of the constants with which the    *)
(* LLM drafts pending subtasks only: results match the plan, no plan of    *)
(* several subtasks runs without the user's yes, and the reducer has them  *)
(* all.  TurnInv is what makes the three inductive.                        *)
(***************************************************************************)
DraftsPending == PlanStatuses \subseteq {"pending"}

\* ResultsMatchPlan of a plan and its results.
Match(sts, res) ==
    /\ Len(res) <= Len(sts)
    /\ \A i \in 1..Len(sts) :
        /\ i <= Len(res) <=> sts[i].status = "completed"
        /\ i > Len(res) + 1 => sts[i].status = "pending"
    /\ \A i \in 1..Len(res) : res[i].task = sts[i].task

Safe == ResultsMatchPlan /\ TurnInv /\ ReduceCoversPlan

PlanInv == DraftsPending /\ TypeInv /\ Safe

\* The invariant of the model, now and in the next state, as an operator.
LEMMA MatchIsResultsMatchPlan ==
    /\ ResultsMatchPlan <=> Match(subtasks, results)
    /\ ResultsMatchPlan' <=> Match(subtasks', results')
    BY DEF ResultsMatchPlan, Match

(***************************************************************************)
(* The plan and the subtask that execute_node works on.                    *)
(***************************************************************************)
\* No subtask of the empty plan has a status.
LEMMA EmptyPlanFacts ==
    /\ Match(<< >>, << >>)
    /\ \A S : ~HasStatus(<< >>, S)
    BY DEF Match, HasStatus

\* The next subtask of a plan that has not stopped is the first without result.
LEMMA NextIsFirstOpen ==
    ASSUME NEW sts \in Seq(SubTask), NEW res \in Seq(Result), Match(sts, res), ~Stopped(sts),
           NEW i \in DOMAIN sts, IsNextSubtask(sts, i)
    PROVE  i = Len(res) + 1 /\ i \in 1..Len(sts)
<1>0. Len(sts) \in Nat /\ Len(res) \in Nat /\ DOMAIN sts = 1..Len(sts)
    BY LenProperties
<1>1. sts[i].status \in {"in_progress", "pending"}
    BY DEF IsNextSubtask, NextSubtasks
<1>2. i > Len(res)
    BY <1>0, <1>1 DEF Match
<1>3. ASSUME i > Len(res) + 1 PROVE FALSE
  <2>1. sts[i].status = "pending" /\ Len(res) + 1 \in 1..Len(sts)
    BY <1>0, <1>3 DEF Match
  <2>2. NextSubtasks(sts) = {j \in DOMAIN sts : sts[j].status = "pending"}
    BY <2>1 DEF IsNextSubtask, NextSubtasks
  <2>3. ~HasStatus(sts, {"in_progress"})
    BY <1>0, <2>1, <2>2 DEF IsNextSubtask, NextSubtasks, HasStatus
  <2>4. sts[Len(res) + 1].status \in Statuses
    <3>1. sts[Len(res) + 1] \in SubTask
      BY <2>1, ElementOfSeq
    <3>2. QED
      BY <3>1 DEF SubTask
  <2>5. sts[Len(res) + 1].status = "pending"
    BY <1>0, <2>1, <2>3, <2>4 DEF HasStatus, Stopped, Match, Statuses
  <2>6. QED
    BY <1>0, <1>3, <2>1, <2>2, <2>5 DEF IsNextSubtask
<1>4. QED
    BY <1>0, <1>2, <1>3

\* A subtask that pauses, asks or stops keeps the results; one that is completed
\* gets its own.
LEMMA UpdateMatches ==
    ASSUME NEW sts \in Seq(SubTask), NEW res \in Seq(Result), Match(sts, res),
           NEW i \in 1..Len(sts), i = Len(res) + 1, NEW s \in Statuses,
           NEW new \in Seq(Result),
           \/ s # "completed" /\ new = res
           \/ /\ s = "completed"
              /\ \E r \in Result : new = Append(res, r) /\ r.task = sts[i].task
    PROVE  Match(WithStatus(sts, i, s), new)
<1>0. Len(sts) \in Nat /\ Len(res) \in Nat /\ DOMAIN sts = 1..Len(sts)
    BY LenProperties
<1> DEFINE t == WithStatus(sts, i, s)
<1>1. /\ Len(t) = Len(sts)
      /\ \A j \in 1..Len(sts) : /\ t[j].status = IF j = i THEN s ELSE sts[j].status
                                /\ t[j].task = sts[j].task
  <2>1. s \in Statuses /\ i \in DOMAIN sts
    BY <1>0
  <2>2. /\ Len(t) = Len(sts)
        /\ \A j \in 1..Len(sts) : /\ t[j].status = IF j = i THEN s ELSE sts[j].status
                                  /\ t[j].task = sts[j].task
    BY <2>1, WithStatusFacts
  <2>3. QED
    BY <1>0, <2>2
<1> HIDE DEF t
<1>2. ASSUME NEW j \in 1..Len(sts)
      PROVE  /\ j <= Len(res) <=> sts[j].status = "completed"
             /\ j > Len(res) + 1 => sts[j].status = "pending"
    BY DEF Match
<1>3. \A j \in 1..Len(res) : res[j].task = sts[j].task
    BY DEF Match
<1>4. CASE s # "completed" /\ new = res
  <2>1. ASSUME NEW j \in 1..Len(t)
        PROVE  /\ j <= Len(new) <=> t[j].status = "completed"
               /\ j > Len(new) + 1 => t[j].status = "pending"
    <3>1. CASE j = i
      BY <1>0, <1>1, <1>4, <3>1
    <3>2. CASE j # i
      BY <1>0, <1>1, <1>2, <1>4, <3>2
    <3>3. QED
      BY <3>1, <3>2
  <2>2. \A j \in 1..Len(new) : new[j].task = t[j].task
    BY <1>0, <1>1, <1>3, <1>4
  <2>3. Len(new) <= Len(t)
    BY <1>0, <1>1, <1>4
  <2>4. Match(t, new)
    BY <2>1, <2>2, <2>3 DEF Match
  <2>5. QED
    BY <2>4 DEF t
<1>5. ASSUME NEW r \in Result, s = "completed", new = Append(res, r), r.task = sts[i].task
      PROVE  Match(t, new)
  <2>1. /\ Len(new) = Len(res) + 1 /\ new[Len(res) + 1] = r
        /\ \A j \in 1..Len(res) : new[j] = res[j]
    BY <1>5, AppendProperties
  <2>2. ASSUME NEW j \in 1..Len(t)
        PROVE  /\ j <= Len(new) <=> t[j].status = "completed"
               /\ j > Len(new) + 1 => t[j].status = "pending"
    <3>1. CASE j = i
      BY <1>0, <1>1, <1>5, <2>1, <3>1
    <3>2. CASE j # i
      BY <1>0, <1>1, <1>2, <2>1, <3>2
    <3>3. QED
      BY <3>1, <3>2
  <2>3. ASSUME NEW j \in 1..Len(new) PROVE new[j].task = t[j].task
    <3>0. j \in 1..Len(sts) /\ (j = i \/ j \in 1..Len(res))
      BY <1>0, <2>1
    <3>1. CASE j = i
      BY <1>1, <1>5, <2>1, <3>0, <3>1
    <3>2. CASE j \in 1..Len(res)
      BY <1>1, <1>3, <2>1, <3>0, <3>2
    <3>3. QED
      BY <3>0, <3>1, <3>2
  <2>4. Len(new) <= Len(t)
    BY <1>0, <1>1, <2>1
  <2>5. QED
    BY <2>2, <2>3, <2>4 DEF Match
<1>6. QED
    BY <1>4, <1>5 DEF t

\* Which statuses a plan has after the update of one subtask.
LEMMA UpdatedStatuses ==
    ASSUME NEW sts \in Seq(SubTask), NEW i \in DOMAIN sts, NEW s \in Statuses, NEW S
    PROVE  /\ s \in S => HasStatus(WithStatus(sts, i, s), S)
           /\ HasStatus(WithStatus(sts, i, s), S) => s \in S \/ HasStatus(sts, S)
<1>0. Len(sts) \in Nat /\ DOMAIN sts = 1..Len(sts)
    BY LenProperties
<1> DEFINE t == WithStatus(sts, i, s)
<1>1. /\ t \in Seq(SubTask) /\ Len(t) = Len(sts)
      /\ \A j \in 1..Len(sts) : t[j].status = IF j = i THEN s ELSE sts[j].status
    BY <1>0, WithStatusFacts
<1>2. DOMAIN t = 1..Len(sts)
    BY <1>1, LenProperties
<1> HIDE DEF t
<1>3. QED
  <2>1. s \in S => HasStatus(t, S)
    BY <1>0, <1>1, <1>2 DEF HasStatus
  <2>2. HasStatus(t, S) => s \in S \/ HasStatus(sts, S)
    BY <1>0, <1>1, <1>2 DEF HasStatus
  <2>3. QED
    BY <2>1, <2>2 DEF t

(***************************************************************************)
(* Kinds of steps.                                                         *)
(***************************************************************************)
\* A step that leaves the plan and the messages alone, and moves on to no node
\* that rests on them.
LEMMA QuietStep ==
    ASSUME PlanInv, UNCHANGED <<state, request, tail, prior, approved>>,
           node' \in {node, "end", "summarize"},
           mode' = "idle" => node' = "end",
           work' # "none" => mode' = "running" /\ node' = "execute"
    PROVE  Safe'
<1>1. ResultsMatchPlan'
    BY DEF PlanInv, Safe, ResultsMatchPlan, state
<1>2. TurnInv'
    BY DEF PlanInv, Safe, TurnInv, Consented, IsQuickRetry, state
<1>3. ReduceCoversPlan'
    BY DEF PlanInv, Safe, ReduceCoversPlan, state
<1>4. QED
    BY <1>1, <1>2, <1>3 DEF Safe

\* A step that answers the user and drops the plan.
LEMMA DropStep ==
    ASSUME subtasks' = << >>, results' = << >>, tail' = "ai", ~awaiting_input',
           node' \in {"end", "ui_tools", "summarize"}, work' = "none",
           mode' = "idle" => node' = "end"
    PROVE  Safe'
<1>1. ResultsMatchPlan'
    BY EmptyPlanFacts, MatchIsResultsMatchPlan
<1>2. ~Stopped(subtasks') /\ \A S : ~HasStatus(subtasks', S)
    BY EmptyPlanFacts DEF Stopped
<1>3. Len(subtasks') = 0
    OBVIOUS
<1>4. TurnInv'
    BY <1>2, <1>3 DEF TurnInv
<1>5. QED
    BY <1>1, <1>4 DEF Safe, ReduceCoversPlan

\* The return of execute_node with the next subtask's status s.
LEMMA ExecuteStep ==
    ASSUME PlanInv, node = "execute", mode = "running",
           NEW i \in DOMAIN subtasks, IsNextSubtask(subtasks, i), NEW s \in Statuses,
           NEW res \in Seq(Result), NEW stopped \in BOOLEAN, NEW awaiting \in BOOLEAN, NEW kind,
           ExecuteReturns(WithStatus(subtasks, i, s), res, stopped, awaiting, kind),
           \/ s # "completed" /\ res = results
           \/ /\ s = "completed"
              /\ \E r \in Result : res = Append(results, r) /\ r.task = subtasks[i].task,
           s \in {"failed", "cancelled"} => stopped,
           kind \in {"failed", "cancelled"} => s \in {"failed", "cancelled"},
           awaiting => s = "in_progress",
           kind # "human" => stopped \/ awaiting \/ (s = "completed" /\ IsDirectHandoff(subtasks))
    PROVE  Safe'
<1> DEFINE sts == WithStatus(subtasks, i, s)
<1>0. /\ subtasks \in Seq(SubTask) /\ results \in Seq(Result)
      /\ Len(subtasks) \in Nat /\ DOMAIN subtasks = 1..Len(subtasks)
      /\ ~Stopped(subtasks) /\ Match(subtasks, results)
    BY LenProperties, MatchIsResultsMatchPlan DEF PlanInv, TypeInv, TypeOK, Safe, TurnInv
<1>1. i = Len(results) + 1 /\ i \in 1..Len(subtasks)
    BY <1>0, NextIsFirstOpen
<1>2. Match(sts, res)
    BY <1>0, <1>1, UpdateMatches
<1>3. /\ subtasks' = sts /\ results' = res /\ tail' = kind /\ awaiting_input' = awaiting
      /\ node' = RouteNext(sts, stopped, awaiting) /\ mode' = "running" /\ work' = "none"
      /\ request' = request /\ prior' = prior /\ approved' = approved
    BY DEF ExecuteReturns
<1>4. /\ sts \in Seq(SubTask) /\ Len(sts) = Len(subtasks) /\ sts # << >>
      /\ sts[1].task = subtasks[1].task
  <2>0. \A j \in 1..Len(subtasks) :
          /\ sts[j].status = IF j = i THEN s ELSE subtasks[j].status
          /\ sts[j].task = subtasks[j].task
          /\ sts[j].agent = subtasks[j].agent
    BY <1>0, WithStatusFacts
  <2>1. sts \in Seq(SubTask) /\ Len(sts) = Len(subtasks)
    BY <1>0, WithStatusFacts
  <2>2. 1 \in 1..Len(subtasks) /\ Len(sts) # 0
    BY <1>0, <1>1, <2>1
  <2>3. sts # << >>
    BY <2>1, <2>2, EmptySeq
  <2>4. QED
    BY <2>0, <2>1, <2>2, <2>3
<1>5. /\ Stopped(sts) <=> s \in {"failed", "cancelled"}
      /\ awaiting => HasStatus(sts, {"in_progress"})
    BY <1>0, UpdatedStatuses DEF Stopped
<1> HIDE DEF sts
<1>6. ResultsMatchPlan'
    BY <1>2, <1>3, MatchIsResultsMatchPlan
<1>7. node' \in {"summarize", "execute", "ui_tools", "reduce"}
    BY <1>3 DEF RouteNext
<1>8. node' = "execute" => ~stopped /\ ~awaiting /\ HasStatus(sts, {"in_progress", "pending"})
    BY <1>3 DEF RouteNext
<1>9. node' = "execute" => kind = "human"
  <2>1. ASSUME s = "completed", Len(subtasks) = 1 PROVE ~HasStatus(sts, {"in_progress", "pending"})
    <3>1. DOMAIN sts = {1} /\ sts[1].status = "completed"
      BY <1>0, <1>1, <1>4, <2>1, WithStatusFacts, LenProperties DEF sts
    <3>2. QED
      BY <3>1 DEF HasStatus
  <2>2. QED
    BY <1>8, <2>1 DEF IsDirectHandoff
<1>10. PlanApprovalEnabled /\ Len(subtasks) > 1 => Consented
    BY DEF PlanInv, Safe, TurnInv
<1>11. TurnInv'
  <2>1. Stopped(sts) => ~(node' = "execute")
    BY <1>5, <1>8
  <2>2. node' = "reduce" => ~awaiting
    BY <1>3 DEF RouteNext
  <2>3. Consented => Consented'
    BY <1>3, <1>4 DEF Consented
  <2>4. QED
    BY <1>3, <1>4, <1>5, <1>7, <1>9, <1>10, <2>1, <2>2, <2>3 DEF TurnInv
<1>12. ReduceCoversPlan'
  <2>1. SUFFICES ASSUME node' = "reduce" PROVE Len(sts) > 1 /\ Len(res) = Len(sts)
    BY <1>3 DEF ReduceCoversPlan
  <2>2. ~stopped /\ ~HasStatus(sts, {"in_progress", "pending"}) /\ Len(sts) # 1
    BY <1>3, <2>1 DEF RouteNext, IsDirectHandoff
  <2>3. ASSUME NEW j \in 1..Len(sts) PROVE sts[j].status = "completed"
    <3>1. sts[j] \in SubTask /\ j \in DOMAIN sts
      BY <1>4, ElementOfSeq, LenProperties
    <3>2. sts[j].status \in Statuses \ {"in_progress", "pending"}
      BY <2>2, <3>1 DEF HasStatus, SubTask
    <3>3. sts[j].status \notin {"failed", "cancelled"}
      BY <1>5, <2>2, <3>1 DEF Stopped, HasStatus
    <3>4. QED
      BY <3>2, <3>3 DEF Statuses
  <2>4. Len(sts) \in 1..Len(sts) /\ Len(sts) > 1
    BY <1>0, <1>1, <1>4, <2>2
  <2>5. Len(sts) <= Len(res)
    BY <1>2, <2>3, <2>4 DEF Match
  <2>6. Len(res) \in Nat /\ Len(res) <= Len(sts)
    BY <1>2, LenProperties DEF Match
  <2>7. QED
    BY <1>0, <1>4, <2>4, <2>5, <2>6
<1>13. QED
    BY <1>6, <1>11, <1>12 DEF Safe

\* The plan node stores a plan that has not started, or that the user consented to.
LEMMA StoreStep ==
    ASSUME PlanInv, AtNode("plan"), ~awaiting_input,
           NEW sts \in Seq(SubTask), NEW again \in BOOLEAN, StorePlan(sts, again),
           sts # << >>, Match(sts, results'), ~Stopped(sts),
           node' = "approval" => ~IsQuickRetry,
           (PlanApprovalEnabled /\ Len(sts) > 1
               /\ (node' = "execute" \/ HasStatus(sts, Statuses \ {"pending"})))
             => sts[1].task[1] \in approved
    PROVE  Safe'
<1>1. /\ subtasks' = sts /\ tail' = tail /\ mode' = mode /\ work' = work /\ request' = request
      /\ prior' = prior /\ approved' = approved /\ awaiting_input' = awaiting_input
      /\ node' \in {"execute", "approval"}
    BY DEF StorePlan, PlanKeeps, RouteAfterPlan
<1>2. ResultsMatchPlan'
    BY <1>1, MatchIsResultsMatchPlan
<1>3. tail = "human" /\ mode = "running" /\ work = "none"
    BY DEF AtNode, PlanInv, Safe, TurnInv
<1>4. TurnInv'
    BY <1>1, <1>3 DEF TurnInv, Consented, IsQuickRetry
<1>5. ReduceCoversPlan'
    BY <1>1 DEF ReduceCoversPlan
<1>6. QED
    BY <1>2, <1>4, <1>5 DEF Safe

(***************************************************************************)
(* The plan and approval nodes.                                            *)
(***************************************************************************)
LEMMA HasStatusMonotonic ==
    ASSUME NEW sts, NEW S, NEW T, S \subseteq T, HasStatus(sts, S)
    PROVE  HasStatus(sts, T)
    BY DEF HasStatus

\* A plan with a subtask in progress has not stopped.
LEMMA InProgressNotStopped ==
    ASSUME NEW sts \in Seq(SubTask), NEW res \in Seq(Result), Match(sts, res),
           HasStatus(sts, {"in_progress"})
    PROVE  ~Stopped(sts) /\ sts # << >>
<1>0. Len(sts) \in Nat /\ Len(res) \in Nat /\ DOMAIN sts = 1..Len(sts)
    BY LenProperties
<1>1. PICK i \in 1..Len(sts) : sts[i].status = "in_progress"
    BY <1>0 DEF HasStatus
<1>2. i = Len(res) + 1
    BY <1>0, <1>1 DEF Match
<1>3. ASSUME NEW j \in 1..Len(sts), sts[j].status \in {"failed", "cancelled"} PROVE FALSE
  <2>1. j = Len(res) + 1
    BY <1>0, <1>3 DEF Match
  <2>2. QED
    BY <1>1, <1>2, <1>3, <2>1
<1>4. QED
    BY <1>0, <1>1, <1>3 DEF Stopped, HasStatus

\* With nothing to answer, no subtask waits for an answer.
LEMMA NothingAsked ==
    ASSUME PlanInv, ~AnswersQuestion
    PROVE  ~awaiting_input
    BY DEF PlanInv, Safe, TurnInv, AnswersQuestion

\* An answer to a child's question goes to the plan as it stands.
LEMMA ForwardsStep == PlanInv /\ PlanForwardsAnswer => Safe'
<1> SUFFICES ASSUME PlanInv, PlanForwardsAnswer PROVE Safe'
    OBVIOUS
<1>1. subtasks \in Seq(SubTask) /\ results \in Seq(Result) /\ Match(subtasks, results)
    BY MatchIsResultsMatchPlan DEF PlanInv, TypeInv, TypeOK, Safe
<1>2. awaiting_input /\ HasStatus(subtasks, {"in_progress"}) /\ node = "plan" /\ mode = "running" /\ work = "none"
    BY DEF PlanForwardsAnswer, AnswersQuestion, AtNode
<1>3. ~Stopped(subtasks) /\ subtasks # << >>
    BY <1>1, <1>2, InProgressNotStopped
<1>4. HasStatus(subtasks, Statuses \ {"pending"})
    BY <1>2, HasStatusMonotonic DEF Statuses
<1>5. node' = "execute" /\ UNCHANGED <<mode, work, request, tail, prior, state, approved>>
    BY <1>2, <1>3 DEF PlanForwardsAnswer, RouteAfterPlan
<1>6. ResultsMatchPlan'
    BY <1>1, <1>5, MatchIsResultsMatchPlan DEF state
<1>7. TurnInv'
    BY <1>2, <1>3, <1>4, <1>5 DEF PlanInv, Safe, TurnInv, Consented, IsQuickRetry, state
<1>8. QED
    BY <1>5, <1>6, <1>7 DEF Safe, ReduceCoversPlan

\* A retried plan keeps the results of its completed subtasks, a restarted one none.
LEMMA RetriesStep == PlanInv /\ PlanRetries => Safe'
<1> SUFFICES ASSUME PlanInv, PlanRetries PROVE Safe'
    OBVIOUS
<1> DEFINE sts == RetriedSubtasks
<1>1. /\ subtasks \in Seq(SubTask) /\ results \in Seq(Result) /\ Match(subtasks, results)
      /\ Len(subtasks) \in Nat /\ Len(results) \in Nat
    BY MatchIsResultsMatchPlan, LenProperties DEF PlanInv, TypeInv, TypeOK, Safe
<1>2. /\ AtNode("plan") /\ ~AnswersQuestion /\ IsQuickRetry /\ subtasks # << >>
      /\ StorePlan(sts, TRUE)
    BY DEF PlanRetries, Planning
<1>3. /\ sts \in Seq(SubTask) /\ Len(sts) = Len(subtasks) /\ DOMAIN sts = 1..Len(subtasks)
      /\ \A j \in 1..Len(subtasks) :
            /\ sts[j].status = IF request = "restart" \/ subtasks[j].status \in {"failed", "cancelled"}
                               THEN "pending" ELSE subtasks[j].status
            /\ sts[j].task = subtasks[j].task
    BY <1>1, RetriedFacts, LenProperties
<1> HIDE DEF sts
<1>4. sts # << >> /\ 1 \in 1..Len(subtasks)
    BY <1>1, <1>2, <1>3, EmptySeq
<1>5. ~Stopped(sts)
    BY <1>3 DEF Stopped, HasStatus
<1>6. Match(sts, results')
  <2>1. CASE request = "retry"
    <3>1. results' = results
      BY <1>2, <2>1 DEF StorePlan
    <3>2. ASSUME NEW j \in 1..Len(sts)
          PROVE  /\ j <= Len(results) <=> sts[j].status = "completed"
                 /\ j > Len(results) + 1 => sts[j].status = "pending"
      <4>1. /\ j <= Len(results) <=> subtasks[j].status = "completed"
            /\ j > Len(results) + 1 => subtasks[j].status = "pending"
        BY <1>1, <1>3 DEF Match
      <4>2. \/ sts[j].status = subtasks[j].status
            \/ sts[j].status = "pending" /\ subtasks[j].status \in {"failed", "cancelled"}
        BY <1>3, <2>1
      <4>3. QED
        BY <4>1, <4>2
    <3>3. Len(results) <= Len(sts) /\ \A j \in 1..Len(results) : results[j].task = sts[j].task
      BY <1>1, <1>3 DEF Match
    <3>4. QED
      BY <3>1, <3>2, <3>3 DEF Match
  <2>2. CASE request = "restart"
    <3>1. results' = << >>
      BY <1>2, <2>2 DEF StorePlan
    <3>2. \A j \in 1..Len(sts) : sts[j].status = "pending"
      BY <1>3, <2>2
    <3>3. QED
      BY <1>1, <1>3, <3>1, <3>2 DEF Match
  <2>3. QED
    BY <1>2, <2>1, <2>2 DEF IsQuickRetry
<1>7. (PlanApprovalEnabled /\ Len(sts) > 1) => sts[1].task[1] \in approved
  <2>1. Stopped(subtasks)
    BY <1>2 DEF AtNode, PlanInv, Safe, TurnInv
  <2>2. HasStatus(subtasks, Statuses \ {"pending"})
    BY <2>1, HasStatusMonotonic DEF Stopped, Statuses
  <2>3. QED
    BY <1>3, <1>4, <2>2 DEF PlanInv, Safe, TurnInv, Consented
<1>8. node' # "approval"
    BY <1>2, <1>4 DEF StorePlan, RouteAfterPlan
<1>9. QED
    BY <1>2, <1>3, <1>4, <1>5, <1>6, <1>7, <1>8, NothingAsked, StoreStep

\* A new plan starts without results.
LEMMA DraftsStep == PlanInv /\ PlanDrafts => Safe'
<1> SUFFICES ASSUME PlanInv, PlanDrafts PROVE Safe'
    OBVIOUS
<1>1. PICK sts \in DraftedSubtasks : StorePlan(sts, FALSE)
    BY DEF PlanDrafts
<1>2. /\ AtNode("plan") /\ ~AnswersQuestion /\ ~IsQuickRetry
      /\ plans \in 0..MaxPlans /\ plans < MaxPlans
    BY DEF PlanDrafts, Planning, PlanInv, TypeInv, TypeOK
<1>3. /\ sts \in Seq(SubTask) /\ Len(sts) \in 1..MaxSubtasks /\ DOMAIN sts = 1..Len(sts)
      /\ \A j \in 1..Len(sts) : sts[j].status = "pending"
    BY <1>2, DraftedFacts, LenProperties DEF PlanInv, DraftsPending
<1>4. sts # << >> /\ Len(sts) \in Nat \ {0}
    BY <1>3, EmptySeq, PlannerAssumption
<1>5. ~Stopped(sts) /\ ~HasStatus(sts, Statuses \ {"pending"})
    BY <1>3 DEF Stopped, HasStatus
<1>6. results' = << >>
    BY <1>1 DEF StorePlan
<1>7. Match(sts, results')
    BY <1>3, <1>4, <1>6 DEF Match
<1>8. node' = "execute" => ~PlanApprovalEnabled \/ Len(sts) = 1
  <2>1. ~awaiting_input
    BY <1>2, NothingAsked
  <2>2. QED
    BY <1>1, <1>4, <2>1 DEF StorePlan, RouteAfterPlan, IsDirectHandoff
<1>9. ~(PlanApprovalEnabled /\ Len(sts) > 1
           /\ (node' = "execute" \/ HasStatus(sts, Statuses \ {"pending"})))
    BY <1>5, <1>8
<1>10. ~awaiting_input
    BY <1>2, NothingAsked
<1>11. QED
    BY <1>1, <1>2, <1>3, <1>4, <1>5, <1>7, <1>9, <1>10, StoreStep

\* The user's answer to a plan: yes, no, or feedback that replans.
LEMMA ApprovalStep == PlanInv /\ ApprovalAnswered => Safe'
<1> SUFFICES ASSUME PlanInv, ApprovalAnswered PROVE Safe'
    OBVIOUS
<1>1. /\ node = "approval" /\ mode = "running" /\ work = "none" /\ tail = "human"
      /\ ~awaiting_input /\ subtasks # << >> /\ ~Stopped(subtasks) /\ ~IsQuickRetry
      /\ feedback \in Nat
    BY DEF ApprovalAnswered, AtNode, PlanInv, TypeInv, TypeOK, Safe, TurnInv
<1>2. /\ UNCHANGED <<mode, work, request, prior>>
      /\ node' = RouteAfterApproval(cancelled', feedback')
    BY DEF ApprovalAnswered
<1>3. CASE answer = "yes"
  <2>1. /\ UNCHANGED <<subtasks, results, awaiting_input, tail>> /\ feedback' = 0
        /\ approved' = approved \cup {subtasks[1].task[1]}
    BY <1>3 DEF ApprovalAnswered
  <2>2. node' \in {"summarize", "execute"}
    BY <1>2, <2>1 DEF RouteAfterApproval
  <2>3. ResultsMatchPlan'
    BY <2>1, MatchIsResultsMatchPlan DEF PlanInv, Safe
  <2>4. TurnInv'
    BY <1>1, <1>2, <2>1, <2>2 DEF PlanInv, Safe, TurnInv, Consented, IsQuickRetry
  <2>5. QED
    BY <2>2, <2>3, <2>4 DEF Safe, ReduceCoversPlan
<1>4. CASE answer = "no"
  <2>1. /\ subtasks' = << >> /\ results' = << >> /\ tail' = "ai" /\ cancelled' = TRUE
        /\ awaiting_input' = awaiting_input
    BY <1>4 DEF ApprovalAnswered, RejectPlan
  <2>2. node' = "summarize"
    BY <1>2, <2>1 DEF RouteAfterApproval
  <2>3. QED
    BY <1>1, <1>2, <2>1, <2>2, DropStep
<1>5. CASE answer = "other"
  <2>1. UNCHANGED <<subtasks, results, awaiting_input, tail, approved>> /\ feedback' = feedback + 1
    BY <1>5 DEF ApprovalAnswered
  <2>2. node' \in {"summarize", "plan"}
    BY <1>1, <1>2, <2>1 DEF RouteAfterApproval
  <2>3. ResultsMatchPlan'
    BY <2>1, MatchIsResultsMatchPlan DEF PlanInv, Safe
  <2>4. TurnInv'
    BY <1>1, <1>2, <2>1, <2>2 DEF PlanInv, Safe, TurnInv, Consented, IsQuickRetry
  <2>5. QED
    BY <2>2, <2>3, <2>4 DEF Safe, ReduceCoversPlan
<1>6. QED
    BY <1>3, <1>4, <1>5 DEF ApprovalAnswered

(***************************************************************************)
(* The execute node.                                                       *)
(***************************************************************************)
\* A run that is aborted where no work is stored.
LEMMA AbortStep == PlanInv /\ AbortRun => Safe'
<1> SUFFICES ASSUME PlanInv, AbortRun PROVE Safe'
    OBVIOUS
<1>1. /\ UNCHANGED <<state, request, tail, prior, approved>> /\ work' = "none"
      /\ node' \in {node, "end"} /\ (mode' = "idle" => node' = "end")
    BY DEF AbortRun
<1>2. QED
    BY <1>1, QuietStep

\* The subtask in turn fails, or its agent is unknown or was declined.
LEMMA FailStep ==
    ASSUME PlanInv, node = "execute", mode = "running",
           NEW i \in DOMAIN subtasks, IsNextSubtask(subtasks, i), FailPlan(i) \/ CancelPlan(i)
    PROVE  Safe'
<1>1. results \in Seq(Result)
    BY DEF PlanInv, TypeInv, TypeOK
<1>2. CASE FailPlan(i)
    BY <1>1, <1>2, ExecuteStep DEF FailPlan, Statuses
<1>3. CASE CancelPlan(i)
    BY <1>1, <1>3, ExecuteStep DEF CancelPlan, Statuses
<1>4. QED
    BY <1>2, <1>3

\* The returns of the execute node after its child has answered.
LEMMA ReturnsStep ==
    ASSUME PlanInv, NEW i \in DOMAIN subtasks, NEW a \in ChildAgents,
           \/ ExecutePausedReturns(i, a) \/ ExecuteDeclinedReturns(i, a)
           \/ ExecuteCompletes(i, a) \/ ExecuteNeedsInput(i, a) \/ ExecuteFails(i, a)
    PROVE  Safe'
<1>1. /\ results \in Seq(Result) /\ subtasks \in Seq(SubTask) /\ cancelled \in BOOLEAN
      /\ child \in [ChildAgents -> ChildThread] /\ DOMAIN subtasks = 1..Len(subtasks)
    BY LenProperties DEF PlanInv, TypeInv, TypeOK
<1>2. mode = "running" /\ work # "none" /\ IsNextSubtask(subtasks, i)
    BY DEF ExecutePausedReturns, ExecuteDeclinedReturns, ExecuteCompletes, ExecuteNeedsInput,
           ExecuteFails, Busy
<1>3. node = "execute" /\ tail = "human"
    BY <1>2 DEF PlanInv, Safe, TurnInv
<1>4. CASE ExecutePausedReturns(i, a)
    BY <1>1, <1>2, <1>3, <1>4, ExecuteStep DEF ExecutePausedReturns, Statuses
<1>5. CASE ExecuteDeclinedReturns(i, a)
    BY <1>2, <1>3, <1>5, FailStep DEF ExecuteDeclinedReturns
<1>6. CASE ExecuteCompletes(i, a)
  <2> DEFINE r == [task |-> subtasks[i].task, got |-> child[a].task]
             kind == IF IsDirectHandoff(subtasks) THEN "ai" ELSE tail
  <2>1. r \in Result /\ r.task = subtasks[i].task
    <3>1. subtasks[i] \in SubTask /\ child[a] \in ChildThread
      BY <1>1, ElementOfSeq
    <3>2. QED
      BY <3>1 DEF SubTask, Result, ChildThread
  <2>2. ExecuteReturns(WithStatus(subtasks, i, "completed"), Append(results, r), cancelled, FALSE, kind)
    BY <1>6 DEF ExecuteCompletes
  <2>3. /\ kind \notin {"failed", "cancelled"}
        /\ kind # "human" => IsDirectHandoff(subtasks)
    BY <1>3
  <2> HIDE DEF r, kind
  <2>4. Append(results, r) \in Seq(Result)
    BY <1>1, <2>1, AppendProperties
  <2>5. QED
    BY <1>1, <1>2, <1>3, <2>1, <2>2, <2>3, <2>4, ExecuteStep DEF Statuses
<1>7. CASE ExecuteNeedsInput(i, a)
    BY <1>1, <1>2, <1>3, <1>7, ExecuteStep DEF ExecuteNeedsInput, Statuses
<1>8. CASE ExecuteFails(i, a)
    BY <1>2, <1>3, <1>8, FailStep DEF ExecuteFails
<1>9. QED
    BY <1>4, <1>5, <1>6, <1>7, <1>8

(***************************************************************************)
(* The invariant.                                                          *)
(***************************************************************************)
LEMMA InitPlan == DraftsPending /\ Init => PlanInv
<1> SUFFICES ASSUME DraftsPending, Init PROVE PlanInv
    OBVIOUS
<1>1. subtasks = << >> /\ results = << >> /\ node = "end" /\ work = "none" /\ tail = "none" /\ ~awaiting_input
    BY DEF Init
<1>2. ResultsMatchPlan
    BY <1>1, EmptyPlanFacts, MatchIsResultsMatchPlan
<1>3. TurnInv
  <2>1. Len(subtasks) = 0
    BY <1>1
  <2>2. QED
    BY <1>1, <2>1 DEF TurnInv
<1>4. QED
    BY <1>1, <1>2, <1>3, InitType DEF PlanInv, Safe, ReduceCoversPlan

\* The strengthened invariant is inductive: its safety part, action by action.
LEMMA SafeStep == PlanInv /\ [Next]_vars => Safe'
<1> SUFFICES ASSUME PlanInv, [Next]_vars PROVE Safe'
    OBVIOUS
<1>0. /\ mode = "idle" => node = "end"
      /\ work # "none" => mode = "running" /\ node = "execute"
      /\ node = "reduce" => ~awaiting_input
    BY DEF PlanInv, Safe, TurnInv
<1>1. CASE UNCHANGED vars
    BY <1>0, <1>1, QuietStep DEF vars, state
<1>2. ASSUME NEW r \in Requests, StartTurn(r) PROVE Safe'
  <2>1. /\ mode = "idle" /\ mode' = "running" /\ node' = "plan" /\ prior' = tail /\ tail' = "human"
        /\ work' = work /\ UNCHANGED <<state, approved>>
    BY <1>2 DEF StartTurn
  <2>2. ResultsMatchPlan'
    BY <2>1, MatchIsResultsMatchPlan DEF PlanInv, Safe, state
  <2>3. TurnInv'
    BY <1>0, <2>1 DEF PlanInv, Safe, TurnInv, Consented, IsQuickRetry, state
  <2>4. QED
    BY <2>1, <2>2, <2>3 DEF Safe, ReduceCoversPlan
<1>3. ASSUME NEW a \in {"yes", "no", "other"}, ResumeTurn(a) PROVE Safe'
    BY <1>0, <1>3, QuietStep DEF ResumeTurn
<1>4. CASE StopRun
  <2>1. mode' = "idle" /\ node' = "end" /\ work' = "none" /\ UNCHANGED <<request, prior, approved>>
    BY <1>4 DEF StopRun
  <2>2. CASE ResetStopped
    BY <2>1, <2>2, DropStep DEF ResetStopped
  <2>3. CASE UNCHANGED <<state, tail>>
    BY <2>1, <2>3, QuietStep
  <2>4. QED
    BY <1>4, <2>2, <2>3 DEF StopRun
<1>5. CASE StopWaitingPlan
  <2>1. work' = "none"
    BY <1>0, <1>5 DEF StopWaitingPlan
  <2>2. QED
    BY <1>5, <2>1, DropStep DEF StopWaitingPlan, ResetStopped
<1>6. CASE Disconnect
  <2>1. CASE AbortRun
    BY <2>1, AbortStep
  <2>2. CASE UNCHANGED <<mode, node, work, answer, request, tail, prior, wait, state, plans, approved>>
    BY <1>0, <2>2, QuietStep
  <2>3. QED
    BY <1>6, <2>1, <2>2 DEF Disconnect
<1>7. CASE RunError
    BY <1>7, AbortStep DEF RunError
<1>8. CASE Oauth
  <2>1. CASE OauthResumes
    BY <1>0, <2>1, QuietStep DEF OauthResumes
  <2>2. CASE OauthAbandoned
    BY <2>2, AbortStep DEF OauthAbandoned
  <2>3. QED
    BY <1>8, <2>1, <2>2 DEF Oauth
<1>9. CASE PlanNode
  <2>1. CASE PlanForwardsAnswer
    BY <2>1, ForwardsStep
  <2>2. CASE PlanFailureAction
    <3>1. /\ subtasks' = << >> /\ results' = << >> /\ tail' = "ai" /\ node' = "summarize"
          /\ awaiting_input' = awaiting_input /\ work' = "none" /\ mode' = "running"
      BY <2>2 DEF PlanFailureAction, AtNode, RouteAfterPlan
    <3>2. ~awaiting_input
      BY <2>2, NothingAsked DEF PlanFailureAction
    <3>3. QED
      BY <3>1, <3>2, DropStep
  <2>3. CASE PlanRetries
    BY <2>3, RetriesStep
  <2>4. CASE PlanDrafts
    BY <2>4, DraftsStep
  <2>5. ASSUME NEW k \in {"none", "reply", "cancel"}, PlanEndsTurn(k) PROVE Safe'
    <3>1. /\ subtasks' = << >> /\ results' = << >> /\ tail' = "ai" /\ node' = "summarize"
          /\ awaiting_input' = awaiting_input
      BY <2>5 DEF PlanEndsTurn, RejectPlan, RouteAfterPlan
    <3>2. work' = "none" /\ mode' = "running"
      BY <2>5 DEF PlanEndsTurn, Planning, AtNode, PlanKeeps
    <3>3. ~awaiting_input
      BY <2>5, NothingAsked DEF PlanEndsTurn, Planning
    <3>4. QED
      BY <3>1, <3>2, <3>3, DropStep
  <2>6. QED
    BY <1>9, <2>1, <2>2, <2>3, <2>4, <2>5 DEF PlanNode
<1>10. CASE ApprovalAsks
    BY <1>0, <1>10, QuietStep DEF ApprovalAsks, AtNode, Interrupt
<1>11. CASE ApprovalAnswered
    BY <1>11, ApprovalStep
<1>12. CASE ExecuteFindsNothing
    BY <1>12, AbortStep DEF ExecuteFindsNothing
<1>13. CASE ExecuteUnknownAgent
    BY <1>13, FailStep DEF ExecuteUnknownAgent, AtNode
<1>14. CASE ExecuteNeedsOauth2
    BY <1>0, <1>14, QuietStep DEF ExecuteNeedsOauth2, AtNode
<1>15. ASSUME NEW i \in DOMAIN subtasks, NEW a \in ChildAgents,
              ExecuteSends(i, a) \/ ExecuteSurfaces(i, a) \/ ExecuteResumesChild(i, a)
       PROVE  Safe'
  <2>1. mode = "running" /\ node = "execute" /\ work = "none"
    BY <1>15 DEF ExecuteSends, ExecuteSurfaces, ExecuteResumesChild, ExecuteReady, AtNode
  <2>2. CASE ExecuteSends(i, a)
    BY <2>1, <2>2, QuietStep DEF ExecuteSends
  <2>3. CASE ExecuteSurfaces(i, a)
    BY <2>1, <2>3, QuietStep DEF ExecuteSurfaces, Interrupt
  <2>4. CASE ExecuteResumesChild(i, a)
    BY <2>1, <2>4, QuietStep DEF ExecuteResumesChild
  <2>5. QED
    BY <1>15, <2>2, <2>3, <2>4
<1>16. ASSUME NEW i \in DOMAIN subtasks, NEW a \in ChildAgents,
              \/ ExecutePausedReturns(i, a) \/ ExecuteDeclinedReturns(i, a)
              \/ ExecuteCompletes(i, a) \/ ExecuteNeedsInput(i, a) \/ ExecuteFails(i, a)
       PROVE  Safe'
    BY <1>16, ReturnsStep
<1>17. ASSUME NEW i \in DOMAIN subtasks, NEW a \in ChildAgents, ChildRaises(i, a)
       PROVE  Safe'
  <2>1. mode = "running" /\ node = "execute" /\ IsNextSubtask(subtasks, i)
    BY <1>0, <1>17 DEF ChildRaises, Busy
  <2>2. CASE AbortRun
    BY <2>2, AbortStep
  <2>3. CASE FailPlan(i)
    BY <2>1, <2>3, FailStep
  <2>4. QED
    BY <1>17, <2>2, <2>3 DEF ChildRaises
<1>18. ASSUME NEW i \in DOMAIN subtasks, NEW a \in ChildAgents,
              NEW phase \in {"idle", "paused"}, ChildStops(i, a, phase)
       PROVE  Safe'
  <2>1. mode' = mode /\ mode = "running" /\ node = "execute" /\ UNCHANGED <<node, state, request, tail, prior, approved>>
    BY <1>0, <1>18 DEF ChildStops, Busy
  <2>2. QED
    BY <2>1, QuietStep
<1>19. CASE Reduce
    BY <1>0, <1>19, DropStep DEF Reduce, AtNode
<1>20. CASE SelectUiTools \/ Summarize
    BY <1>20, QuietStep DEF SelectUiTools, Summarize, AtNode
<1>21. QED
    BY <1>1, <1>2, <1>3, <1>4, <1>5, <1>6, <1>7, <1>8, <1>9, <1>10, <1>11, <1>12, <1>13, <1>14,
       <1>15, <1>16, <1>17, <1>18, <1>19, <1>20
    DEF Next, User, Fault, Run, ApprovalNode, ExecuteNode, ChildAgent

\* The strengthened invariant is inductive.
LEMMA PlanStep == PlanInv /\ [Next]_vars => PlanInv'
<1>1. PlanInv /\ [Next]_vars => TypeInv'
    BY TypeStep DEF PlanInv
<1>2. DraftsPending => DraftsPending'
    BY DEF DraftsPending
<1>3. QED
    BY <1>1, <1>2, SafeStep DEF PlanInv

\* The strengthened invariant holds of every reachable state.
LEMMA PlanInvariant == DraftsPending /\ Spec => []PlanInv
    BY InitPlan, PlanStep, PTL DEF Spec

\* Results are those of the plan's first subtasks, whatever was retried, stopped,
\* revised or lost (subtasks.py records them, agent.py decides which are kept).
THEOREM ResultsAlwaysMatch == DraftsPending /\ Spec => []ResultsMatchPlan
<1>1. PlanInv => ResultsMatchPlan
    BY DEF PlanInv, Safe
<1>2. QED
    BY <1>1, PlanInvariant, PTL

\* No plan of several subtasks is run without the user's yes to it, with any
\* number of agents, plans, subtasks, rounds of feedback and faults.
THEOREM NothingRunsUnapproved == DraftsPending /\ Spec => []ApprovedBeforeRun
<1>1. PlanInv => ApprovedBeforeRun
    BY DEF PlanInv, Safe, TurnInv, Consented, ApprovedBeforeRun
<1>2. QED
    BY <1>1, PlanInvariant, PTL

\* The reducer is given one result for each subtask of the plan.
THEOREM ReducerHasAll == DraftsPending /\ Spec => []ReduceCoversPlan
<1>1. PlanInv => ReduceCoversPlan
    BY DEF PlanInv, Safe
<1>2. QED
    BY <1>1, PlanInvariant, PTL

\* What the nodes leave to one another, within a turn and across turns.
THEOREM TurnsAgree == DraftsPending /\ Spec => []TurnInv
<1>1. PlanInv => TurnInv
    BY DEF PlanInv, Safe
<1>2. QED
    BY <1>1, PlanInvariant, PTL

(***************************************************************************)
(* The planner implements PlanContract, for every value of the constants   *)
(* with which the LLM drafts pending subtasks only: every step of the      *)
(* planner is a step of the contract or changes nothing the contract sees. *)
(***************************************************************************)

\* The consent is to plans that were drafted, so that a new plan has none.
PlansKnown ==
    /\ approved \subseteq 1..plans
    /\ subtasks # << >> => subtasks[1].task[1] \in 1..plans

ContractInv == PlanInv /\ PlansKnown

\* PlanPhase of a plan and the plans consented to.
PhaseOf(sts, consents) ==
    IF sts = << >> THEN "none"
    ELSE IF Stopped(sts) THEN "stopped"
    ELSE IF ~HasStatus(sts, {"pending", "in_progress"}) THEN "finished"
    ELSE IF PlanApprovalEnabled /\ Len(sts) > 1 /\ sts[1].task[1] \notin consents
         THEN "proposed" ELSE "running"

\* The refinement mapping, now and in the next state, as an operator.
LEMMA PhaseOfPlan ==
    /\ PlanPhase = PhaseOf(subtasks, approved)
    /\ PlanPhase' = PhaseOf(subtasks', approved')
    BY DEF PlanPhase, PhaseOf, Stopped

ContractVars == <<PlanPhase, Len(subtasks), Len(results)>>

\* A step of the contract, or one it does not see.
Implements == Contract!Next \/ UNCHANGED ContractVars

\* A step that leaves plan, results and consents alone is a stutter.
LEMMA QuietImplements ==
    ASSUME ContractInv, UNCHANGED <<subtasks, results, approved, plans>>
    PROVE  Implements /\ PlansKnown'
<1>1. Implements
    BY PhaseOfPlan DEF Implements, ContractVars
<1>2. PlansKnown'
    BY DEF ContractInv, PlansKnown
<1>3. QED
    BY <1>1, <1>2

\* Forgetting the plan discards it in the contract.
LEMMA DropImplements ==
    ASSUME ContractInv, subtasks' = << >>, results' = << >>, UNCHANGED <<approved, plans>>
    PROVE  Implements /\ PlansKnown'
<1>1. PlanPhase' = "none" /\ Len(subtasks') = 0 /\ Len(results') = 0
    BY PhaseOfPlan DEF PhaseOf
<1>2. Implements
    BY <1>1 DEF Implements, Contract!Next, Contract!Discard
<1>3. PlansKnown'
    BY DEF ContractInv, PlansKnown
<1>4. QED
    BY <1>2, <1>3

\* A drafted plan is proposed: nobody has consented to its number yet.
LEMMA DraftsImplement == ContractInv /\ PlanDrafts => Implements /\ PlansKnown'
<1> SUFFICES ASSUME ContractInv, PlanDrafts PROVE Implements /\ PlansKnown'
    OBVIOUS
<1>1. PICK sts \in DraftedSubtasks : StorePlan(sts, FALSE)
    BY DEF PlanDrafts
<1>2. plans \in 0..MaxPlans /\ plans < MaxPlans
    BY DEF PlanDrafts, ContractInv, PlanInv, TypeInv, TypeOK
<1>3. /\ sts \in Seq(SubTask) /\ Len(sts) \in 1..MaxSubtasks /\ DOMAIN sts = 1..Len(sts)
      /\ \A j \in 1..Len(sts) : sts[j].status = "pending" /\ sts[j].task = <<plans + 1, j>>
    BY <1>2, DraftedFacts, LenProperties DEF ContractInv, PlanInv, DraftsPending
<1>4. sts # << >> /\ 1 \in 1..Len(sts) /\ Len(sts) \in Nat
    BY <1>3, EmptySeq, PlannerAssumption
<1>5. /\ subtasks' = sts /\ results' = << >> /\ approved' = approved
    BY <1>1 DEF StorePlan
<1>6. sts[1].task[1] \notin approved
  <2>1. sts[1].task[1] = plans + 1
    BY <1>3, <1>4
  <2>2. QED
    BY <1>2, <2>1, PlannerAssumption DEF ContractInv, PlansKnown
<1>7. ~Stopped(sts) /\ HasStatus(sts, {"pending", "in_progress"})
    BY <1>3, <1>4 DEF Stopped, HasStatus
<1>8. PlanPhase' = IF PlanApprovalEnabled /\ Len(sts) > 1 THEN "proposed" ELSE "running"
    BY <1>4, <1>5, <1>6, <1>7, PhaseOfPlan DEF PhaseOf
<1>9. Contract!Draft(Len(sts))
    BY <1>5, <1>8 DEF Contract!Draft
<1>10. Implements
    BY <1>3, <1>9 DEF Implements, Contract!Next
<1>11. PlansKnown'
  <2>1. plans' = plans + 1 /\ subtasks'[1].task[1] = plans + 1
    BY <1>3, <1>4, <1>5 DEF PlanDrafts
  <2>2. QED
    BY <1>2, <1>5, <2>1, PlannerAssumption DEF ContractInv, PlansKnown
<1>12. QED
    BY <1>10, <1>11

\* A retry reopens the plan from its first subtask that is not completed.
LEMMA RetriesImplement == ContractInv /\ PlanRetries => Implements /\ PlansKnown'
<1> SUFFICES ASSUME ContractInv, PlanRetries PROVE Implements /\ PlansKnown'
    OBVIOUS
<1> DEFINE sts == RetriedSubtasks
<1>1. /\ subtasks \in Seq(SubTask) /\ Len(subtasks) \in Nat /\ DOMAIN subtasks = 1..Len(subtasks)
    BY LenProperties DEF ContractInv, PlanInv, TypeInv, TypeOK
<1>2. IsQuickRetry /\ subtasks # << >> /\ StorePlan(sts, TRUE) /\ node = "plan"
    BY DEF PlanRetries, Planning, AtNode
<1>3. Stopped(subtasks) /\ HasStatus(subtasks, Statuses \ {"pending"})
  <2>1. Stopped(subtasks)
    BY <1>2 DEF ContractInv, PlanInv, Safe, TurnInv
  <2>2. QED
    BY <2>1, HasStatusMonotonic DEF Stopped, Statuses
<1>4. /\ sts \in Seq(SubTask) /\ Len(sts) = Len(subtasks) /\ DOMAIN sts = 1..Len(subtasks)
      /\ \A j \in 1..Len(subtasks) :
            /\ sts[j].status = IF request = "restart" \/ subtasks[j].status \in {"failed", "cancelled"}
                               THEN "pending" ELSE subtasks[j].status
            /\ sts[j].task = subtasks[j].task
    BY <1>1, RetriedFacts, LenProperties
<1> HIDE DEF sts
<1>5. sts # << >> /\ 1 \in 1..Len(subtasks)
    BY <1>1, <1>2, <1>4, EmptySeq
<1>6. ~Stopped(sts)
    BY <1>4 DEF Stopped, HasStatus
<1>7. HasStatus(sts, {"pending", "in_progress"})
  <2>1. PICK j \in 1..Len(subtasks) : subtasks[j].status \in {"failed", "cancelled"}
    BY <1>1, <1>3 DEF Stopped, HasStatus
  <2>2. sts[j].status = "pending"
    BY <1>4, <2>1
  <2>3. QED
    BY <1>4, <2>1, <2>2 DEF HasStatus
<1>8. /\ subtasks' = sts /\ approved' = approved
      /\ results' = IF request = "retry" THEN results ELSE << >>
    BY <1>2 DEF StorePlan
<1>9. (PlanApprovalEnabled /\ Len(sts) > 1) => sts[1].task[1] \in approved
    BY <1>3, <1>4, <1>5 DEF ContractInv, PlanInv, Safe, TurnInv, Consented
<1>10. PlanPhase = "stopped" /\ PlanPhase' = "running"
    BY <1>2, <1>3, <1>5, <1>6, <1>7, <1>8, <1>9, PhaseOfPlan DEF PhaseOf
<1>11. Implements
  <2>1. CASE request = "retry"
    <3>1. Contract!Retry
      BY <1>4, <1>8, <1>10, <2>1 DEF Contract!Retry
    <3>2. QED
      BY <3>1 DEF Implements, Contract!Next
  <2>2. CASE request = "restart"
    <3>1. Contract!Restart
      BY <1>4, <1>8, <1>10, <2>2 DEF Contract!Restart
    <3>2. QED
      BY <3>1 DEF Implements, Contract!Next
  <2>3. QED
    BY <1>2, <2>1, <2>2 DEF IsQuickRetry
<1>12. PlansKnown'
  <2>1. plans' = plans /\ subtasks'[1].task = subtasks[1].task
    BY <1>4, <1>5, <1>8 DEF PlanRetries
  <2>2. QED
    BY <1>2, <1>8, <2>1 DEF ContractInv, PlansKnown
<1>13. QED
    BY <1>11, <1>12

\* The user's answer consents to the plan, discards it, or replaces it later.
LEMMA ApprovalImplements == ContractInv /\ ApprovalAnswered => Implements /\ PlansKnown'
<1> SUFFICES ASSUME ContractInv, ApprovalAnswered PROVE Implements /\ PlansKnown'
    OBVIOUS
<1>1. CASE answer = "yes"
  <2>1. /\ UNCHANGED <<subtasks, results>>
        /\ approved' = approved \cup {subtasks[1].task[1]}
    BY <1>1 DEF ApprovalAnswered
  <2>2. \/ PlanPhase = "proposed" /\ PlanPhase' = "running"
        \/ PlanPhase' = PlanPhase
    BY <2>1, PhaseOfPlan DEF PhaseOf
  <2>3. Implements
    BY <2>1, <2>2 DEF Implements, ContractVars, Contract!Next, Contract!Consent
  <2>4. subtasks # << >> /\ plans' = plans
    BY DEF ApprovalAnswered, AtNode, ContractInv, PlanInv, TypeInv
  <2>5. PlansKnown'
    BY <2>1, <2>4 DEF ContractInv, PlansKnown
  <2>6. QED
    BY <2>3, <2>5
<1>2. CASE answer = "no"
    BY <1>2, DropImplements DEF ApprovalAnswered, RejectPlan
<1>3. CASE answer = "other"
    BY <1>3, QuietImplements DEF ApprovalAnswered
<1>4. QED
    BY <1>1, <1>2, <1>3 DEF ApprovalAnswered

\* The return of execute_node with the next subtask's status s.
LEMMA ExecuteImplements ==
    ASSUME ContractInv, node = "execute", mode = "running",
           NEW i \in DOMAIN subtasks, IsNextSubtask(subtasks, i), NEW s \in Statuses \ {"pending"},
           NEW res \in Seq(Result), NEW stopped, NEW awaiting, NEW kind,
           ExecuteReturns(WithStatus(subtasks, i, s), res, stopped, awaiting, kind),
           \/ s # "completed" /\ res = results
           \/ /\ s = "completed"
              /\ \E r \in Result : res = Append(results, r) /\ r.task = subtasks[i].task
    PROVE  Implements /\ PlansKnown'
<1> DEFINE sts == WithStatus(subtasks, i, s)
<1>0. /\ subtasks \in Seq(SubTask) /\ results \in Seq(Result)
      /\ Len(subtasks) \in Nat /\ Len(results) \in Nat /\ DOMAIN subtasks = 1..Len(subtasks)
      /\ ~Stopped(subtasks) /\ Match(subtasks, results)
    BY LenProperties, MatchIsResultsMatchPlan DEF ContractInv, PlanInv, TypeInv, TypeOK, Safe, TurnInv
<1>1. i = Len(results) + 1 /\ i \in 1..Len(subtasks)
    BY <1>0, NextIsFirstOpen
<1>2. Match(sts, res)
    BY <1>0, <1>1, UpdateMatches
<1>3. subtasks' = sts /\ results' = res /\ approved' = approved
    BY DEF ExecuteReturns
<1>4. /\ sts \in Seq(SubTask) /\ Len(sts) = Len(subtasks) /\ DOMAIN sts = 1..Len(subtasks)
      /\ sts # << >> /\ sts[1].task = subtasks[1].task /\ sts[i].status = s
  <2>1. \A j \in 1..Len(subtasks) :
          /\ sts[j].status = IF j = i THEN s ELSE subtasks[j].status
          /\ sts[j].task = subtasks[j].task
          /\ sts[j].agent = subtasks[j].agent
    BY <1>0, WithStatusFacts
  <2>2. sts \in Seq(SubTask) /\ Len(sts) = Len(subtasks)
    BY <1>0, WithStatusFacts
  <2>3. 1 \in 1..Len(subtasks) /\ Len(sts) # 0
    BY <1>0, <1>1, <2>2
  <2>4. QED
    BY <1>1, <2>1, <2>2, <2>3, EmptySeq, LenProperties
<1>5. Stopped(sts) <=> s \in {"failed", "cancelled"}
    BY <1>0, UpdatedStatuses DEF Stopped
<1> HIDE DEF sts
<1>6. PlanApprovalEnabled /\ Len(subtasks) > 1 => subtasks[1].task[1] \in approved
    BY DEF ContractInv, PlanInv, Safe, TurnInv, Consented
<1>7. PlanPhase = "running"
  <2>1. HasStatus(subtasks, {"pending", "in_progress"}) /\ subtasks # << >>
    BY <1>0, <1>1 DEF IsNextSubtask, NextSubtasks, HasStatus
  <2>2. QED
    BY <1>0, <1>6, <2>1, PhaseOfPlan DEF PhaseOf
<1>8. ASSUME s = "in_progress" PROVE Implements
  <2>1. HasStatus(sts, {"pending", "in_progress"})
    BY <1>1, <1>4, <1>8 DEF HasStatus
  <2>2. PlanPhase' = "running"
    BY <1>3, <1>4, <1>5, <1>6, <1>8, <2>1, PhaseOfPlan DEF PhaseOf
  <2>3. res = results
    BY <1>8
  <2>4. QED
    BY <1>3, <1>4, <1>7, <2>2, <2>3 DEF Implements, ContractVars
<1>9. ASSUME s \in {"failed", "cancelled"} PROVE Implements
  <2>1. PlanPhase' = "stopped" /\ res = results
    BY <1>3, <1>4, <1>5, <1>9, PhaseOfPlan DEF PhaseOf
  <2>2. Contract!Halt
    BY <1>3, <1>4, <1>7, <2>1 DEF Contract!Halt
  <2>3. QED
    BY <2>2 DEF Implements, Contract!Next
<1>10. ASSUME s = "completed" PROVE Implements
  <2>1. PICK r \in Result : res = Append(results, r)
    BY <1>10
  <2>2. Len(res) = Len(results) + 1
    BY <1>0, <2>1, AppendProperties
  <2>3. Len(res) = Len(sts) <=> ~HasStatus(sts, {"pending", "in_progress"})
    <3>1. ASSUME Len(res) = Len(sts) PROVE ~HasStatus(sts, {"pending", "in_progress"})
      <4>1. \A j \in 1..Len(sts) : sts[j].status = "completed"
        BY <1>2, <3>1 DEF Match
      <4>2. QED
        BY <1>4, <4>1 DEF HasStatus
    <3>2. ASSUME Len(res) # Len(sts) PROVE HasStatus(sts, {"pending", "in_progress"})
      <4>0. Len(sts) \in Nat /\ Len(res) \in Nat /\ Len(res) <= Len(sts)
        BY <1>0, <1>1, <1>4, <2>2
      <4>1. Len(res) + 1 \in 1..Len(sts)
        BY <3>2, <4>0
      <4>2. sts[Len(res) + 1].status # "completed"
        BY <1>0, <1>2, <2>2, <4>1 DEF Match
      <4>3. sts[Len(res) + 1] \in SubTask
        BY <1>4, <4>1, ElementOfSeq
      <4>4. sts[Len(res) + 1].status \notin {"failed", "cancelled"}
        BY <1>4, <1>5, <1>10, <4>1 DEF Stopped, HasStatus
      <4>5. QED
        BY <1>4, <4>1, <4>2, <4>3, <4>4 DEF HasStatus, SubTask, Statuses
    <3>3. QED
      BY <3>1, <3>2
  <2>4. PlanPhase' = IF Len(res) = Len(sts) THEN "finished" ELSE "running"
    BY <1>3, <1>4, <1>5, <1>6, <1>10, <2>3, PhaseOfPlan DEF PhaseOf
  <2>5. Contract!Complete
    <3>1. /\ Len(results) < Len(subtasks) /\ Len(results') = Len(results) + 1
          /\ Len(subtasks') = Len(subtasks)
      BY <1>0, <1>1, <1>3, <1>4, <2>2
    <3>2. PlanPhase' = IF Len(results') = Len(subtasks) THEN "finished" ELSE "running"
      BY <1>3, <1>4, <2>4
    <3>3. QED
      BY <1>7, <3>1, <3>2 DEF Contract!Complete
  <2>6. QED
    BY <2>5 DEF Implements, Contract!Next
<1>11. PlansKnown'
  <2>1. plans' = plans /\ subtasks'[1].task = subtasks[1].task /\ subtasks # << >>
    BY <1>0, <1>1, <1>3, <1>4 DEF ExecuteReturns
  <2>2. QED
    BY <1>3, <2>1 DEF ContractInv, PlansKnown
<1>12. QED
    BY <1>8, <1>9, <1>10, <1>11 DEF Statuses

\* A cut run changes nothing the contract sees.
LEMMA AbortImplements ==
    ASSUME ContractInv, AbortRun
    PROVE  Implements /\ PlansKnown'
    BY QuietImplements DEF AbortRun, state

\* A plan given up is stopped.
LEMMA FailImplements ==
    ASSUME ContractInv, node = "execute", mode = "running",
           NEW i \in DOMAIN subtasks, IsNextSubtask(subtasks, i), FailPlan(i) \/ CancelPlan(i)
    PROVE  Implements /\ PlansKnown'
<1>1. results \in Seq(Result)
    BY DEF ContractInv, PlanInv, TypeInv, TypeOK
<1>2. CASE FailPlan(i)
    BY <1>1, <1>2, ExecuteImplements DEF FailPlan, Statuses
<1>3. CASE CancelPlan(i)
    BY <1>1, <1>3, ExecuteImplements DEF CancelPlan, Statuses
<1>4. QED
    BY <1>2, <1>3

\* A return of the execute node completes the subtask in turn, waits, or stops the plan.
LEMMA ReturnsImplement ==
    ASSUME ContractInv, NEW i \in DOMAIN subtasks, NEW a \in ChildAgents,
           \/ ExecutePausedReturns(i, a) \/ ExecuteDeclinedReturns(i, a)
           \/ ExecuteCompletes(i, a) \/ ExecuteNeedsInput(i, a) \/ ExecuteFails(i, a)
    PROVE  Implements /\ PlansKnown'
<1>1. /\ results \in Seq(Result) /\ subtasks \in Seq(SubTask)
      /\ child \in [ChildAgents -> ChildThread] /\ DOMAIN subtasks = 1..Len(subtasks)
    BY LenProperties DEF ContractInv, PlanInv, TypeInv, TypeOK
<1>2. mode = "running" /\ work # "none" /\ IsNextSubtask(subtasks, i)
    BY DEF ExecutePausedReturns, ExecuteDeclinedReturns, ExecuteCompletes, ExecuteNeedsInput,
           ExecuteFails, Busy
<1>3. node = "execute"
    BY <1>2 DEF ContractInv, PlanInv, Safe, TurnInv
<1>4. CASE ExecutePausedReturns(i, a)
    BY <1>1, <1>2, <1>3, <1>4, ExecuteImplements DEF ExecutePausedReturns, Statuses
<1>5. CASE ExecuteDeclinedReturns(i, a)
    BY <1>2, <1>3, <1>5, FailImplements DEF ExecuteDeclinedReturns
<1>6. CASE ExecuteCompletes(i, a)
  <2> DEFINE r == [task |-> subtasks[i].task, got |-> child[a].task]
             kind == IF IsDirectHandoff(subtasks) THEN "ai" ELSE tail
  <2>1. r \in Result /\ r.task = subtasks[i].task
    <3>1. subtasks[i] \in SubTask /\ child[a] \in ChildThread
      BY <1>1, ElementOfSeq
    <3>2. QED
      BY <3>1 DEF SubTask, Result, ChildThread
  <2>2. ExecuteReturns(WithStatus(subtasks, i, "completed"), Append(results, r), cancelled, FALSE, kind)
    BY <1>6 DEF ExecuteCompletes
  <2> HIDE DEF r, kind
  <2>3. Append(results, r) \in Seq(Result)
    BY <1>1, <2>1, AppendProperties
  <2>4. QED
    BY <1>1, <1>2, <1>3, <2>1, <2>2, <2>3, ExecuteImplements DEF Statuses
<1>7. CASE ExecuteNeedsInput(i, a)
    BY <1>1, <1>2, <1>3, <1>7, ExecuteImplements DEF ExecuteNeedsInput, Statuses
<1>8. CASE ExecuteFails(i, a)
    BY <1>2, <1>3, <1>8, FailImplements DEF ExecuteFails
<1>9. QED
    BY <1>4, <1>5, <1>6, <1>7, <1>8

(***************************************************************************)
(* The refinement.                                                         *)
(***************************************************************************)
LEMMA StepImplements == ContractInv /\ [Next]_vars => Implements /\ PlansKnown'
<1> SUFFICES ASSUME ContractInv, [Next]_vars PROVE Implements /\ PlansKnown'
    OBVIOUS
<1>0. work # "none" => node = "execute"
    BY DEF ContractInv, PlanInv, Safe, TurnInv
<1>1. CASE UNCHANGED vars
    BY <1>1, QuietImplements DEF vars, state
<1>2. CASE User
  <2>1. ASSUME NEW r \in Requests, StartTurn(r) PROVE Implements /\ PlansKnown'
    BY <2>1, QuietImplements DEF StartTurn, state
  <2>2. ASSUME NEW a \in {"yes", "no", "other"}, ResumeTurn(a) PROVE Implements /\ PlansKnown'
    BY <2>2, QuietImplements DEF ResumeTurn, state
  <2>3. CASE StopRun
    <3>1. CASE ResetStopped
      BY <2>3, <3>1, DropImplements DEF StopRun, ResetStopped
    <3>2. CASE UNCHANGED <<state, tail>>
      BY <2>3, <3>2, QuietImplements DEF StopRun, state
    <3>3. QED
      BY <2>3, <3>1, <3>2 DEF StopRun
  <2>4. CASE StopWaitingPlan
    BY <2>4, DropImplements DEF StopWaitingPlan, ResetStopped
  <2>5. QED
    BY <1>2, <2>1, <2>2, <2>3, <2>4 DEF User
<1>3. CASE Fault
  <2>1. CASE AbortRun
    BY <2>1, AbortImplements
  <2>2. CASE UNCHANGED <<mode, node, work, answer, request, tail, prior, wait, state, plans, approved>>
    BY <2>2, QuietImplements DEF state
  <2>3. QED
    BY <1>3, <2>1, <2>2 DEF Fault, Disconnect, RunError
<1>4. CASE Oauth
  <2>1. CASE OauthResumes
    BY <2>1, QuietImplements DEF OauthResumes, state
  <2>2. CASE OauthAbandoned
    BY <2>2, AbortImplements DEF OauthAbandoned
  <2>3. QED
    BY <1>4, <2>1, <2>2 DEF Oauth
<1>5. CASE PlanNode
  <2>1. CASE PlanForwardsAnswer
    BY <2>1, QuietImplements DEF PlanForwardsAnswer, state
  <2>2. CASE PlanFailureAction
    BY <2>2, DropImplements DEF PlanFailureAction
  <2>3. CASE PlanRetries
    BY <2>3, RetriesImplement
  <2>4. CASE PlanDrafts
    BY <2>4, DraftsImplement
  <2>5. ASSUME NEW k \in {"none", "reply", "cancel"}, PlanEndsTurn(k) PROVE Implements /\ PlansKnown'
    BY <2>5, DropImplements DEF PlanEndsTurn, RejectPlan
  <2>6. QED
    BY <1>5, <2>1, <2>2, <2>3, <2>4, <2>5 DEF PlanNode
<1>6. CASE ApprovalNode
  <2>1. CASE ApprovalAsks
    BY <2>1, QuietImplements DEF ApprovalAsks, Interrupt, state
  <2>2. QED
    BY <1>6, <2>1, ApprovalImplements DEF ApprovalNode
<1>7. CASE ExecuteFindsNothing
    BY <1>7, AbortImplements DEF ExecuteFindsNothing
<1>8. CASE ExecuteUnknownAgent
    BY <1>8, FailImplements DEF ExecuteUnknownAgent, AtNode
<1>9. CASE ExecuteNeedsOauth2
    BY <1>9, QuietImplements DEF ExecuteNeedsOauth2, state
<1>10. ASSUME NEW i \in DOMAIN subtasks, NEW a \in ChildAgents,
              ExecuteSends(i, a) \/ ExecuteSurfaces(i, a) \/ ExecuteResumesChild(i, a)
       PROVE  Implements /\ PlansKnown'
    BY <1>10, QuietImplements DEF ExecuteSends, ExecuteSurfaces, ExecuteResumesChild, Interrupt, state
<1>11. ASSUME NEW i \in DOMAIN subtasks, NEW a \in ChildAgents,
              \/ ExecutePausedReturns(i, a) \/ ExecuteDeclinedReturns(i, a)
              \/ ExecuteCompletes(i, a) \/ ExecuteNeedsInput(i, a) \/ ExecuteFails(i, a)
       PROVE  Implements /\ PlansKnown'
    BY <1>11, ReturnsImplement
<1>12. CASE ChildAgent
  <2>1. PICK i \in DOMAIN subtasks, a \in ChildAgents :
            ChildRaises(i, a) \/ \E phase \in {"idle", "paused"} : ChildStops(i, a, phase)
    BY <1>12 DEF ChildAgent
  <2>2. CASE ChildRaises(i, a)
    <3>1. mode = "running" /\ node = "execute" /\ IsNextSubtask(subtasks, i)
      BY <1>0, <2>2 DEF ChildRaises, Busy
    <3>2. CASE AbortRun
      BY <3>2, AbortImplements
    <3>3. CASE FailPlan(i)
      BY <3>1, <3>3, FailImplements
    <3>4. QED
      BY <2>2, <3>2, <3>3 DEF ChildRaises
  <2>3. ASSUME NEW phase \in {"idle", "paused"}, ChildStops(i, a, phase)
        PROVE  Implements /\ PlansKnown'
    BY <2>3, QuietImplements DEF ChildStops, state
  <2>4. QED
    BY <2>1, <2>2, <2>3
<1>13. CASE Reduce
    BY <1>13, DropImplements DEF Reduce
<1>14. CASE SelectUiTools \/ Summarize
    BY <1>14, QuietImplements DEF SelectUiTools, Summarize, state
<1>15. QED
    BY <1>1, <1>2, <1>3, <1>4, <1>5, <1>6, <1>7, <1>8, <1>9, <1>10, <1>11, <1>12, <1>13, <1>14
    DEF Next, Run, ExecuteNode

\* A thread without checkpoints has no plan.
LEMMA InitContract == DraftsPending /\ Init => ContractInv /\ Contract!Init
<1> SUFFICES ASSUME DraftsPending, Init PROVE ContractInv /\ Contract!Init
    OBVIOUS
<1>1. subtasks = << >> /\ results = << >> /\ approved = {}
    BY DEF Init
<1>2. PlansKnown
    BY <1>1 DEF PlansKnown
<1>3. Contract!Init
    BY <1>1, PhaseOfPlan DEF PhaseOf, Contract!Init
<1>4. QED
    BY <1>2, <1>3, InitPlan DEF ContractInv

\* The planner keeps the contract of PlanContract: no subtask is completed before
\* the plan is consented to, out of turn or twice in a run, whatever the agents,
\* the user and the connection do.
THEOREM PlannerImplementsContract == DraftsPending /\ Spec => KeepsContract
<1>1. ContractInv /\ [Next]_vars => ContractInv'
    BY PlanStep, StepImplements DEF ContractInv
<1>2. ContractInv /\ [Next]_vars => [Contract!Next]_(Contract!contract)
    BY StepImplements DEF Implements, ContractVars, Contract!contract
<1>3. QED
    BY <1>1, <1>2, InitContract, PTL DEF Spec, KeepsContract, Contract!Spec
=============================================================================
