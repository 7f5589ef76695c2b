-------------------------- MODULE PlannerTasksProofs --------------------------
(* Proofs about the tasks that Planner hands to its child agents: which task  *)
(* each child holds, and what a stop leaves of the plan.                      *)
EXTENDS PlannerProofs

(***************************************************************************)
(* A stop ends the plan.  A node that answers the user for the plan finds  *)
(* nothing of it left to run, which is why a stop need not touch a state   *)
(* whose turn has its reply.                                               *)
(***************************************************************************)
EndInv ==
    /\ mode # "idle" => node # "end"
    /\ node \in {"reduce", "ui_tools"} =>
           ~HasStatus(subtasks, {"pending", "in_progress"}) /\ ~awaiting_input

\* A step that stays, or goes to a node that rests on nothing of the plan.
LEMMA EndStays ==
    ASSUME EndInv, mode' # "idle" => node' # "end",
           \/ node' \notin {"reduce", "ui_tools"}
           \/ node' = node /\ UNCHANGED state
    PROVE  EndInv'
    BY DEF EndInv, state

\* A return of execute_node goes to an answering node only if nothing is left.
LEMMA EndReturns ==
    ASSUME EndInv, NEW sts, NEW res, NEW stopped \in BOOLEAN, NEW awaiting \in BOOLEAN, NEW kind,
           ExecuteReturns(sts, res, stopped, awaiting, kind)
    PROVE  EndInv'
<1>1. subtasks' = sts /\ awaiting_input' = awaiting /\ node' = RouteNext(sts, stopped, awaiting)
    BY DEF ExecuteReturns
<1>2. node' \in {"reduce", "ui_tools"} => ~HasStatus(sts, {"in_progress", "pending"}) /\ ~awaiting
    BY <1>1 DEF RouteNext
<1>3. node' # "end"
    BY <1>1 DEF RouteNext
<1>4. HasStatus(sts, {"pending", "in_progress"}) => HasStatus(sts, {"in_progress", "pending"})
    BY DEF HasStatus
<1>5. QED
    BY <1>1, <1>2, <1>3, <1>4 DEF EndInv

\* An aborted run leaves its node, or ends.
LEMMA EndAborts == EndInv /\ AbortRun /\ mode # "idle" => EndInv'
    BY DEF AbortRun, EndInv, state

\* The end of a turn is kept by every step.
LEMMA EndStep == PlanInv /\ EndInv /\ [Next]_vars => EndInv'
<1> SUFFICES ASSUME PlanInv, EndInv, [Next]_vars PROVE EndInv'
    OBVIOUS
<1>0. /\ mode = "idle" => node = "end"
      /\ work # "none" => mode = "running" /\ node = "execute"
      /\ cancelled \in BOOLEAN
    BY DEF PlanInv, TypeInv, TypeOK, Safe, TurnInv
<1>1. CASE UNCHANGED vars
    BY <1>1 DEF vars, state, EndInv
<1>2. CASE User \/ Fault \/ Oauth
  <2>1. ASSUME NEW r \in Requests, StartTurn(r) PROVE EndInv'
    BY <2>1 DEF StartTurn, EndInv
  <2>2. ASSUME NEW a \in {"yes", "no", "other"}, ResumeTurn(a) PROVE EndInv'
    BY <2>2 DEF ResumeTurn, EndInv, state
  <2>3. CASE StopRun \/ StopWaitingPlan
    BY <2>3 DEF StopRun, StopWaitingPlan, EndInv
  <2>4. CASE Disconnect
    <3>1. CASE mode \in {"running", "oauth"} /\ AbortRun
      BY <3>1, EndAborts
    <3>2. CASE UNCHANGED <<mode, node, work, answer, request, tail, prior, wait, state, plans, approved>>
      BY <3>2 DEF EndInv, state
    <3>3. QED
      BY <2>4, <3>1, <3>2 DEF Disconnect
  <2>5. CASE RunError
    BY <2>5, EndAborts DEF RunError
  <2>6. CASE OauthResumes
    BY <2>6 DEF OauthResumes, EndInv, state
  <2>7. CASE OauthAbandoned
    BY <2>7, EndAborts DEF OauthAbandoned
  <2>8. QED
    BY <1>2, <2>1, <2>2, <2>3, <2>4, <2>5, <2>6, <2>7 DEF User, Fault, Oauth
<1>3. CASE PlanNode
  <2>1. ASSUME NEW sts, NEW awaiting, NEW again PROVE RouteAfterPlan(sts, awaiting, again) \notin {"end", "reduce", "ui_tools"}
    BY DEF RouteAfterPlan
  <2>2. node' \notin {"end", "reduce", "ui_tools"}
    BY <1>3, <2>1
    DEF PlanNode, PlanForwardsAnswer, PlanFailureAction, PlanRetries, PlanDrafts, PlanEndsTurn, StorePlan
  <2>3. QED
    BY <2>2 DEF EndInv
<1>4. CASE ApprovalNode
  <2>1. CASE ApprovalAsks
    BY <2>1 DEF ApprovalAsks, Interrupt, AtNode, EndInv
  <2>2. CASE ApprovalAnswered
    BY <2>2 DEF ApprovalAnswered, RouteAfterApproval, EndInv
  <2>3. QED
    BY <1>4, <2>1, <2>2 DEF ApprovalNode
<1>5. CASE ExecuteFindsNothing
    BY <1>5, EndAborts DEF ExecuteFindsNothing, AtNode
<1>6. CASE ExecuteUnknownAgent
    BY <1>6, EndReturns DEF ExecuteUnknownAgent, FailPlan
<1>7. CASE ExecuteNeedsOauth2
    BY <1>7 DEF ExecuteNeedsOauth2, AtNode, EndInv
<1>8. ASSUME NEW i \in DOMAIN subtasks, NEW a \in ChildAgents,
             ExecuteSends(i, a) \/ ExecuteSurfaces(i, a) \/ ExecuteResumesChild(i, a)
      PROVE  EndInv'
  <2>1. node' = node /\ node = "execute"
    BY <1>8 DEF ExecuteSends, ExecuteSurfaces, ExecuteResumesChild, ExecuteReady, AtNode, Interrupt
  <2>2. QED
    BY <2>1 DEF EndInv
<1>9. ASSUME NEW i \in DOMAIN subtasks, NEW a \in ChildAgents,
             \/ ExecutePausedReturns(i, a) \/ ExecuteDeclinedReturns(i, a)
             \/ ExecuteCompletes(i, a) \/ ExecuteNeedsInput(i, a) \/ ExecuteFails(i, a)
      PROVE  EndInv'
    BY <1>0, <1>9, EndReturns
    DEF ExecutePausedReturns, ExecuteDeclinedReturns, ExecuteCompletes, ExecuteNeedsInput,
        ExecuteFails, FailPlan, CancelPlan
<1>10. ASSUME NEW i \in DOMAIN subtasks, NEW a \in ChildAgents, ChildRaises(i, a)
       PROVE  EndInv'
  <2>1. mode = "running"
    BY <1>10 DEF ChildRaises, Busy
  <2>2. CASE AbortRun
    BY <2>1, <2>2, EndAborts
  <2>3. CASE FailPlan(i)
    BY <2>3, EndReturns DEF FailPlan
  <2>4. QED
    BY <1>10, <2>2, <2>3 DEF ChildRaises
<1>11. ASSUME NEW i \in DOMAIN subtasks, NEW a \in ChildAgents,
              NEW phase \in {"idle", "paused"}, ChildStops(i, a, phase)
       PROVE  EndInv'
    BY <1>11 DEF ChildStops, EndInv, state
<1>12. CASE Reduce
    BY <1>12, EmptyPlanFacts, NothingAsked DEF Reduce, AtNode, EndInv
<1>13. CASE SelectUiTools \/ Summarize
    BY <1>13 DEF SelectUiTools, Summarize, AtNode, EndInv
<1>14. QED
    BY <1>1, <1>2, <1>3, <1>4, <1>5, <1>6, <1>7, <1>8, <1>9, <1>10, <1>11, <1>12, <1>13
    DEF Next, Run, ExecuteNode, ChildAgent

\* A stop before the reply is stored, or of a plan that waits for the user,
\* leaves nothing of the plan to run (_STOPPED_PLANNER_STATE in websocket.py).
THEOREM StopsEndPlans == DraftsPending /\ Spec => StopEndsPlan
<1> DEFINE Ended == ~HasStatus(subtasks, {"pending", "in_progress"}) /\ ~awaiting_input
<1>1. ResetStopped => Ended'
    BY EmptyPlanFacts DEF ResetStopped
<1>2. PlanInv /\ EndInv /\ StopRun /\ node # "summarize" => Ended'
  <2> SUFFICES ASSUME PlanInv, EndInv, StopRun, node # "summarize" PROVE Ended'
      OBVIOUS
  <2>1. CASE UNCHANGED <<state, tail>> /\ tail \in {"ai", "failed", "cancelled"}
    <3>1. node \in {"reduce", "ui_tools"}
      BY <2>1 DEF PlanInv, TypeInv, TypeOK, Nodes, Safe, TurnInv, EndInv, StopRun
    <3>2. Ended
      BY <3>1 DEF EndInv
    <3>3. QED
      BY <2>1, <3>2 DEF state
  <2>2. QED
    BY <1>1, <2>1 DEF StopRun
<1>3. StopWaitingPlan => Ended'
    BY <1>1 DEF StopWaitingPlan
<1>4. DraftsPending /\ Init => EndInv
    BY DEF Init, EndInv
<1> DEFINE Ends == (StopRun /\ node # "summarize") \/ StopWaitingPlan
                   => ~HasStatus(subtasks', {"pending", "in_progress"}) /\ ~awaiting_input'
<1>5. PlanInv /\ EndInv => Ends
    BY <1>2, <1>3
<1>6. QED
    BY <1>4, <1>5, EndStep, PlanInvariant, PTL DEF Spec, StopEndsPlan

(***************************************************************************)
(* The tasks that the children hold.                                       *)
(***************************************************************************)
InTurn == Len(results) + 1
Current(a) == Len(results) < Len(subtasks) /\ subtasks[InTurn].agent = a

\* A plan's tasks are those of one draft, in order.
PlanTasks ==
    \E p \in Nat : p <= plans /\ \A i \in 1..Len(subtasks) : subtasks[i].task = <<p, i>>

\* A child that was given a task of the stored plan is the one it names.
ChildTasks ==
    \A a \in ChildAgents :
        /\ child[a].task[1] <= plans
        /\ \A i \in 1..Len(subtasks) : child[a].task = subtasks[i].task => subtasks[i].agent = a

\* The child of the subtask in turn works while execute_node waits for it.
WorkPhase ==
    \A a \in ChildAgents : Current(a) =>
        /\ work \in {"sent", "resumed", "declined"} => child[a].phase = "running"
        /\ work = "answered" => child[a].phase = "idle"

\* A child that works, or that asked the user, holds no task with a result.
Unsettled ==
    \A a \in ChildAgents :
        child[a].phase # "idle" \/ ((awaiting_input \/ work = "answered") /\ Current(a)) =>
            \A i \in 1..Len(results) : results[i].task # child[a].task

TaskInv == PlanTasks /\ ChildTasks /\ WorkPhase /\ Unsettled

\* What the invariant is about.
LEMMA TypeFacts ==
    ASSUME PlanInv
    PROVE  /\ subtasks \in Seq(SubTask) /\ results \in Seq(Result)
           /\ Len(subtasks) \in Nat /\ Len(results) \in Nat
           /\ DOMAIN subtasks = 1..Len(subtasks) /\ DOMAIN results = 1..Len(results)
           /\ child \in [ChildAgents -> ChildThread] /\ plans \in Nat
           /\ cancelled \in BOOLEAN /\ awaiting_input \in BOOLEAN
           /\ \A i \in 1..Len(subtasks) : subtasks[i] \in SubTask
           /\ Match(subtasks, results)
    BY LenProperties, ElementOfSeq, MatchIsResultsMatchPlan, PlannerAssumption
    DEF PlanInv, TypeInv, TypeOK, Safe

\* execute_node works on the subtask in turn.
LEMMA NextIsInTurn ==
    ASSUME PlanInv, node = "execute", NEW i \in DOMAIN subtasks, IsNextSubtask(subtasks, i)
    PROVE  i = InTurn /\ i \in 1..Len(subtasks) /\ Len(results) < Len(subtasks)
<1>1. ~Stopped(subtasks)
    BY DEF PlanInv, Safe, TurnInv
<1>2. i = Len(results) + 1 /\ i \in 1..Len(subtasks)
    BY <1>1, TypeFacts, NextIsFirstOpen
<1>3. QED
    BY <1>2, TypeFacts DEF InTurn

\* ... and while it waits for a child, on that child's.
LEMMA BusyInTurn ==
    ASSUME PlanInv, NEW i \in DOMAIN subtasks, NEW a, NEW S, "none" \notin S, Busy(i, a, S)
    PROVE  /\ i = InTurn /\ i \in 1..Len(subtasks) /\ Len(results) < Len(subtasks)
           /\ Current(a) /\ node = "execute" /\ work \in S /\ mode = "running"
<1>1. work # "none" /\ work \in S /\ IsNextSubtask(subtasks, i) /\ a = subtasks[i].agent /\ mode = "running"
    BY DEF Busy
<1>2. node = "execute"
    BY <1>1 DEF PlanInv, Safe, TurnInv
<1>3. QED
    BY <1>1, <1>2, NextIsInTurn DEF Current

\* The plan's subtasks but for their statuses, and the tasks of the children.
SamePlan ==
    /\ Len(subtasks') = Len(subtasks)
    /\ \A i \in 1..Len(subtasks) : subtasks'[i].task = subtasks[i].task
                                   /\ subtasks'[i].agent = subtasks[i].agent
SameTasks == \A a \in ChildAgents : child'[a].task = child[a].task

\* Nothing changes of the plan when it does not change, or only in a status.
LEMMA PlanIsSame ==
    ASSUME PlanInv
    PROVE  /\ subtasks' = subtasks => SamePlan
           /\ \A i \in DOMAIN subtasks, s \in Statuses :
                 subtasks' = WithStatus(subtasks, i, s) => SamePlan
<1>1. subtasks' = subtasks => SamePlan
    BY DEF SamePlan
<1>2. ASSUME NEW i \in DOMAIN subtasks, NEW s \in Statuses, subtasks' = WithStatus(subtasks, i, s)
      PROVE  SamePlan
    BY <1>2, TypeFacts, WithStatusFacts DEF SamePlan
<1>3. QED
    BY <1>1, <1>2

\* Where the plan's tasks and the children's stay, only phases can disturb.
LEMMA KeepParts ==
    ASSUME PlanInv, TaskInv, SamePlan, results' = results, plans' = plans
    PROVE  /\ PlanTasks' /\ \A a : Current(a)' <=> Current(a)
           /\ SameTasks => ChildTasks'
<1>1. PlanTasks'
    BY TypeFacts DEF TaskInv, PlanTasks, SamePlan
<1>2. ASSUME NEW a PROVE Current(a)' <=> Current(a)
  <2>1. Len(results) < Len(subtasks) => InTurn \in 1..Len(subtasks)
    BY TypeFacts DEF InTurn
  <2>2. InTurn' = InTurn
    BY DEF InTurn
  <2>3. Len(results) < Len(subtasks) => subtasks'[InTurn].agent = subtasks[InTurn].agent
    BY <2>1 DEF SamePlan
  <2>4. Len(subtasks') = Len(subtasks)
    BY DEF SamePlan
  <2>5. QED
    BY <2>2, <2>3, <2>4 DEF Current
<1>3. SameTasks => ChildTasks'
    BY DEF TaskInv, ChildTasks, SamePlan, SameTasks
<1>4. QED
    BY <1>1, <1>2, <1>3

\* A step that gives no child a task and settles none.
LEMMA KeepStep ==
    ASSUME PlanInv, TaskInv, SamePlan, results' = results, plans' = plans, SameTasks,
           work' = "none",
           awaiting_input' => awaiting_input \/ work = "answered",
           \A a \in ChildAgents : child'[a].phase # "idle" =>
               child[a].phase # "idle" \/ ((awaiting_input \/ work = "answered") /\ Current(a))
    PROVE  TaskInv'
<1>1. PlanTasks' /\ ChildTasks' /\ \A a : Current(a)' <=> Current(a)
    BY KeepParts
<1>2. WorkPhase'
    BY DEF WorkPhase
<1>3. Unsettled'
  <2> SUFFICES ASSUME NEW a \in ChildAgents, NEW i \in 1..Len(results),
                      child'[a].phase # "idle" \/ ((awaiting_input' \/ work' = "answered") /\ Current(a)')
               PROVE  results[i].task # child'[a].task
      BY DEF Unsettled
  <2>1. child[a].phase # "idle" \/ ((awaiting_input \/ work = "answered") /\ Current(a))
    BY <1>1
  <2>2. results[i].task # child[a].task
    BY <2>1 DEF TaskInv, Unsettled
  <2>3. QED
    BY <2>2 DEF SameTasks
<1>4. QED
    BY <1>1, <1>2, <1>3 DEF TaskInv

\* A step that drops the results with the plan.
LEMMA DropTasks ==
    ASSUME PlanInv, TaskInv, subtasks' = << >>, results' = << >>, plans' = plans, SameTasks,
           work' = "none"
    PROVE  TaskInv'
<1>1. Len(subtasks') = 0 /\ Len(results') = 0 /\ 1..0 = {}
    OBVIOUS
<1>2. PlanTasks'
  <2>1. plans' \in Nat /\ plans' <= plans'
    BY TypeFacts
  <2>2. QED
    BY <1>1, <2>1 DEF PlanTasks
<1>3. ChildTasks'
    BY <1>1 DEF TaskInv, ChildTasks, SameTasks
<1>4. WorkPhase' /\ Unsettled'
    BY <1>1 DEF WorkPhase, Unsettled
<1>5. QED
    BY <1>2, <1>3, <1>4 DEF TaskInv

\* Closing or cutting the children only makes them idle.
LEMMA ClosedFacts ==
    ASSUME PlanInv, child' = child \/ child' = ChildrenClosed \/ child' = CutChildren
    PROVE  SameTasks /\ \A a \in ChildAgents : child'[a].phase # "idle" => child[a].phase # "idle"
<1> SUFFICES ASSUME NEW a \in ChildAgents
             PROVE  child'[a].task = child[a].task /\ (child'[a].phase # "idle" => child[a].phase # "idle")
    BY DEF SameTasks
<1>1. child[a] \in ChildThread
    BY TypeFacts
<1>2. /\ [child[a] EXCEPT !.phase = "idle"].task = child[a].task
      /\ [child[a] EXCEPT !.phase = "idle"].phase = "idle"
    BY <1>1 DEF ChildThread
<1>3. CASE child' = child
    BY <1>3
<1>4. CASE child' = ChildrenClosed
    BY <1>2, <1>4 DEF ChildrenClosed
<1>5. CASE child' = CutChildren
    BY <1>2, <1>5 DEF CutChildren
<1>6. QED
    BY <1>3, <1>4, <1>5

\* A child that stops keeps its task.
LEMMA PhaseFacts ==
    ASSUME PlanInv, NEW a \in ChildAgents, NEW phase, child' = [child EXCEPT ![a].phase = phase]
    PROVE  /\ SameTasks /\ child'[a].phase = phase
           /\ \A b \in ChildAgents : b # a => child'[b] = child[b]
<1>1. child[a] \in ChildThread /\ DOMAIN child = ChildAgents
    BY TypeFacts
<1> DEFINE t == [child[a] EXCEPT !.phase = phase]
<1>2. t.task = child[a].task /\ t.phase = phase
    BY <1>1 DEF ChildThread
<1>3. child' = [child EXCEPT ![a] = t]
    OBVIOUS
<1> HIDE DEF t
<1>4. child'[a] = t /\ \A b \in ChildAgents : b # a => child'[b] = child[b]
    BY <1>1, <1>3
<1>5. QED
    BY <1>2, <1>4 DEF SameTasks

\* A step that leaves the plan and the children alone, or closes children.
LEMMA QuietTasks ==
    ASSUME PlanInv, TaskInv, work' = "none",
           subtasks' = subtasks, results' = results, plans' = plans,
           awaiting_input' = awaiting_input,
           child' = child \/ child' = ChildrenClosed \/ child' = CutChildren
    PROVE  TaskInv'
    BY PlanIsSame, ClosedFacts, KeepStep

\* A retried or restarted plan has the same tasks.
LEMMA RetriesTasks == PlanInv /\ TaskInv /\ PlanRetries => TaskInv'
<1> SUFFICES ASSUME PlanInv, TaskInv, PlanRetries PROVE TaskInv'
    OBVIOUS
<1>1. /\ subtasks' = RetriedSubtasks /\ plans' = plans /\ child' = child /\ work' = "none"
      /\ awaiting_input' = awaiting_input /\ results' \in {results, << >>}
    BY DEF PlanRetries, StorePlan, PlanKeeps, Planning, AtNode
<1>2. SamePlan
    BY <1>1, TypeFacts, RetriedFacts DEF SamePlan
<1>3. SameTasks
    BY <1>1 DEF SameTasks
<1>4. CASE results' = results
    BY <1>1, <1>2, <1>3, <1>4, KeepStep
<1>5. CASE results' = << >>
  <2>1. PlanTasks'
    BY <1>1, <1>2, TypeFacts DEF TaskInv, PlanTasks, SamePlan
  <2>2. ChildTasks'
    BY <1>1, <1>2 DEF TaskInv, ChildTasks, SamePlan
  <2>3. WorkPhase'
    BY <1>1 DEF WorkPhase
  <2>4. Unsettled'
    BY <1>5 DEF Unsettled
  <2>5. QED
    BY <2>1, <2>2, <2>3, <2>4 DEF TaskInv
<1>6. QED
    BY <1>1, <1>4, <1>5

\* The tasks of a drafted plan are new to every child.
LEMMA DraftsTasks == PlanInv /\ TaskInv /\ PlanDrafts => TaskInv'
<1> SUFFICES ASSUME PlanInv, TaskInv, PlanDrafts PROVE TaskInv'
    OBVIOUS
<1>1. /\ results' = << >> /\ plans' = plans + 1 /\ child' = child /\ work' = "none"
      /\ subtasks' \in DraftedSubtasks /\ plans < MaxPlans
    BY DEF PlanDrafts, StorePlan, PlanKeeps, Planning, AtNode
<1>2. plans \in 0..MaxPlans
    BY DEF PlanInv, TypeInv, TypeOK
<1>3. \A j \in 1..Len(subtasks') : subtasks'[j].task = <<plans + 1, j>>
    BY <1>1, <1>2, DraftedFacts
<1>4. PlanTasks'
    BY <1>1, <1>3, TypeFacts DEF PlanTasks
<1>5. ChildTasks'
  <2> SUFFICES ASSUME NEW a \in ChildAgents
               PROVE  /\ child[a].task[1] <= plans + 1
                      /\ \A i \in 1..Len(subtasks') : child[a].task # subtasks'[i].task
      BY <1>1 DEF ChildTasks
  <2>1. child[a].task[1] <= plans /\ child[a] \in ChildThread
    BY TypeFacts DEF TaskInv, ChildTasks
  <2>2. child[a].task[1] \in Nat
    BY <2>1, PlannerAssumption DEF ChildThread, Tasks, NoTask
  <2>3. child[a].task[1] < plans + 1
    BY <2>1, <2>2, TypeFacts
  <2>4. QED
    BY <1>3, <2>2, <2>3, TypeFacts
<1>6. WorkPhase'
    BY <1>1 DEF WorkPhase
<1>7. Unsettled'
    BY <1>1 DEF Unsettled
<1>8. QED
    BY <1>4, <1>5, <1>6, <1>7 DEF TaskInv

\* A return of execute_node that files no result.
LEMMA ReturnsTasks ==
    ASSUME PlanInv, TaskInv, NEW i \in DOMAIN subtasks, NEW s \in Statuses, NEW stopped, NEW kind,
           NEW awaiting \in BOOLEAN,
           ExecuteReturns(WithStatus(subtasks, i, s), results, stopped, awaiting, kind),
           awaiting => work = "answered", SameTasks,
           \A a \in ChildAgents : child'[a].phase # "idle" =>
               child[a].phase # "idle" \/ (work = "answered" /\ Current(a))
    PROVE  TaskInv'
<1>1. /\ subtasks' = WithStatus(subtasks, i, s) /\ results' = results /\ plans' = plans
      /\ work' = "none" /\ awaiting_input' = awaiting
    BY DEF ExecuteReturns
<1>2. QED
    BY <1>1, PlanIsSame, KeepStep

\* The task sent to a child has no result: it is the one in turn, or the one
\* whose question the user has answered.
LEMMA SentFacts ==
    ASSUME PlanInv, TaskInv, NEW i, NEW a \in ChildAgents, ExecuteSends(i, a)
    PROVE  /\ i = InTurn /\ i \in 1..Len(subtasks) /\ Current(a)
           /\ child'[a].phase = "running"
           /\ child'[a].task = IF awaiting_input THEN child[a].task ELSE subtasks[i].task
           /\ \A b \in ChildAgents : b # a => child'[b] = child[b]
           /\ \A j \in 1..Len(results) : results[j].task # child'[a].task
<1>0. /\ node = "execute" /\ i \in DOMAIN subtasks /\ IsNextSubtask(subtasks, i)
      /\ a = subtasks[i].agent
    BY DEF ExecuteSends, ExecuteReady, AtNode
<1>1. i = InTurn /\ i \in 1..Len(subtasks) /\ Current(a)
    BY <1>0, NextIsInTurn DEF Current
<1> DEFINE t == [phase |-> "running",
                 task |-> IF awaiting_input THEN child[a].task ELSE subtasks[i].task]
<1>2. child' = [child EXCEPT ![a] = t] /\ DOMAIN child = ChildAgents
    BY TypeFacts DEF ExecuteSends
<1>3. t.phase = "running" /\ t.task = IF awaiting_input THEN child[a].task ELSE subtasks[i].task
    OBVIOUS
<1> HIDE DEF t
<1>4. child'[a] = t /\ \A b \in ChildAgents : b # a => child'[b] = child[b]
    BY <1>2
<1>5. ASSUME NEW j \in 1..Len(results) PROVE results[j].task # child'[a].task
  <2>1. CASE awaiting_input
    BY <1>1, <1>3, <1>4, <2>1 DEF TaskInv, Unsettled
  <2>2. CASE ~awaiting_input
    <3>1. results[j].task = subtasks[j].task /\ j \in 1..Len(subtasks) /\ j # i
      BY <1>1, TypeFacts DEF Match, InTurn
    <3>2. subtasks[j].task # subtasks[i].task
      BY <1>1, <3>1 DEF TaskInv, PlanTasks
    <3>3. QED
      BY <1>3, <1>4, <2>2, <3>1, <3>2
  <2>3. QED
    BY <2>1, <2>2
<1>6. QED
    BY <1>1, <1>3, <1>4, <1>5

\* ... and the invariant holds of it.
LEMMA SendsTasks ==
    ASSUME PlanInv, TaskInv, NEW i, NEW a \in ChildAgents, ExecuteSends(i, a)
    PROVE  TaskInv'
<1>0. /\ subtasks' = subtasks /\ results' = results /\ plans' = plans
      /\ awaiting_input' = awaiting_input /\ work' = "sent"
    BY DEF ExecuteSends, state
<1>1. PlanTasks' /\ \A b : Current(b)' <=> Current(b)
    BY <1>0, PlanIsSame, KeepParts
<1>2. ASSUME NEW b \in ChildAgents, b # a
      PROVE  child'[b] = child[b] /\ ~Current(b)
    BY <1>2, SentFacts DEF Current
<1>3. ChildTasks'
  <2> SUFFICES ASSUME NEW b \in ChildAgents
               PROVE  /\ child'[b].task[1] <= plans
                      /\ \A j \in 1..Len(subtasks) :
                            child'[b].task = subtasks[j].task => subtasks[j].agent = b
      BY <1>0 DEF ChildTasks
  <2>1. CASE child'[b].task = child[b].task
    BY <2>1 DEF TaskInv, ChildTasks
  <2>2. CASE b = a /\ child'[a].task = subtasks[i].task
    <3>1. PICK p \in Nat : p <= plans /\ \A j \in 1..Len(subtasks) : subtasks[j].task = <<p, j>>
      BY DEF TaskInv, PlanTasks
    <3>2. i \in 1..Len(subtasks) /\ subtasks[i].agent = a
      BY SentFacts DEF Current
    <3>3. QED
      BY <2>2, <3>1, <3>2
  <2>3. QED
    BY <1>2, <2>1, <2>2, SentFacts
<1>4. WorkPhase'
    BY <1>0, <1>1, <1>2, SentFacts DEF WorkPhase
<1>5. Unsettled'
  <2> SUFFICES ASSUME NEW b \in ChildAgents, NEW j \in 1..Len(results),
                      child'[b].phase # "idle" \/ (awaiting_input /\ Current(b))
               PROVE  results[j].task # child'[b].task
      BY <1>0, <1>1 DEF Unsettled
  <2>1. CASE b = a
    BY <2>1, SentFacts
  <2>2. CASE b # a
    BY <1>2, <2>2 DEF TaskInv, Unsettled
  <2>3. QED
    BY <2>1, <2>2
<1>6. QED
    BY <1>1, <1>3, <1>4, <1>5 DEF TaskInv

\* A child that works on goes on with its task, and the user's decision is for
\* the one that paused.
LEMMA WorksTasks ==
    ASSUME PlanInv, TaskInv, NEW a \in ChildAgents, NEW phase,
           child' = [child EXCEPT ![a].phase = phase],
           subtasks' = subtasks, results' = results, plans' = plans,
           awaiting_input' = awaiting_input,
           Current(a), child[a].phase # "idle",
           work' \in {"resumed", "declined"} => phase = "running",
           work' = "answered" => phase = "idle",
           work' # "sent"
    PROVE  TaskInv'
<1>1. /\ SameTasks /\ child'[a].phase = phase
      /\ \A b \in ChildAgents : b # a => child'[b] = child[b]
    BY PhaseFacts
<1>2. PlanTasks' /\ ChildTasks' /\ \A b : Current(b)' <=> Current(b)
    BY <1>1, PlanIsSame, KeepParts
<1>3. \A b : Current(b) => b = a
    BY DEF Current
<1>4. WorkPhase'
    BY <1>1, <1>2, <1>3 DEF WorkPhase
<1>5. Unsettled'
  <2> SUFFICES ASSUME NEW b \in ChildAgents, NEW j \in 1..Len(results),
                      child'[b].phase # "idle" \/ Current(b)
               PROVE  results[j].task # child[b].task
      BY <1>1, <1>2 DEF Unsettled, SameTasks
  <2>1. child[b].phase # "idle"
    BY <1>1, <1>3
  <2>2. QED
    BY <2>1 DEF TaskInv, Unsettled
<1>6. QED
    BY <1>2, <1>4, <1>5 DEF TaskInv

\* The result filed is that of no child that still works.
LEMMA CompletesTasks ==
    ASSUME PlanInv, TaskInv, NEW i \in DOMAIN subtasks, NEW a \in ChildAgents,
           ExecuteCompletes(i, a)
    PROVE  TaskInv'
<1> DEFINE r == [task |-> subtasks[i].task, got |-> child[a].task]
<1>0. /\ subtasks' = WithStatus(subtasks, i, "completed") /\ results' = Append(results, r)
      /\ plans' = plans /\ work' = "none" /\ ~awaiting_input' /\ child' = child
      /\ Busy(i, a, {"answered"})
    BY DEF ExecuteCompletes, ExecuteReturns
<1>1. Current(a) /\ work = "answered" /\ i \in 1..Len(subtasks) /\ a = subtasks[i].agent
    BY <1>0, BusyInTurn DEF Busy
<1>2. SamePlan
    BY <1>0, PlanIsSame DEF Statuses
<1>3. PlanTasks'
    BY <1>0, <1>2, TypeFacts DEF TaskInv, PlanTasks, SamePlan
<1>4. ChildTasks'
    BY <1>0, <1>2 DEF TaskInv, ChildTasks, SamePlan
<1>5. WorkPhase'
    BY <1>0 DEF WorkPhase
<1>6. Unsettled'
  <2>1. r \in Result /\ r.task = subtasks[i].task
    <3>1. subtasks[i] \in SubTask /\ child[a] \in ChildThread
      BY <1>1, TypeFacts
    <3>2. QED
      BY <3>1 DEF SubTask, Result, ChildThread
  <2> HIDE DEF r
  <2>2. /\ Len(results') = Len(results) + 1 /\ results'[Len(results) + 1] = r
        /\ \A j \in 1..Len(results) : results'[j] = results[j]
    BY <1>0, <2>1, TypeFacts, AppendProperties
  <2> SUFFICES ASSUME NEW b \in ChildAgents, child[b].phase # "idle",
                      NEW j \in 1..(Len(results) + 1)
               PROVE  results'[j].task # child[b].task
      BY <1>0, <2>2 DEF Unsettled
  <2>3. CASE j \in 1..Len(results)
    BY <2>2, <2>3 DEF TaskInv, Unsettled
  <2>4. CASE j = Len(results) + 1
    <3>1. SUFFICES child[b].task # subtasks[i].task
      BY <2>1, <2>2, <2>4
    <3>2. b # a
      BY <1>1 DEF TaskInv, WorkPhase
    <3>3. QED
      BY <1>1, <3>2 DEF TaskInv, ChildTasks
  <2>5. QED
    BY <2>3, <2>4, TypeFacts
<1>7. QED
    BY <1>3, <1>4, <1>5, <1>6 DEF TaskInv

\* A child that raises is closed, or paused where it was resumed.
LEMMA RaisesTasks ==
    ASSUME PlanInv, TaskInv, NEW i \in DOMAIN subtasks, NEW a \in ChildAgents, ChildRaises(i, a)
    PROVE  TaskInv'
<1>1. Busy(i, a, {"sent", "resumed"})
    BY DEF ChildRaises
<1>2. Current(a) /\ work \in {"sent", "resumed"}
    BY <1>1, BusyInTurn
<1>3. child[a].phase = "running"
    BY <1>2 DEF TaskInv, WorkPhase
<1>4. PICK phase : child' = [child EXCEPT ![a].phase = phase]
    BY DEF ChildRaises
<1>5. SameTasks /\ \A b \in ChildAgents : child'[b].phase # "idle" => child[b].phase # "idle"
    BY <1>3, <1>4, PhaseFacts
<1>6. CASE AbortRun
  <2>1. /\ subtasks' = subtasks /\ results' = results /\ plans' = plans /\ work' = "none"
        /\ awaiting_input' = awaiting_input
    BY <1>6 DEF AbortRun, state
  <2>2. QED
    BY <1>5, <2>1, PlanIsSame, KeepStep
<1>7. CASE FailPlan(i)
    BY <1>5, <1>7, ReturnsTasks DEF FailPlan, Statuses
<1>8. QED
    BY <1>6, <1>7 DEF ChildRaises

\* What the children hold is kept by every step.
LEMMA TaskStep == PlanInv /\ TaskInv /\ [Next]_vars => TaskInv'
<1> SUFFICES ASSUME PlanInv, TaskInv, [Next]_vars PROVE TaskInv'
    OBVIOUS
<1>0. work # "none" => mode = "running" /\ node = "execute"
    BY DEF PlanInv, Safe, TurnInv
<1>1. CASE UNCHANGED vars
    BY <1>1 DEF vars, state, TaskInv, PlanTasks, ChildTasks, WorkPhase, Unsettled, Current, InTurn
<1>2. CASE User \/ Fault \/ Oauth
  <2>1. ASSUME NEW r \in Requests, StartTurn(r) PROVE TaskInv'
    BY <1>0, <2>1, QuietTasks DEF StartTurn, state
  <2>2. ASSUME NEW a \in {"yes", "no", "other"}, ResumeTurn(a) PROVE TaskInv'
    BY <1>0, <2>2, QuietTasks DEF ResumeTurn, state
  <2>3. CASE StopRun \/ StopWaitingPlan
    <3>1. child' = ChildrenClosed /\ plans' = plans /\ work' = "none"
      BY <1>0, <2>3 DEF StopRun, StopWaitingPlan
    <3>2. CASE ResetStopped
      BY <3>1, <3>2, ClosedFacts, DropTasks DEF ResetStopped
    <3>3. CASE UNCHANGED <<state, tail>>
      BY <3>1, <3>3, QuietTasks DEF state
    <3>4. QED
      BY <2>3, <3>2, <3>3 DEF StopRun, StopWaitingPlan
  <2>4. CASE Disconnect
    BY <1>0, <2>4, QuietTasks DEF Disconnect, AbortRun, state
  <2>5. CASE RunError \/ OauthAbandoned
    BY <2>5, QuietTasks DEF RunError, OauthAbandoned, AbortRun, state
  <2>6. CASE OauthResumes
    BY <1>0, <2>6, QuietTasks DEF OauthResumes, state
  <2>7. QED
    BY <1>2, <2>1, <2>2, <2>3, <2>4, <2>5, <2>6 DEF User, Fault, Oauth
<1>3. CASE PlanNode
  <2>1. CASE PlanForwardsAnswer
    BY <2>1, QuietTasks DEF PlanForwardsAnswer, AtNode, state
  <2>2. CASE PlanFailureAction \/ \E k \in {"none", "reply", "cancel"} : PlanEndsTurn(k)
    <3>1. /\ subtasks' = << >> /\ results' = << >> /\ plans' = plans /\ child' = child
          /\ work' = "none"
      BY <2>2 DEF PlanFailureAction, PlanEndsTurn, RejectPlan, PlanKeeps, Planning, AtNode
    <3>2. QED
      BY <3>1, ClosedFacts, DropTasks
  <2>3. CASE PlanRetries
    BY <2>3, RetriesTasks
  <2>4. CASE PlanDrafts
    BY <2>4, DraftsTasks
  <2>5. QED
    BY <1>3, <2>1, <2>2, <2>3, <2>4 DEF PlanNode
<1>4. CASE ApprovalNode
  <2>1. CASE ApprovalAsks
    BY <2>1, QuietTasks DEF ApprovalAsks, AtNode, Interrupt, state
  <2>2. CASE ApprovalAnswered
    <3>1. plans' = plans /\ child' = child /\ work' = "none" /\ awaiting_input' = awaiting_input
      BY <2>2 DEF ApprovalAnswered, RejectPlan, AtNode
    <3>2. (subtasks' = subtasks /\ results' = results) \/ (subtasks' = << >> /\ results' = << >>)
      BY <2>2 DEF ApprovalAnswered, RejectPlan
    <3>3. QED
      BY <3>1, <3>2, ClosedFacts, QuietTasks, DropTasks
  <2>3. QED
    BY <1>4, <2>1, <2>2 DEF ApprovalNode
<1>5. CASE ExecuteFindsNothing
    BY <1>5, QuietTasks DEF ExecuteFindsNothing, AbortRun, state
<1>6. CASE ExecuteUnknownAgent
  <2>1. PICK i \in DOMAIN subtasks : FailPlan(i)
    BY <1>6 DEF ExecuteUnknownAgent
  <2>2. child' = child
    BY <1>6 DEF ExecuteUnknownAgent
  <2>3. QED
    BY <2>1, <2>2, ClosedFacts, ReturnsTasks DEF FailPlan, Statuses
<1>7. CASE ExecuteNeedsOauth2
    BY <1>7, QuietTasks DEF ExecuteNeedsOauth2, AtNode, state
<1>8. ASSUME NEW i \in DOMAIN subtasks, NEW a \in ChildAgents,
             ExecuteSends(i, a) \/ ExecuteSurfaces(i, a) \/ ExecuteResumesChild(i, a)
      PROVE  TaskInv'
  <2>1. CASE ExecuteSends(i, a)
    BY <2>1, SendsTasks
  <2>2. CASE ExecuteSurfaces(i, a)
    BY <2>2, QuietTasks DEF ExecuteSurfaces, ExecuteReady, AtNode, Interrupt, state
  <2>3. CASE ExecuteResumesChild(i, a)
    <3>1. /\ node = "execute" /\ IsNextSubtask(subtasks, i) /\ a = subtasks[i].agent
          /\ child[a].phase = "paused"
      BY <2>3 DEF ExecuteResumesChild, ExecuteReady, AtNode
    <3>2. Current(a)
      BY <3>1, NextIsInTurn DEF Current
    <3>3. work' \in {"resumed", "declined"} /\ UNCHANGED <<state, plans>>
      BY <2>3 DEF ExecuteResumesChild
    <3>4. QED
      BY <2>3, <3>1, <3>2, <3>3, WorksTasks DEF ExecuteResumesChild, state
  <2>4. QED
    BY <1>8, <2>1, <2>2, <2>3
<1>9. ASSUME NEW i \in DOMAIN subtasks, NEW a \in ChildAgents,
             \/ ExecutePausedReturns(i, a) \/ ExecuteDeclinedReturns(i, a)
             \/ ExecuteCompletes(i, a) \/ ExecuteNeedsInput(i, a) \/ ExecuteFails(i, a)
      PROVE  TaskInv'
  <2>1. CASE ExecutePausedReturns(i, a)
    BY <2>1, ClosedFacts, ReturnsTasks DEF ExecutePausedReturns, Statuses
  <2>2. CASE ExecuteDeclinedReturns(i, a)
    <3>1. SameTasks /\ \A b \in ChildAgents : child'[b].phase # "idle" => child[b].phase # "idle"
      BY <2>2, PhaseFacts DEF ExecuteDeclinedReturns
    <3>2. QED
      BY <2>2, <3>1, ReturnsTasks DEF ExecuteDeclinedReturns, CancelPlan, Statuses
  <2>3. CASE ExecuteCompletes(i, a)
    BY <2>3, CompletesTasks
  <2>4. CASE ExecuteNeedsInput(i, a)
    <3>1. work = "answered"
      BY <2>4 DEF ExecuteNeedsInput, Busy
    <3>2. QED
      BY <2>4, <3>1, ClosedFacts, ReturnsTasks DEF ExecuteNeedsInput, Statuses
  <2>5. CASE ExecuteFails(i, a)
    BY <2>5, ClosedFacts, ReturnsTasks DEF ExecuteFails, FailPlan, Statuses
  <2>6. QED
    BY <1>9, <2>1, <2>2, <2>3, <2>4, <2>5
<1>10. ASSUME NEW i \in DOMAIN subtasks, NEW a \in ChildAgents, ChildRaises(i, a)
       PROVE  TaskInv'
    BY <1>10, RaisesTasks
<1>11. ASSUME NEW i \in DOMAIN subtasks, NEW a \in ChildAgents,
              NEW phase \in {"idle", "paused"}, ChildStops(i, a, phase)
       PROVE  TaskInv'
  <2>1. Busy(i, a, {"sent", "resumed"})
    BY <1>11 DEF ChildStops
  <2>2. Current(a) /\ work \in {"sent", "resumed"}
    BY <2>1, BusyInTurn
  <2>3. child[a].phase = "running"
    BY <2>2 DEF TaskInv, WorkPhase
  <2>4. /\ child' = [child EXCEPT ![a].phase = phase] /\ UNCHANGED <<state, plans>>
        /\ work' = IF phase = "paused" THEN "paused" ELSE "answered"
    BY <1>11 DEF ChildStops
  <2>5. QED
    BY <2>2, <2>3, <2>4, WorksTasks DEF state
<1>12. CASE Reduce
    BY <1>12, ClosedFacts, DropTasks DEF Reduce, AtNode
<1>13. CASE SelectUiTools \/ Summarize
    BY <1>13, QuietTasks DEF SelectUiTools, Summarize, AtNode, state
<1>14. QED
    BY <1>1, <1>2, <1>3, <1>4, <1>5, <1>6, <1>7, <1>8, <1>9, <1>10, <1>11, <1>12, <1>13
    DEF Next, Run, ExecuteNode, ChildAgent

\* Initially no child holds a task.
LEMMA InitTasks == Init => TaskInv
<1> SUFFICES ASSUME Init PROVE TaskInv
    OBVIOUS
<1>1. /\ Len(subtasks) = 0 /\ Len(results) = 0 /\ plans = 0 /\ work = "none"
      /\ child = [a \in ChildAgents |-> [phase |-> "idle", task |-> <<0, 0>>]]
    BY DEF Init, NoTask
<1>2. QED
    BY <1>1 DEF TaskInv, PlanTasks, ChildTasks, WorkPhase, Unsettled

\* No child is sent a task that has a result.
LEMMA SettledStaySettled ==
    ASSUME PlanInv, TaskInv, [Next]_vars, NEW a \in ChildAgents, NEW j \in DOMAIN results,
           child'[a].phase = "running", child[a].phase # "running"
    PROVE  child'[a].task # results[j].task
<1>0. j \in 1..Len(results)
    BY TypeFacts
<1>1. CASE child[a].phase # "idle" /\ child'[a].task = child[a].task
    BY <1>0, <1>1 DEF TaskInv, Unsettled
<1>2. ASSUME NEW i \in DOMAIN subtasks, NEW b \in ChildAgents, ExecuteSends(i, b)
      PROVE  child'[a].task # results[j].task
    BY <1>0, <1>2, SentFacts
<1>3. ASSUME NEW i \in DOMAIN subtasks, NEW b \in ChildAgents, ExecuteResumesChild(i, b)
      PROVE  child'[a].task # results[j].task
  <2>1. child[b].phase = "paused" /\ child' = [child EXCEPT ![b].phase = "running"]
    BY <1>3 DEF ExecuteResumesChild
  <2>2. SameTasks /\ (a # b => child'[a] = child[a])
    BY <2>1, PhaseFacts
  <2>3. QED
    BY <1>1, <2>1, <2>2 DEF SameTasks
<1>4. CASE child' = child \/ child' = ChildrenClosed \/ child' = CutChildren
  <2>1. SameTasks /\ (child'[a].phase # "idle" => child[a].phase # "idle")
    BY <1>4, ClosedFacts
  <2>2. QED
    BY <1>1, <2>1 DEF SameTasks
<1>5. ASSUME NEW b \in ChildAgents, NEW phase \in {"idle", "paused"},
             child' = [child EXCEPT ![b].phase = phase]
      PROVE  FALSE
    BY <1>5, PhaseFacts
<1>6. CASE UNCHANGED vars
    BY <1>4, <1>6 DEF vars
<1>7. CASE User \/ Fault \/ Oauth
    BY <1>4, <1>7
    DEF User, Fault, Oauth, StartTurn, ResumeTurn, StopRun, StopWaitingPlan, Disconnect,
        RunError, OauthResumes, OauthAbandoned
<1>8. CASE PlanNode \/ ApprovalNode \/ Reduce \/ SelectUiTools \/ Summarize
    BY <1>4, <1>8
    DEF PlanNode, PlanForwardsAnswer, PlanFailureAction, PlanRetries, PlanDrafts, PlanEndsTurn,
        StorePlan, PlanKeeps, ApprovalNode, ApprovalAsks, Interrupt, ApprovalAnswered, Reduce,
        SelectUiTools, Summarize
<1>9. CASE ChildAgent
    BY <1>5, <1>9 DEF ChildAgent, ChildRaises, ChildStops
<1>10. CASE ExecuteNode
  <2>1. CASE ExecuteFindsNothing \/ ExecuteUnknownAgent \/ ExecuteNeedsOauth2
    BY <1>4, <2>1 DEF ExecuteFindsNothing, ExecuteUnknownAgent, ExecuteNeedsOauth2
  <2>2. ASSUME NEW i \in DOMAIN subtasks, NEW b \in ChildAgents,
               \/ ExecuteSurfaces(i, b) \/ ExecutePausedReturns(i, b) \/ ExecuteCompletes(i, b)
               \/ ExecuteNeedsInput(i, b) \/ ExecuteFails(i, b)
        PROVE  child'[a].task # results[j].task
    BY <1>4, <2>2
    DEF ExecuteSurfaces, Interrupt, ExecutePausedReturns, ExecuteCompletes, ExecuteNeedsInput,
        ExecuteFails
  <2>3. ASSUME NEW i \in DOMAIN subtasks, NEW b \in ChildAgents, ExecuteDeclinedReturns(i, b)
        PROVE  child'[a].task # results[j].task
    BY <1>5, <2>3 DEF ExecuteDeclinedReturns
  <2>4. QED
    BY <1>2, <1>3, <1>10, <2>1, <2>2, <2>3 DEF ExecuteNode
<1>11. QED
    BY <1>6, <1>7, <1>8, <1>9, <1>10 DEF Next, Run

\* A completed subtask is not run again, whatever is retried, revised, stopped
\* or lost: the children are only ever sent tasks without a result (_next_subtask_index,
\* the quick retry and the resumed children of planner/agent.py).
THEOREM NoRerun == DraftsPending /\ Spec => CompletedNotRerun
<1> DEFINE NoneRerun == \A a \in ChildAgents, i \in DOMAIN results :
               child'[a].phase = "running" /\ child[a].phase # "running"
                   => child'[a].task # results[i].task
<1>1. PlanInv /\ TaskInv /\ [Next]_vars => NoneRerun
    BY SettledStaySettled
<1>2. QED
    BY <1>1, InitTasks, TaskStep, PlanInvariant, PTL DEF Spec, CompletedNotRerun

(***************************************************************************)
(* Questions and answers reach their own subtask, while neither the        *)
(* connection nor a failing resume separates the children from the plan.   *)
(***************************************************************************)
ChildrenFollow == Faults \subseteq {"error"}

OnTask(a) == Current(a) /\ child[a].task = subtasks[InTurn].task

\* A question is that of the child of the subtask in turn, whose plan goes on.
Asking ==
    /\ awaiting_input =>
        \E a \in ChildAgents : OnTask(a) /\ subtasks[InTurn].status = "in_progress"
    /\ awaiting_input \/ node \in {"approval", "execute"} => ~cancelled

\* Only the child of the subtask in turn works, and only within execute_node.
OnlyCurrent ==
    \A a \in ChildAgents : child[a].phase # "idle" =>
        /\ OnTask(a) /\ node = "execute" /\ a \notin needs_oauth2 /\ mode # "oauth"
        /\ child[a].phase = "paused" <=> work \in {"none", "paused"}

\* execute_node waits for the task in turn.
Working == \A a \in ChildAgents : work # "none" /\ Current(a) => OnTask(a)

OwnInv == Asking /\ OnlyCurrent /\ Working /\ ResultOfOwnTask

AllIdle == \A a \in ChildAgents : child[a].phase = "idle"

\* Outside execute_node, and while the user logs in, no child works.
LEMMA IdleOutside ==
    ASSUME OwnInv, node # "execute" \/ mode = "oauth"
    PROVE  AllIdle
    BY DEF OwnInv, OnlyCurrent, AllIdle

\* Children that were idle, or were closed, are idle.
LEMMA StaysIdle ==
    ASSUME PlanInv, child' = ChildrenClosed \/ (AllIdle /\ child' = child)
    PROVE  AllIdle' /\ SameTasks
<1>1. SameTasks
    BY ClosedFacts
<1>2. ASSUME NEW a \in ChildAgents, child' = ChildrenClosed PROVE child'[a].phase = "idle"
  <2>1. child[a] \in ChildThread /\ child'[a] = [child[a] EXCEPT !.phase = "idle"]
    BY <1>2, TypeFacts DEF ChildrenClosed
  <2>2. QED
    BY <2>1 DEF ChildThread
<1>3. QED
    BY <1>1, <1>2 DEF AllIdle

\* The question in turn, where nothing it rests on changes.
LEMMA SameTurn ==
    ASSUME subtasks' = subtasks, results' = results, SameTasks
    PROVE  \A a \in ChildAgents : /\ Current(a)' <=> Current(a)
                                  /\ OnTask(a)' <=> OnTask(a)
<1> SUFFICES ASSUME NEW a \in ChildAgents
             PROVE  (Current(a)' <=> Current(a)) /\ (OnTask(a)' <=> OnTask(a))
    OBVIOUS
<1>1. InTurn' = InTurn /\ child'[a].task = child[a].task
    BY DEF InTurn, SameTasks
<1>2. Current(a)' <=> Current(a)
    BY <1>1 DEF Current
<1>3. QED
    BY <1>1, <1>2 DEF OnTask

\* A step after which no child works.
LEMMA IdleStep ==
    ASSUME OwnInv, AllIdle', SameTasks, work' = "none", results' \in {results, << >>},
           awaiting_input' => awaiting_input /\ subtasks' = subtasks /\ results' = results,
           awaiting_input' \/ node' \in {"approval", "execute"} => ~cancelled'
    PROVE  OwnInv'
<1>1. Asking'
  <2>1. ASSUME awaiting_input'
        PROVE  \E a \in ChildAgents : OnTask(a)' /\ subtasks'[InTurn'].status = "in_progress"
    <3>1. PICK a \in ChildAgents : OnTask(a) /\ subtasks[InTurn].status = "in_progress"
      BY <2>1 DEF OwnInv, Asking
    <3>2. InTurn' = InTurn /\ subtasks' = subtasks /\ OnTask(a)'
      BY <2>1, <3>1, SameTurn DEF InTurn
    <3>3. QED
      BY <3>1, <3>2
  <2>2. QED
    BY <2>1 DEF Asking
<1>2. OnlyCurrent' /\ Working'
    BY DEF AllIdle, OnlyCurrent, Working
<1>3. ResultOfOwnTask'
    BY DEF OwnInv, ResultOfOwnTask
<1>4. QED
    BY <1>1, <1>2, <1>3 DEF OwnInv

\* A step of a turn in which execute_node waits, or waits for the user.
LEMMA WaitStep ==
    ASSUME OwnInv, SameTasks, subtasks' = subtasks, results' = results, cancelled' = cancelled,
           awaiting_input' = awaiting_input, node' = node, needs_oauth2' = needs_oauth2,
           mode' # "oauth",
           work' # "none" => \A a \in ChildAgents : Current(a) => OnTask(a),
           \A a \in ChildAgents : child'[a].phase # "idle" =>
               /\ child[a].phase # "idle"
               /\ child'[a].phase = "paused" <=> work' \in {"none", "paused"}
    PROVE  OwnInv'
<1>0. \A a \in ChildAgents : (Current(a)' <=> Current(a)) /\ (OnTask(a)' <=> OnTask(a))
    BY SameTurn
<1>1. Asking'
  <2>1. InTurn' = InTurn
    BY DEF InTurn
  <2>2. QED
    BY <1>0, <2>1 DEF OwnInv, Asking
<1>2. OnlyCurrent'
    BY <1>0 DEF OwnInv, OnlyCurrent
<1>3. Working'
    BY <1>0 DEF Working
<1>4. ResultOfOwnTask'
    BY DEF OwnInv, ResultOfOwnTask
<1>5. QED
    BY <1>1, <1>2, <1>3, <1>4 DEF OwnInv

\* Beside the child of the subtask in turn, no child works.
LEMMA OthersIdle ==
    ASSUME OwnInv, NEW a, Current(a), NEW b \in ChildAgents, b # a
    PROVE  child[b].phase = "idle" /\ ~Current(b)
    BY DEF OwnInv, OnlyCurrent, OnTask, Current

\* Once the child has answered, none works.
LEMMA AnsweredIdle ==
    ASSUME TaskInv, OwnInv, work = "answered"
    PROVE  AllIdle
    BY DEF TaskInv, WorkPhase, OwnInv, OnlyCurrent, OnTask, AllIdle

\* The plan stops at the subtask in turn.
LEMMA FailsOwn ==
    ASSUME OwnInv, NEW i, FailPlan(i) \/ CancelPlan(i), AllIdle', SameTasks
    PROVE  OwnInv'
<1>1. /\ results' = results /\ ~awaiting_input' /\ work' = "none" /\ node' = "summarize"
    BY DEF FailPlan, CancelPlan, ExecuteReturns, RouteNext
<1>2. QED
    BY <1>1, IdleStep

\* The subtask in turn is completed with the answer to its own task.
LEMMA CompletesOwn ==
    ASSUME PlanInv, TaskInv, OwnInv, NEW i \in DOMAIN subtasks, NEW a \in ChildAgents,
           ExecuteCompletes(i, a)
    PROVE  OwnInv'
<1> DEFINE r == [task |-> subtasks[i].task, got |-> child[a].task]
<1>0. /\ results' = Append(results, r) /\ cancelled' = cancelled
      /\ work' = "none" /\ ~awaiting_input' /\ child' = child
      /\ Busy(i, a, {"answered"})
    BY DEF ExecuteCompletes, ExecuteReturns
<1>1. /\ Current(a) /\ work = "answered" /\ i = InTurn /\ node = "execute"
      /\ i \in 1..Len(subtasks)
    BY <1>0, BusyInTurn
<1>2. r.got = r.task
    BY <1>1 DEF OwnInv, Working, OnTask
<1>3. r \in Result
  <2>1. subtasks[i] \in SubTask /\ child[a] \in ChildThread
    BY <1>1, TypeFacts
  <2>2. QED
    BY <2>1 DEF SubTask, Result, ChildThread
<1> HIDE DEF r
<1>4. ResultOfOwnTask'
  <2>1. /\ Len(results') = Len(results) + 1 /\ results'[Len(results) + 1] = r
        /\ \A j \in 1..Len(results) : results'[j] = results[j]
        /\ results' \in Seq(Result)
    BY <1>0, <1>3, TypeFacts, AppendProperties
  <2>2. DOMAIN results' = 1..(Len(results) + 1)
    BY <2>1, LenProperties
  <2>3. ASSUME NEW j \in 1..(Len(results) + 1) PROVE results'[j].got = results'[j].task
    <3>1. CASE j \in 1..Len(results)
      BY <2>1, <3>1, TypeFacts DEF OwnInv, ResultOfOwnTask
    <3>2. CASE j = Len(results) + 1
      BY <1>2, <2>1, <3>2
    <3>3. QED
      BY <3>1, <3>2, TypeFacts
  <2>4. QED
    BY <2>2, <2>3 DEF ResultOfOwnTask
<1>5. AllIdle'
    BY <1>0, <1>1, AnsweredIdle DEF AllIdle
<1>6. ~cancelled'
    BY <1>0, <1>1 DEF OwnInv, Asking
<1>7. Asking'
    BY <1>0, <1>6 DEF Asking
<1>8. OnlyCurrent' /\ Working'
    BY <1>0, <1>5 DEF AllIdle, OnlyCurrent, Working
<1>9. QED
    BY <1>4, <1>7, <1>8 DEF OwnInv

\* The subtask in turn goes on: its child paused, or asks the user.
LEMMA GoesOnOwn ==
    ASSUME PlanInv, TaskInv, OwnInv, NEW i \in DOMAIN subtasks, NEW a \in ChildAgents,
           ExecutePausedReturns(i, a) \/ ExecuteNeedsInput(i, a)
    PROVE  OwnInv'
<1>0. /\ subtasks' = WithStatus(subtasks, i, "in_progress") /\ results' = results
      /\ cancelled' = cancelled /\ work' = "none" /\ child' = child
      /\ plans' = plans /\ needs_oauth2' = needs_oauth2 /\ mode' = mode
      /\ node' = RouteNext(subtasks', cancelled, awaiting_input')
      /\ awaiting_input' = (work = "answered")
      /\ Busy(i, a, {"paused", "answered"})
  <2>1. CASE ExecutePausedReturns(i, a)
    <3>1. ExecuteReturns(WithStatus(subtasks, i, "in_progress"), results, cancelled, FALSE, tail)
          /\ child' = child /\ Busy(i, a, {"paused"})
      BY <2>1 DEF ExecutePausedReturns
    <3>2. work = "paused" /\ awaiting_input' = FALSE
      BY <3>1 DEF Busy, ExecuteReturns
    <3>3. awaiting_input' = (work = "answered")
      BY <3>2
    <3>4. QED
      BY <3>1, <3>2, <3>3 DEF ExecuteReturns, Busy
  <2>2. CASE ExecuteNeedsInput(i, a)
    <3>1. ExecuteReturns(WithStatus(subtasks, i, "in_progress"), results, cancelled, TRUE, "ai")
          /\ child' = child /\ Busy(i, a, {"answered"})
      BY <2>2 DEF ExecuteNeedsInput
    <3>2. work = "answered" /\ awaiting_input' = TRUE
      BY <3>1 DEF Busy, ExecuteReturns
    <3>3. awaiting_input' = (work = "answered")
      BY <3>2
    <3>4. QED
      BY <3>1, <3>2, <3>3 DEF ExecuteReturns, Busy
  <2>3. QED
    BY <2>1, <2>2
<1>1. /\ Current(a) /\ work \in {"paused", "answered"} /\ i = InTurn /\ node = "execute"
      /\ i \in 1..Len(subtasks) /\ mode = "running"
    BY <1>0, BusyInTurn
<1>2. OnTask(a)
    BY <1>1 DEF OwnInv, Working
<1>3. SamePlan /\ subtasks'[i].status = "in_progress" /\ HasStatus(subtasks', {"in_progress"})
  <2>1. subtasks \in Seq(SubTask) /\ "in_progress" \in Statuses
    BY TypeFacts DEF Statuses
  <2>2. SamePlan
    BY <1>0, <2>1, PlanIsSame
  <2>3. subtasks'[i].status = "in_progress"
    BY <1>0, <1>1, <2>1, WithStatusFacts
  <2>4. HasStatus(subtasks', {"in_progress"})
    BY <1>0, <2>1, UpdatedStatuses
  <2>5. QED
    BY <2>2, <2>3, <2>4
<1>4. HasStatus(subtasks', {"in_progress", "pending"})
    BY <1>3, HasStatusMonotonic
<1>5. InTurn' = i /\ subtasks'[i].task = subtasks[i].task /\ subtasks'[i].agent = subtasks[i].agent
    BY <1>0, <1>1, <1>3 DEF InTurn, SamePlan
<1>6. OnTask(a)'
  <2>1. Len(results') < Len(subtasks') /\ subtasks'[InTurn'].agent = a
    BY <1>0, <1>1, <1>2, <1>3, <1>5 DEF Current, SamePlan
  <2>2. child'[a].task = subtasks'[InTurn'].task
    BY <1>0, <1>1, <1>2, <1>5 DEF OnTask
  <2>3. QED
    BY <2>1, <2>2 DEF OnTask, Current
<1>7. ~cancelled /\ ~cancelled'
    BY <1>0, <1>1 DEF OwnInv, Asking
<1>8. Asking'
    BY <1>3, <1>5, <1>6, <1>7 DEF Asking
<1>9. OnlyCurrent'
  <2>1. CASE work = "answered"
    BY <1>0, <2>1, AnsweredIdle DEF AllIdle, OnlyCurrent
  <2>2. CASE work = "paused"
    <3>1. ~awaiting_input'
      BY <1>0, <2>2
    <3>2. node' = "execute"
      BY <1>0, <1>4, <1>7, <3>1 DEF RouteNext
    <3>3. ASSUME NEW b \in ChildAgents, child[b].phase # "idle"
          PROVE  b = a /\ a \notin needs_oauth2 /\ child[a].phase = "paused"
      <4>1. b = a
        BY <1>1, <3>3, OthersIdle
      <4>2. QED
        BY <2>2, <3>3, <4>1 DEF OwnInv, OnlyCurrent
    <3>4. QED
      BY <1>0, <1>1, <1>6, <3>2, <3>3 DEF OnlyCurrent
  <2>3. QED
    BY <1>1, <2>1, <2>2
<1>10. Working'
    BY <1>0 DEF Working
<1>11. ResultOfOwnTask'
    BY <1>0 DEF OwnInv, ResultOfOwnTask
<1>12. QED
    BY <1>8, <1>9, <1>10, <1>11 DEF OwnInv

\* The user's reply goes to the child that asked, a task to the one it names.
LEMMA SendsOwn ==
    ASSUME PlanInv, TaskInv, OwnInv, NEW i, NEW a \in ChildAgents, ExecuteSends(i, a)
    PROVE  OwnInv'
<1>0. /\ subtasks' = subtasks /\ results' = results /\ cancelled' = cancelled
      /\ awaiting_input' = awaiting_input /\ work' = "sent" /\ node' = node /\ mode' = mode
      /\ needs_oauth2' = needs_oauth2 /\ node = "execute" /\ mode = "running"
      /\ a \notin needs_oauth2
    BY DEF ExecuteSends, ExecuteReady, AtNode, state
<1>1. /\ i = InTurn /\ Current(a) /\ child'[a].phase = "running"
      /\ child'[a].task = IF awaiting_input THEN child[a].task ELSE subtasks[i].task
      /\ \A b \in ChildAgents : b # a => child'[b] = child[b]
    BY SentFacts
<1>2. InTurn' = InTurn /\ \A b : Current(b)' <=> Current(b)
    BY <1>0 DEF InTurn, Current
<1>3. child'[a].task = subtasks[i].task
  <2>1. CASE awaiting_input
    <3>1. PICK b \in ChildAgents : OnTask(b)
      BY <2>1 DEF OwnInv, Asking
    <3>2. b = a
      BY <1>1, <3>1 DEF OnTask, Current
    <3>3. QED
      BY <1>1, <2>1, <3>1, <3>2 DEF OnTask
  <2>2. CASE ~awaiting_input
    BY <1>1, <2>2
  <2>3. QED
    BY <2>1, <2>2
<1>4. OnTask(a)'
    BY <1>0, <1>1, <1>2, <1>3 DEF OnTask
<1>5. Asking'
    BY <1>0, <1>2, <1>4 DEF OwnInv, Asking
<1>6. \A b \in ChildAgents : b # a => child'[b].phase = "idle" /\ ~Current(b)
    BY <1>1, OthersIdle
<1>7. OnlyCurrent'
    BY <1>0, <1>1, <1>4, <1>6 DEF OnlyCurrent
<1>8. Working'
    BY <1>2, <1>4, <1>6 DEF Working
<1>9. ResultOfOwnTask'
    BY <1>0 DEF OwnInv, ResultOfOwnTask
<1>10. QED
    BY <1>5, <1>7, <1>8, <1>9 DEF OwnInv

\* A child that is resumed, ends or pauses does so on the task in turn.
LEMMA WorksOwn ==
    ASSUME PlanInv, TaskInv, OwnInv, NEW i \in DOMAIN subtasks, NEW a \in ChildAgents,
           \/ ExecuteResumesChild(i, a)
           \/ \E phase \in {"idle", "paused"} : ChildStops(i, a, phase)
    PROVE  OwnInv'
<1>0. UNCHANGED <<subtasks, results, cancelled, awaiting_input, node, needs_oauth2, mode>>
    BY DEF ExecuteResumesChild, ChildStops, state
<1>1. PICK phase : /\ child' = [child EXCEPT ![a].phase = phase]
                   /\ phase = "paused" <=> work' \in {"none", "paused"}
    BY DEF ExecuteResumesChild, ChildStops
<1>2. Current(a) /\ mode = "running" /\ child[a].phase # "idle" /\ IsNextSubtask(subtasks, i)
  <2>1. CASE ExecuteResumesChild(i, a)
    <3>1. /\ mode = "running" /\ node = "execute" /\ IsNextSubtask(subtasks, i)
          /\ a = subtasks[i].agent /\ child[a].phase = "paused"
      BY <2>1 DEF ExecuteResumesChild, ExecuteReady, AtNode
    <3>2. QED
      BY <3>1, NextIsInTurn DEF Current
  <2>2. ASSUME NEW p \in {"idle", "paused"}, ChildStops(i, a, p)
        PROVE  Current(a) /\ mode = "running" /\ child[a].phase # "idle" /\ IsNextSubtask(subtasks, i)
    <3>1. Busy(i, a, {"sent", "resumed"})
      BY <2>2 DEF ChildStops
    <3>2. Current(a) /\ work \in {"sent", "resumed"} /\ mode = "running"
      BY <3>1, BusyInTurn
    <3>3. QED
      BY <3>1, <3>2 DEF TaskInv, WorkPhase, Busy
  <2>3. QED
    BY <2>1, <2>2
<1>3. /\ SameTasks /\ child'[a].phase = phase
      /\ \A b \in ChildAgents : b # a => child'[b] = child[b]
    BY <1>1, PhaseFacts
<1>4. OnTask(a)
    BY <1>2 DEF OwnInv, OnlyCurrent
<1>5. \A b \in ChildAgents : Current(b) => OnTask(b)
    BY <1>2, <1>4, OthersIdle
<1>6. ASSUME NEW b \in ChildAgents, child'[b].phase # "idle"
      PROVE  /\ child[b].phase # "idle"
             /\ child'[b].phase = "paused" <=> work' \in {"none", "paused"}
  <2>1. b = a
    BY <1>2, <1>3, <1>6, OthersIdle
  <2>2. QED
    BY <1>1, <1>2, <1>3, <2>1
<1>7. QED
    BY <1>0, <1>2, <1>3, <1>5, <1>6, WaitStep

\* A child that raises is closed.
LEMMA RaisesOwn ==
    ASSUME ChildrenFollow, PlanInv, TaskInv, OwnInv, NEW i \in DOMAIN subtasks,
           NEW a \in ChildAgents, ChildRaises(i, a)
    PROVE  OwnInv'
<1>1. child' = [child EXCEPT ![a].phase = "idle"] /\ Busy(i, a, {"sent", "resumed"})
    BY DEF ChildRaises, ChildrenFollow
<1>2. Current(a) /\ node = "execute"
    BY <1>1, BusyInTurn
<1>3. SameTasks /\ AllIdle'
  <2>1. /\ SameTasks /\ child'[a].phase = "idle"
        /\ \A b \in ChildAgents : b # a => child'[b] = child[b]
    BY <1>1, PhaseFacts
  <2>2. \A b \in ChildAgents : b # a => child[b].phase = "idle"
    BY <1>2, OthersIdle
  <2>3. QED
    BY <2>1, <2>2 DEF AllIdle
<1>4. CASE AbortRun
  <2>1. UNCHANGED <<subtasks, results, awaiting_input, cancelled>> /\ work' = "none"
    BY <1>4 DEF AbortRun, state
  <2>2. ~cancelled
    BY <1>2 DEF OwnInv, Asking
  <2>3. QED
    BY <1>3, <2>1, <2>2, IdleStep
<1>5. CASE FailPlan(i)
    BY <1>3, <1>5, FailsOwn
<1>6. QED
    BY <1>4, <1>5 DEF ChildRaises

\* Without a child that is ready, none works: no subtask is open, its agent is
\* unknown, or must log in first.
LEMMA UnreadyOwn ==
    ASSUME PlanInv, TaskInv, OwnInv,
           ExecuteFindsNothing \/ ExecuteUnknownAgent \/ ExecuteNeedsOauth2
    PROVE  OwnInv'
<1>0. node = "execute" /\ child' = child /\ ~Stopped(subtasks) /\ ~cancelled
    BY DEF ExecuteFindsNothing, ExecuteUnknownAgent, ExecuteNeedsOauth2, AtNode,
           PlanInv, Safe, TurnInv, OwnInv, Asking
<1>1. CASE ExecuteFindsNothing
  <2>1. \A a : ~Current(a)
    <3> SUFFICES ASSUME NEW a, Current(a) PROVE FALSE
        OBVIOUS
    <3>1. InTurn \in 1..Len(subtasks) /\ InTurn > Len(results)
      BY TypeFacts DEF Current, InTurn
    <3>2. subtasks[InTurn].status # "completed" /\ subtasks[InTurn].status \in Statuses
      BY <3>1, TypeFacts DEF Match, SubTask
    <3>3. subtasks[InTurn].status \in {"pending", "in_progress"}
      BY <1>0, <3>1, <3>2, TypeFacts DEF Stopped, HasStatus, Statuses
    <3>4. NextSubtasks(subtasks) # {}
      BY <3>1, <3>3, TypeFacts DEF NextSubtasks, HasStatus
    <3>5. QED
      BY <1>1, <3>4 DEF ExecuteFindsNothing
  <2>2. AllIdle
    BY <2>1 DEF OwnInv, OnlyCurrent, OnTask, AllIdle
  <2>3. UNCHANGED <<subtasks, results, awaiting_input, cancelled>> /\ work' = "none"
    BY <1>1 DEF ExecuteFindsNothing, AbortRun, state
  <2>4. QED
    BY <1>0, <2>2, <2>3, StaysIdle, IdleStep
<1>2. CASE ExecuteUnknownAgent
  <2>1. PICK i \in DOMAIN subtasks :
            IsNextSubtask(subtasks, i) /\ subtasks[i].agent \notin ChildAgents /\ FailPlan(i)
    BY <1>2 DEF ExecuteUnknownAgent
  <2>2. AllIdle
    BY <1>0, <2>1, NextIsInTurn DEF OwnInv, OnlyCurrent, OnTask, Current, AllIdle
  <2>3. QED
    BY <1>0, <2>1, <2>2, StaysIdle, FailsOwn
<1>3. CASE ExecuteNeedsOauth2
  <2>1. PICK i \in DOMAIN subtasks :
            IsNextSubtask(subtasks, i) /\ subtasks[i].agent \in needs_oauth2
    BY <1>3 DEF ExecuteNeedsOauth2
  <2>2. AllIdle
    BY <1>0, <2>1, NextIsInTurn DEF OwnInv, OnlyCurrent, OnTask, Current, AllIdle
  <2>3. UNCHANGED <<subtasks, results, awaiting_input, cancelled>> /\ work' = "none"
    BY <1>3 DEF ExecuteNeedsOauth2, AtNode, state
  <2>4. QED
    BY <1>0, <2>2, <2>3, StaysIdle, IdleStep
<1>4. QED
    BY <1>1, <1>2, <1>3

\* Questions and answers stay with their own subtask in every step.
LEMMA OwnStep == ChildrenFollow /\ PlanInv /\ TaskInv /\ OwnInv /\ [Next]_vars => OwnInv'
<1> SUFFICES ASSUME ChildrenFollow, PlanInv, TaskInv, OwnInv, [Next]_vars PROVE OwnInv'
    OBVIOUS
<1>0. /\ work # "none" => mode = "running" /\ node = "execute"
      /\ mode = "idle" => node = "end"
      /\ node = "approval" \/ node = "reduce" => ~awaiting_input
      /\ awaiting_input \/ node \in {"approval", "execute"} => ~cancelled
    BY DEF PlanInv, Safe, TurnInv, OwnInv, Asking
<1>1. CASE UNCHANGED vars
    BY <1>1 DEF vars, state, OwnInv, Asking, OnlyCurrent, Working, ResultOfOwnTask, OnTask, Current, InTurn
<1>2. CASE User \/ Fault \/ Oauth
  <2>1. ASSUME NEW r \in Requests, StartTurn(r) PROVE OwnInv'
    <3>1. /\ UNCHANGED <<subtasks, results, awaiting_input, cancelled, child>>
          /\ work' = "none" /\ node' = "plan" /\ node # "execute"
      BY <1>0, <2>1 DEF StartTurn, state
    <3>2. QED
      BY <1>0, <3>1, IdleOutside, StaysIdle, IdleStep
  <2>2. ASSUME NEW a \in {"yes", "no", "other"}, ResumeTurn(a) PROVE OwnInv'
    <3>1. /\ UNCHANGED <<subtasks, results, awaiting_input, cancelled, child, node, needs_oauth2, work>>
          /\ work = "none" /\ mode' = "running"
      BY <1>0, <2>2 DEF ResumeTurn, state
    <3>2. SameTasks
      BY <3>1 DEF SameTasks
    <3>3. \A b \in ChildAgents : child[b].phase # "idle" =>
              child[b].phase = "paused" <=> work \in {"none", "paused"}
      BY DEF OwnInv, OnlyCurrent
    <3>4. QED
      BY <3>1, <3>2, <3>3, WaitStep
  <2>3. CASE StopRun \/ StopWaitingPlan
    <3>1. child' = ChildrenClosed /\ work' = "none" /\ node' = "end"
      BY <1>0, <2>3 DEF StopRun, StopWaitingPlan
    <3>2. CASE ResetStopped
      BY <3>1, <3>2, StaysIdle, IdleStep DEF ResetStopped
    <3>3. CASE UNCHANGED <<state, tail>>
      BY <1>0, <3>1, <3>3, StaysIdle, IdleStep DEF state
    <3>4. QED
      BY <2>3, <3>2, <3>3 DEF StopRun, StopWaitingPlan
  <2>4. CASE Disconnect
    BY <2>4 DEF Disconnect, ChildrenFollow
  <2>5. CASE RunError \/ OauthAbandoned
    <3>1. /\ UNCHANGED <<subtasks, results, awaiting_input, cancelled, child>>
          /\ work' = "none" /\ node' \in {node, "end"} /\ (node # "execute" \/ mode = "oauth")
      BY <2>5 DEF RunError, OauthAbandoned, AbortRun, state
    <3>2. QED
      BY <1>0, <3>1, IdleOutside, StaysIdle, IdleStep
  <2>6. CASE OauthResumes
    <3>1. /\ UNCHANGED <<subtasks, results, awaiting_input, cancelled, child, node>>
          /\ work' = "none" /\ mode = "oauth"
      BY <1>0, <2>6 DEF OauthResumes, state
    <3>2. QED
      BY <1>0, <3>1, IdleOutside, StaysIdle, IdleStep
  <2>7. QED
    BY <1>2, <2>1, <2>2, <2>3, <2>4, <2>5, <2>6 DEF User, Fault, Oauth
<1>3. CASE PlanNode
  <2>0. /\ node = "plan" /\ work' = "none" /\ child' = child /\ AllIdle' /\ SameTasks
    <3>1. node = "plan" /\ work' = "none" /\ child' = child
      BY <1>3 DEF PlanNode, PlanForwardsAnswer, PlanFailureAction, PlanRetries, PlanDrafts,
                  PlanEndsTurn, StorePlan, PlanKeeps, Planning, AtNode
    <3>2. QED
      BY <3>1, IdleOutside, StaysIdle
  <2>1. CASE PlanForwardsAnswer
    <3>1. UNCHANGED <<subtasks, results, awaiting_input, cancelled>> /\ awaiting_input
      BY <2>1 DEF PlanForwardsAnswer, AnswersQuestion, state
    <3>2. QED
      BY <1>0, <2>0, <3>1, IdleStep
  <2>2. CASE PlanFailureAction \/ \E k \in {"none", "reply", "cancel"} : PlanEndsTurn(k)
    <3>1. /\ results' = << >> /\ awaiting_input' = awaiting_input
          /\ node' = "summarize" /\ ~AnswersQuestion
      BY <2>2 DEF PlanFailureAction, PlanEndsTurn, RejectPlan, RouteAfterPlan, Planning
    <3>2. ~awaiting_input'
      BY <3>1, NothingAsked
    <3>3. QED
      BY <2>0, <3>1, <3>2, IdleStep
  <2>3. CASE PlanRetries \/ PlanDrafts
    <3>1. /\ results' \in {results, << >>} /\ awaiting_input' = awaiting_input
          /\ cancelled' = FALSE /\ ~AnswersQuestion
      BY <2>3 DEF PlanRetries, PlanDrafts, StorePlan, Planning
    <3>2. ~awaiting_input'
      BY <3>1, NothingAsked
    <3>3. QED
      BY <2>0, <3>1, <3>2, IdleStep
  <2>4. QED
    BY <1>3, <2>1, <2>2, <2>3 DEF PlanNode
<1>4. CASE ApprovalNode
  <2>1. CASE ApprovalAsks
    <3>1. /\ UNCHANGED <<subtasks, results, awaiting_input, cancelled, child, node>>
          /\ work' = "none" /\ node = "approval"
      BY <2>1 DEF ApprovalAsks, AtNode, Interrupt, state
    <3>2. QED
      BY <1>0, <3>1, IdleOutside, StaysIdle, IdleStep
  <2>2. CASE ApprovalAnswered
    <3>1. /\ node = "approval" /\ work' = "none" /\ child' = child
          /\ awaiting_input' = awaiting_input /\ results' \in {results, << >>}
          /\ node' = RouteAfterApproval(cancelled', feedback')
      BY <2>2 DEF ApprovalAnswered, RejectPlan, AtNode
    <3>2. ~awaiting_input' /\ AllIdle' /\ SameTasks
      BY <1>0, <3>1, IdleOutside, StaysIdle
    <3>3. node' \in {"approval", "execute"} => ~cancelled'
      BY <3>1 DEF RouteAfterApproval
    <3>4. QED
      BY <3>1, <3>2, <3>3, IdleStep
  <2>3. QED
    BY <1>4, <2>1, <2>2 DEF ApprovalNode
<1>5. CASE ExecuteFindsNothing \/ ExecuteUnknownAgent \/ ExecuteNeedsOauth2
    BY <1>5, UnreadyOwn
<1>6. ASSUME NEW i \in DOMAIN subtasks, NEW a \in ChildAgents,
             \/ ExecuteSends(i, a) \/ ExecuteSurfaces(i, a) \/ ExecuteResumesChild(i, a)
      PROVE  OwnInv'
  <2>1. CASE ExecuteSends(i, a)
    BY <2>1, SendsOwn
  <2>2. CASE ExecuteSurfaces(i, a)
    <3>1. /\ UNCHANGED <<subtasks, results, awaiting_input, cancelled, child, node, needs_oauth2>>
          /\ work = "none" /\ work' = "none" /\ mode' = "interrupted"
      BY <2>2 DEF ExecuteSurfaces, ExecuteReady, AtNode, Interrupt, state
    <3>2. SameTasks
      BY <3>1 DEF SameTasks
    <3>3. \A b \in ChildAgents : child[b].phase # "idle" =>
              child[b].phase = "paused" <=> work \in {"none", "paused"}
      BY DEF OwnInv, OnlyCurrent
    <3>4. QED
      BY <3>1, <3>2, <3>3, WaitStep
  <2>3. CASE ExecuteResumesChild(i, a)
    BY <2>3, WorksOwn
  <2>4. QED
    BY <1>6, <2>1, <2>2, <2>3
<1>7. ASSUME NEW i \in DOMAIN subtasks, NEW a \in ChildAgents, ExecuteDeclinedReturns(i, a)
      PROVE  OwnInv'
  <2>1. /\ child' = [child EXCEPT ![a].phase = "idle"] /\ Busy(i, a, {"declined"})
        /\ CancelPlan(i)
    BY <1>7 DEF ExecuteDeclinedReturns
  <2>2. Current(a)
    BY <2>1, BusyInTurn
  <2>3. /\ SameTasks /\ child'[a].phase = "idle"
        /\ \A b \in ChildAgents : b # a => child'[b] = child[b]
    BY <2>1, PhaseFacts
  <2>4. \A b \in ChildAgents : b # a => child[b].phase = "idle"
    BY <2>2, OthersIdle
  <2>5. AllIdle'
    BY <2>3, <2>4 DEF AllIdle
  <2>6. QED
    BY <2>1, <2>3, <2>5, FailsOwn
<1>8. ASSUME NEW i \in DOMAIN subtasks, NEW a \in ChildAgents, ExecuteFails(i, a)
      PROVE  OwnInv'
  <2>1. child' = child /\ work = "answered" /\ FailPlan(i)
    BY <1>8 DEF ExecuteFails, Busy
  <2>2. AllIdle' /\ SameTasks
    BY <2>1, AnsweredIdle, StaysIdle
  <2>3. QED
    BY <2>1, <2>2, FailsOwn
<1>9. ASSUME NEW i \in DOMAIN subtasks, NEW a \in ChildAgents,
             \/ ExecutePausedReturns(i, a) \/ ExecuteCompletes(i, a) \/ ExecuteNeedsInput(i, a)
      PROVE  OwnInv'
    BY <1>9, GoesOnOwn, CompletesOwn
<1>10. CASE ChildAgent
    BY <1>10, WorksOwn, RaisesOwn DEF ChildAgent
<1>11. CASE Reduce \/ SelectUiTools \/ Summarize
  <2>1. /\ node \notin {"execute", "approval"} /\ child' = child /\ work' = "none"
        /\ node' \in {"ui_tools", "summarize", "end"}
        /\ awaiting_input' = awaiting_input /\ cancelled' = cancelled
        /\ \/ subtasks' = subtasks /\ results' = results
           \/ results' = << >> /\ node = "reduce"
    BY <1>11 DEF Reduce, SelectUiTools, Summarize, AtNode, state
  <2>2. QED
    BY <1>0, <2>1, IdleOutside, StaysIdle, IdleStep
<1>12. QED
    BY <1>1, <1>2, <1>3, <1>4, <1>5, <1>6, <1>7, <1>8, <1>9, <1>10, <1>11
    DEF Next, Run, ExecuteNode

\* Initially nothing was asked.
LEMMA InitOwn == Init => OwnInv
    BY DEF Init, OwnInv, Asking, OnlyCurrent, Working, ResultOfOwnTask

\* The four invariants together.
LEMMA OwnInvariant == DraftsPending /\ ChildrenFollow /\ Spec => [](PlanInv /\ TaskInv /\ OwnInv)
<1>1. ChildrenFollow /\ [Next]_vars => ChildrenFollow'
    BY DEF ChildrenFollow
<1>2. QED
    BY <1>1, InitTasks, TaskStep, InitOwn, OwnStep, PlanInvariant, PTL DEF Spec

\* The user's answer to a question reaches the child that asked it: the subtask
\* in progress is still its own (execute_node forwards the message to it).
THEOREM QuestionsReachAskers == DraftsPending /\ ChildrenFollow /\ Spec => []QuestionReachesAsker
<1>1. PlanInv /\ OwnInv => QuestionReachesAsker
  <2> SUFFICES ASSUME PlanInv, OwnInv, awaiting_input
               PROVE  /\ ~cancelled
                      /\ \E i \in DOMAIN subtasks :
                            /\ subtasks[i].status = "in_progress"
                            /\ subtasks[i].agent \in ChildAgents
                            /\ child[subtasks[i].agent].task = subtasks[i].task
      BY DEF QuestionReachesAsker
  <2>1. PICK a \in ChildAgents : OnTask(a) /\ subtasks[InTurn].status = "in_progress"
    BY DEF OwnInv, Asking
  <2>2. InTurn \in DOMAIN subtasks
    BY <2>1, TypeFacts DEF OnTask, Current, InTurn
  <2>3. subtasks[InTurn].agent = a /\ child[a].task = subtasks[InTurn].task
    BY <2>1 DEF OnTask, Current
  <2>4. QED
    BY <2>1, <2>2, <2>3 DEF OwnInv, Asking
<1>2. QED
    BY <1>1, OwnInvariant, PTL

\* Every result filed under a subtask answers the message of that subtask.
THEOREM ResultsAnswerOwnTask == DraftsPending /\ ChildrenFollow /\ Spec => []ResultOfOwnTask
<1>1. OwnInv => ResultOfOwnTask
    BY DEF OwnInv
<1>2. QED
    BY <1>1, OwnInvariant, PTL
=============================================================================
