\* Plans of up to two subtasks over two child agents, with approval.
SPECIFICATION FairSpec
CONSTANTS
    a1 = a1
    a2 = a2
    ghost = ghost
    AgentNames <- TwoAgents
    ChildAgents <- TwoAgents
    OAuthAgents = {}
    PlanApprovalEnabled = TRUE
    PlanStatuses = {"pending", "completed"}
    Faults = {}
    MaxSubtasks = 2
    MaxPlans = 2
    MaxFeedback = 1
    RecommendAfter = 2
INVARIANTS TypeOK QuestionReachesAsker ResultOfOwnTask
PROPERTIES StopEndsPlan TurnsEnd
