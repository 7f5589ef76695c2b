\* The connection is lost after a child paused and before the planner stored it.
SPECIFICATION Spec
CONSTANTS
    a1 = a1
    a2 = a2
    ghost = ghost
    AgentNames <- OneAgent
    ChildAgents <- OneAgent
    OAuthAgents <- NoAgents
    PlanApprovalEnabled = TRUE
    PlanStatuses = {"pending"}
    Faults = {"disconnect"}
    MaxSubtasks = 2
    MaxPlans = 2
    MaxFeedback = 1
    RecommendAfter = 2
INVARIANTS ResultOfOwnTask

