\* Lost connections, LLM errors, OAuth2 and unknown agents.
SPECIFICATION Spec
CONSTANTS
    a1 = a1
    a2 = a2
    ghost = ghost
    AgentNames <- AgentsAndGhost
    ChildAgents <- OneAgent
    OAuthAgents <- OneAgent
    PlanApprovalEnabled = TRUE
    PlanStatuses = {"pending"}
    Faults = {"disconnect", "error", "stuck_resume"}
    MaxSubtasks = 2
    MaxPlans = 2
    MaxFeedback = 1
    RecommendAfter = 2
INVARIANTS ResultsMatchPlan ApprovedBeforeRun ReduceCoversPlan TurnInv
PROPERTIES CompletedNotRerun KeepsContract
