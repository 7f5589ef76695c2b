\* A child called again after a declined operation.
SPECIFICATION Spec
CONSTANTS
    c1 = c1
    c2 = c2
    Children <- OneChild
    OAuthAgents <- NoChild
    Faults = {}
    AsksPerCall = 1
    MaxOps = 2
    RecursionLimit = 4
    RecommendAfter = 2
INVARIANTS CancelledMeansDeclined
