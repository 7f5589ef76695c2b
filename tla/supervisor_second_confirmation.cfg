\* A child that asks twice in one call.
SPECIFICATION Spec
CONSTANTS
    c1 = c1
    c2 = c2
    Children <- OneChild
    OAuthAgents <- NoChild
    Faults = {}
    AsksPerCall = 2
    MaxOps = 2
    RecursionLimit = 4
    RecommendAfter = 2
INVARIANTS RunsOnlyGranted
