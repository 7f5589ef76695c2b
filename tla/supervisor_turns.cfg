\* Two children, one behind OAuth2, with every fault; the child asks for at most
\* one confirmation in a tool call.
SPECIFICATION FairSpec
CONSTANTS
    c1 = c1
    c2 = c2
    Children <- TwoChildren
    OAuthAgents <- OneChild
    Faults = {"disconnect", "child_error", "stuck_resume", "replan", "reload"}
    AsksPerCall = 1
    MaxOps = 3
    RecursionLimit = 4
    RecommendAfter = 2
INVARIANTS TypeOK
PROPERTIES RunsOnLastAnswer ConfirmationEndsWithCall DeclineEndsTurn DanglingCallsKnown RunsEnd
