\* Four messages of any kind to a planner with a child behind OAuth2, or to such a child
\* alone, and every fault.
SPECIFICATION FairSpec
CONSTANTS
    Agents = {"planner", "single"}
    UsesOAuth2 = TRUE
    Faults = {"disconnect", "error", "reload", "malformed"}
    MaxMessages = 4
CHECK_DEADLOCK FALSE
INVARIANTS TypeOK Accounted StoppedIsRemembered
PROPERTIES StoppedTurnIsClosed DanglingCallsKnown IsOneQueue MessageEndsRun
