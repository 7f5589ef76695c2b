\* A built-in agent, with OAuth2 or without an authentication type when the administrator
\* makes it so, which a session loads and the controller handles while specs and secrets
\* are edited and the program restarts, maybe in its next version.
SPECIFICATION FairSpec
CONSTANTS
    s1 = s1
    d1 = d1
    login1 = login1
    untyped = untyped
    NoSpec = NoSpec
    Defaults = {d1}
    Customs = {}
    OwnSpecs = {login1, untyped}
    OAuthSpecs = {login1}
    UntypedSpecs = {untyped}
    Sessions = {s1}
    MaxRetries = 1
    MaxVersion = 2
    MaxEdits = 2
    MaxRestarts = 1
INVARIANTS TypeOK RegisteredWhenDone
PROPERTIES LoadLeavesDefaults OwnIsKept HandlersEnd
