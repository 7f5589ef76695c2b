\* Two tabs of one browser and one of another log in; cleanup and restarts at
\* any moment.
SPECIFICATION Spec
CONSTANTS
    b1 = b1
    b2 = b2
    t1 = t1
    t2 = t2
    t3 = t3
    g1 = g1
    g2 = g2
    Browsers <- TwoBrowsers
    Tabs <- ThreeTabs
    BrowserOf <- BrowserOfTab
    Agents <- TwoAgents
    MaxFaults = 1
    TTL = 0
    Period = 1
    MaxLogins = 2
    MaxGrants = 2
CHECK_DEADLOCK FALSE
SYMMETRY Symmetry
INVARIANTS TypeOK TokenOfOwner TakenOnce EntriesAreFresh
