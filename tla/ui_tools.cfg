\* Three tools and one name that is not offered, limits of one, two, the default
\* and none, and up to three calls with inputs valid for some of the tools.
SPECIFICATION Spec
CONSTANTS
    table = table
    selector = selector
    link = link
    unknown = unknown
    null = null
    empty = empty
    pod1 = pod1
    pod2 = pod2
    option1 = option1
    name1 = name1
    wide = wide
    Names <- MCNames
    Selectors <- MCSelectors
    Values <- MCValues
    Null = null
    Empty = empty
    Normal <- MCNormal
    Placeholders <- MCPlaceholders
    ConfigMaps <- MCConfigMaps
    Inputs <- MCInputs
    NotAnInput = NotAnInput
    NoLimit = NoLimit
    Unset = Unset
    DefaultMax = 2
    MaxCalls = 3
INVARIANTS TypeOK SelectsFirstValid
