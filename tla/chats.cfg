\* A chat of two turns and four checkpoints, two requests at a time, and a restart at
\* any point.
SPECIFICATION Spec
CONSTANTS
    c1 = c1
    r1 = r1
    r2 = r2
    n1 = n1
    NoName = NoName
    NoChat = NoChat
    ChatIds <- OneChat
    Requests <- TwoRequests
    Names <- OneName
    MaxTurns = 2
    MaxCheckpoints = 4
SYMMETRY Symmetry
INVARIANTS TypeOK ListedIsFound DeletedIsNotShown
PROPERTIES ShownOnlyGrows DeleteAllDeletesAll
