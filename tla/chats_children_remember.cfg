\* A chat is deleted, with what its children remember of it.
SPECIFICATION Spec
CONSTANTS
    c1 = c1
    r1 = r1
    r2 = r2
    n1 = n1
    NoName = NoName
    NoChat = NoChat
    ChatIds <- OneChat
    Requests <- TwoRequests
    Names <- OneName
    MaxTurns = 2
    MaxCheckpoints = 4
SYMMETRY Symmetry
INVARIANT ChildrenForgetDeleted
