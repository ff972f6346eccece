SPECIFICATION Spec
CONSTANTS
    A = A
    B = B
    a1 = a1
    a2 = a2
    b1 = b1
    NoName = NoName
    Repo = {A, B}
    Name = {a1, a2, b1}
    RepoOf <- MCRepoOf
    Size <- MCSize
    Count <- MCCount
SYMMETRY MCSymmetry
INVARIANTS
    TypeOK
    SlotAccounting
    NoLeakedSlot
    MapsAgree
    NoUnstoppableProcess
    NoOvershoot
PROPERTIES
    ImplementsPool
    CompletionFreesSlot
