SPECIFICATION TerminalSpec
CONSTANTS
    h1 = h1
    h2 = h2
    Host = {h1, h2}
    c1 = c1
    c2 = c2
    Client = {c1, c2}
    old = old
    new = new
    only = only
    Shows <- MCShows
    MaxId = 2
    None = None
    Torn = Torn
    a = a
    b = b
    started = started
    completed = completed
    Other = Other
    MaxSlots = 2
    MaxTaken = 1
    All = All
    Part = Part
    Empty = Empty
    Junk = Junk
    Texts = {started, Empty, Junk}
    Unset = Unset
    Global = Global
    Nothing = Nothing
    Fails = Fails
    Unmade = Unmade
    Configured <- MCConfigured
    RepoOrder <- MCRepoOrder
    TypeOrder <- MCTypeOrder
    MaxEvents = 3
    MaxLines = 2
    Margin = 1
    Name = {"a"}
    CPUs = 1
    Owner = {a, Global}
INVARIANTS
    AnswersAreTrue
    BoardIsRight
    LoadIsRight
PROPERTIES
    TrustOnFirstUse
    IdentityStable
    BestToken
SYMMETRY ClientSymmetry
CHECK_DEADLOCK FALSE
