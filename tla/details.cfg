SPECIFICATION Spec
CONSTANTS
    rowA = rowA
    rowB = rowB
    rowC = rowC
    pointP = pointP
    pointQ = pointQ
    pointR = pointR
    partK = partK
    s1 = s1
    s2 = s2
    t1 = t1
    t2 = t2
    Phones = {rowA, rowB, rowC}
    Problems = {pointP, pointQ, pointR}
    Parts = {partK}
    NoPhone = NoPhone
    NoProblem = NoProblem
    StartPhones <- MCStartPhones
    StartProblems <- MCStartProblems
    StartAssigned <- MCStartAssigned
    Types = {"initial"}
    Sessions = {s1, s2}
    MaxRequests = 3
    Orders = {t1, t2}
    Devices = {rowA}
    Requests = {s1, s2}
    Targets = {"Completed"}
    Births = {"Active"}
    Overrides = {"Retired"}
    NoDevice = NoPhone
    MaxCalls = 4
    Numbers = {t1, t2}
    NoNumber = NoNumber
    Customers = {1, 2}
    Calls = {1, 2}
    Handlers = {s1, s2}
    MaxVisits = 3
    Routes = {"pickup"}
    Couriers = {t1, t2}
    Notes = {partK}
    Unset = Unset
    Admins = {t1, t2}
    Faults = {pointP, pointQ}
    Updaters = {s1, s2}
    MaxUpdates = 3
    Statuses = {t1, t2}
    RowIds = {1, 2, 3}
    OldRows = {{2}, {1, 3}, {1, 2, 3}}
    Editors = {s1, s2}
    BatchSize = 2
    LastTime = 1
    MaxChanges = 2
    NoStatus = NoStatus
    Nobody = Nobody
    PaperIds = {1, 2, 3}
    Clerks = {s1, s2}
    MaxPapers = 4
    Texts = {t1, t2}
    NoText = NoText
    Bumps = {2}
    Authors = {s1, s2}
    MaxDrafts = 3
    Home = home
    Sites = {rowB}
    Visible = {home, rowB}
    Tickets = {rowA}
    Searches = {"no", "text", "short", "number", "digits", "phone", "mixed"}
    Likes <- MCLikes
    Viewers = {partK}
    Movers = {s1, s2}
    MaxTouches = 2
    Crew = {t1, t2}
    Tabs = {s1, s2}
    OrderParts = {partK}
    Events = {1}
    MaxMoves = 1
    NoTab = NoTab
    Parent = pointP
    Shops = {pointQ}
    JobStatuses = {1, 2}
    Setups <- MCSetups
    Changed <- MCChanged
    Desks = {s1, s2}
    MaxDeeds = 3
SYMMETRY Symmetry
INVARIANTS
    TypeOK
    OrderSound
    CachesTrue
    ActiveIsNewest
    DeviceFollowsRental
    OneOrderPerCaller
    LogTellsTheRows
    CommentTellsStatus
    BackfillComplete
    OutputsTrue
PROPERTIES
    ClosedStaysClosed
    RefusedOnlyWhenTaken
CHECK_DEADLOCK FALSE
