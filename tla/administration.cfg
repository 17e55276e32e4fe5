SPECIFICATION Spec
CONSTANTS
    rowA = rowA
    rowB = rowB
    rowC = rowC
    x1 = x1
    x2 = x2
    s1 = s1
    s2 = s2
    Admins = {rowA}
    Roles = {1, 2}
    Permissions = {1}
    StartRoles <- MCStartRoles
    StartAbilities <- MCStartAbilities
    Workers = {s1, s2}
    MaxEvents = 3
    Accounts = {x1, x2}
    Clients = {s1, s2}
    MaxIds = 4
    Kinds = {"branch", "status", "cause", "phone", "problem", "region", "os"}
    Items = {rowA, rowB, rowC}
    Starts <- MCStarts
    Sorts = {0, 3}
    Sessions = {s1, s2}
    MaxRequests = 2
    Entities = {rowA}
    Values = {x1, x2}
    Linkable = {rowB, rowC}
    NoValue = NoValue
    Writers = {s1, s2}
    MaxWrites = 3
    Facts = {rowA}
    NoFact = NoFact
    EventIds = {1, 2, 3}
    Recorders = {s1, s2}
    LastMoment = 1
    Carried = {rowA}
    MaxStatus = 6
    StatusStarts <- MCStatusStarts
    MaxScripts = 2
    MaxEdits = 1
    RoleTypes <- MCRoleTypes
    RoleRows = {1, 2, 3, 4}
    OwnId <- MCOwnId
    RoleStarts <- MCRoleStarts
    MaxChanges = 3
SYMMETRY Symmetry
INVARIANTS
    TypeOK
    AnswersTrue
    LoggedOutStaysOut
    PlacesDistinct
    RedisTellsTheTruth
    RecordsTrue
PROPERTIES
    BackOnlyByOldRequest
CHECK_DEADLOCK FALSE
