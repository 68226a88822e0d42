CONSTANTS
    MaxEarly = 0
    MaxCalls = 1
    MaxGen = 2
    MaxVersion = 0
    MaxPipe = 1
    MaxCloses = 1
    Handles = {a, t}
    Tasks = {t}
    Nobody = nobody
    MaxStops = 1
    Calls = {c}
    None = none
    MaxWild = 0
    MaxNotices = 1
    MaxIssued = 1
    MaxRelayWild = 0
    MaxRecords = 8
    CanCrash = TRUE
    Contacts = {c1}
    Vacant = vacant
    ToolBudget = 1
    TurnLimit = 1
SPECIFICATION ProvidersSpec
PROPERTIES AccountAnswers StopsAnswer SessionsEnd
CHECK_DEADLOCK FALSE
