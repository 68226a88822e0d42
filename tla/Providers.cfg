CONSTANTS
    MaxEarly = 1
    MaxCalls = 2
    MaxGen = 3
    MaxVersion = 1
    MaxPipe = 1
    MaxCloses = 1
    Handles = {a, t}
    Tasks = {t}
    Nobody = nobody
    MaxStops = 2
    Calls = {c}
    None = none
    MaxWild = 1
    MaxNotices = 1
    MaxIssued = 1
    MaxRelayWild = 1
    MaxRecords = 8
    CanCrash = TRUE
    Contacts = {c1, c2}
    Vacant = vacant
    ToolBudget = 2
    TurnLimit = 2
SPECIFICATION ProvidersSafety
INVARIANTS SignedInIsCurrent LoginsTracked ReleaseMeansGone LateAnswersKnown ProcessCustody ClosedMeansGone HonestNotAccused ProvenStopIsQuiet CompletionIsWhole HonestRoundTrip CompletedIsWhole JournalIsEvidence AccountCoversRun DiagnosticKeepsCustody
CHECK_DEADLOCK FALSE
