CONSTANTS
    MaxMain = 2
    MaxTag = 3
    Requested = 2
    MaxMoves = 2
    Files = {"tarball", "native"}
    Reviewed = {"tarball"}
    MaxAttempts = 3
    MaxDrafts = 2
    Writers = {"w1", "w2", "w3", "w4"}
    Home <- WriterHome
    MaxVersion = 3
    QueueLimit = 2
    Terminals = {t1, t2}
    MaxTurns = 2
    MaxLines = 3
    Conns = {c1, c2, c3}
    Admitted = {c1, c2}
    MaxConnections = 2
    Body = 1
    Sessions = {b1, b2}
    Recoverers = {p1, p2}
    Unlocked = unlocked
    Runs = {r1, r2}
    NoRun = norun
    OutputLimit = 1
    MaxFrames = 1
    Transcripts <- EditorTranscripts
    ProtectTail = 1
    CallLimit = 2
    EditorTurns = 2
    Budget = 2
    Keepers = {k1}
    Texts = {1, 2}
    Wanted = 1
    Parts = 2
    MaxFiles = 2
    MaxChanges = 2
SPECIFICATION ServicesSpec
INVARIANTS AuthorityHeld ReleasesAgree NoLostUpdate TranscriptBacksTurns NoTunnelOutlivesItsEnd BrowserUnderLock DevinKeepsItsWord PlanKeepsItsWord
PROPERTIES AcceptedIsTheFile
CHECK_DEADLOCK FALSE
