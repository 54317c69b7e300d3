CONSTANTS
    Null = Null
    None = None
    Updaters = {p, q}
    LastVersion = 3
    Patches <- MCPatches
    Quirky = {2}
    MaxStarts = 2
    Requests = {r1, r2}
    RESTART_LIMIT = 1
    RESTART_WINDOW = 2
    Daemon = Daemon
    Terminals = {t}
    Slots <- MCSlots
    Events <- MCEvents
    LastHorizon = 2
    MaxCommands = 3
    MaxFailures = 1
    Absent = Absent
    LastBlock = 2
    Keys = {kA, kM}
    MeetingKey = kM
    Meetings = {2}
    Near <- MCNear
    Batches = {bt}
    Singles = {sg}
    MaxEdits = 2
SPECIFICATION MCSpec
INVARIANTS TypeOK WholeProgramsOnly NeverLeftBroken DaemonRunsInstalled NeverStuck OneHelper RestartsAreRationed
PROPERTIES ImplementsSlot CrashIsAnswered EvidenceOutlivesEvents CompressionIsNotUndone PruneIsDone OwnerEditsSurvive
CHECK_DEADLOCK FALSE
