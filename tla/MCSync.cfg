CONSTANTS
    Null = Null
    MeetingTicket = Null
    Events = {}
    Worklogs <- MCWorklogs
    Daemon = D
    MaxId = 2
    Minutes = {10, 40}
    Hours = {90}
    Tickets = {K}
    Texts = {X, Y}
    AproTickets = {K}
    Syncers = {D}
    Tolerance = 30
    MaxWorklogs = 2
    Changes = {"resize", "reword", "text", "hours"}
    MaxChanges = 2
    MaxRuns = 3
SPECIFICATION MCSpec
INVARIANTS TypeOK SettledLineIsExact
CHECK_DEADLOCK FALSE
