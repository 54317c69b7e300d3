CONSTANTS
    Null = Null
    MeetingTicket = Null
    Events = {}
    Worklogs <- MCWorklogs
    Daemon = D
    MaxId = 2
    Minutes = {10, 40}
    Hours = {30, 60}
    Tickets = {K,J}
    Texts = {X}
    AproTickets = {}
    Syncers = {D}
    Tolerance = 30
    MaxWorklogs = 3
    Changes = {"assign", "personal", "hand", "delete"}
    MaxChanges = 2
    MaxRuns = 2
SPECIFICATION MCSpec
PROPERTIES SyncKeepsIds HandEntriesUntouched
CHECK_DEADLOCK FALSE
