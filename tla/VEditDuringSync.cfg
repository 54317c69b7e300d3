CONSTANTS
    Null = Null
    MeetingTicket = Null
    Events = {}
    Worklogs <- MCWorklogs
    Daemon = D
    MaxId = 1
    Minutes = {40, 10}
    Hours = {90}
    Tickets = {K}
    Texts = {X}
    AproTickets = {}
    Syncers = {D, C}
    Tolerance = 30
    MaxWorklogs = 2
    Changes = {"resize"}
    MaxChanges = 1
    MaxRuns = 1
SPECIFICATION MCSpec
INVARIANT SettledLineIsExact
CHECK_DEADLOCK FALSE
