CONSTANTS
    Null = Null
    Tickets = {A}
    LineDays = {1}
    Lines <- MCLines
    Daemon = Daemon
    Terminals = {T}
    DayOf <- MCDayOf
    LastDay = 2
    MaxLost = 1
    OwnTexts = {good, bad}
    Unsafe = {bad}
    Jobs = {j}
    MaxVersion = 1
    Changes = {"edit", "toggle", "hand", "sync", "confirm", "crash"}
    MaxChanges = 3
SPECIFICATION MCFairSpec
INVARIANTS TypeOK CheckFitsText StaleTextIsPending
PROPERTIES NoSecondWorklog HandTextSurvives ImplementsReview PlannedLinesEnd OneRunADay
CHECK_DEADLOCK FALSE
