CONSTANTS
    Null = Null
    MeetingTicket = TM
    Texts = {X}
    Worklogs = {W1, W2}
    Build <- InferBuild
    HandStarts = {30}
    Minutes = {65}
    MaxMinutes = 150
    MaxSteps = 4
    UndoDepth = 2
    MaxId = 8
    Tickets = {T1, TM}
    Events <- AllEvents
    Days <- ThreeDays
    Writers = {"owner", "hand", "collect", "rebuild", "estimate", "sync", "export"}
SPECIFICATION MCSpec
SYMMETRY Symmetry
INVARIANTS TypeOK RowsAreGood
PROPERTIES EditsKeepWorklogs EditsMarkSentRows UndoKeepsMarkers FusedTicketsSurvive RebuildIsStable RebuildInheritsOnce
CHECK_DEADLOCK FALSE
