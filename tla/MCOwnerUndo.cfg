CONSTANTS
    Null = Null
    MeetingTicket = TM
    Texts = {X}
    Worklogs = {W1, W2}
    Build <- InferBuild
    HandStarts = {30}
    Minutes = {6}
    MaxMinutes = 60
    MaxSteps = 5
    UndoDepth = 2
    MaxId = 4
    Tickets = {T1, TM}
    Events <- OneBlock
    Days <- OneDay
    Writers = {"owner", "hand", "export"}
SPECIFICATION MCSpec
PROPERTIES UndoWalksBack SplitAndMergeMoveTime UndoLinksOnce
CHECK_DEADLOCK FALSE
