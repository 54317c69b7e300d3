CONSTANTS
    Null = Null
    MeetingTicket = TM
    Texts = {X}
    Worklogs = {W1, W2}
    Build <- InferBuild
    HandStarts = {30}
    Minutes = {6}
    MaxMinutes = 60
    MaxSteps = 4
    UndoDepth = 2
    MaxId = 8
    Tickets = {TM}
    Events <- OneBlock
    Days <- OneDay
    Writers = {"owner", "rebuild"}
SPECIFICATION MCSpec
PROPERTY UndoLinksOnce
CHECK_DEADLOCK FALSE
