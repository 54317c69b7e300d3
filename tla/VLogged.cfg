CONSTANTS
    Null = Null
    MeetingTicket = TM
    Texts = {X}
    Worklogs = {W1, W2}
    Build <- InferBuild
    HandStarts = {30}
    Minutes = {6}
    MaxMinutes = 60
    MaxSteps = 4
    UndoDepth = 2
    MaxId = 9
    Tickets = {T1,TM}
    Events <- OneBlock
    Days <- OneDay
    Writers = {"hand", "estimate", "rebuild"}
SPECIFICATION MCSpec
PROPERTY LoggedTimeStays
CHECK_DEADLOCK FALSE
