CONSTANTS
    Absent = Absent
    Messages <- MCMessages
    Events <- MCEvents
    States <- MCStates
    Ages = {0, 24, 48, 72}
    Hours = {2, 20, 100}
    Placeholders = {"unknown", "unassigned", "team"}
    Queues <- MCQueues
    MaxInbox = 2
    MaxCalendar = 1
    MaxWorkflow = 1
SPECIFICATION EvidenceSpec
CHECK_DEADLOCK FALSE
INVARIANTS
    ClientAsksStandOut
PROPERTIES
    PressureNeverLowers
