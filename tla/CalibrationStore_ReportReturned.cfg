SPECIFICATION FairSpec
CONSTANTS
    Reporters = {r1}
    Senders = {s1}
    Ids = {p1}
    Confidences = {10}
    MaxSteps = 2
PROPERTY ReportReturned
CHECK_DEADLOCK FALSE
