SPECIFICATION FairSpec
CONSTANTS
    Reporters = {r1, r2}
    Senders = {s1, s2}
    Ids = {p1, p2}
    Confidences <- SentConfidences
    MaxSteps = 2
INVARIANTS
    ReportIsOneMoment
    ScoresAgree
PROPERTY HangsOnlyByReentry
CHECK_DEADLOCK FALSE
