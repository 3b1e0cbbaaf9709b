SPECIFICATION Spec
CONSTANTS
    NodeIDs = {web, api}
    IDs = {c1, c2}
    Samples = {c1, c2, otlp}
    OTLP = otlp
    Infrastructure = {absia}
    NoName = none
    WindowArg = 1
    MinSamples = 1
    MaxRenames = 1
    MaxFailures = 1
INVARIANTS
    OrphansOnlyAfterRename
PROPERTIES
    SuccessorKeepsItsData
    FreshOTLPWins
    DeadIsDropped
