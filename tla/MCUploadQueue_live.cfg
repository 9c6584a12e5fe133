SPECIFICATION FairSpec
CONSTANTS
    u1 = u1
    u2 = u2
    u3 = u3
    u4 = u4
    Uploads = {u1, u2, u3}
    Provers = {u1}
    Size <- MCOversized
    MaxMessageSize = 3
    Outcomes = {"rejected", "accepted"}
PROPERTY EveryUploadAnswered
CHECK_DEADLOCK FALSE
