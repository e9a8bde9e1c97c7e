SPECIFICATION LaneSpec
CONSTANTS
    Approvals = {a1, a2}
    Requests = {t1, t2}
    Contents = {c1, c2}
    NoContent = NoContent
    NoApproval = NoApproval
    TTL = 1
    MaxApprovals = 1
    MaxClaims = 1
    MaxTime = 1
    MaxFaults = 1
    CalApprovals = {a1, a2}
    CalThreads = {t1, t2}
    CalNone = CalNone
    CalTargeted = {"update", "delete"}
    CalTTL = 1
    CalMaxRecords = 2
    CalMaxTime = 1
    CalMaxCalls = 4
    LaiApprovals = {a1, a2}
    LaiThreads = {t1, t2}
    LaiNone = LaiNone
    LaiTTL = 1
    LaiMaxRecords = 1
    LaiMaxTime = 1
    LaiMaxCalls = 4
    OaThreads = {t1, t2}
    OaFlows = {f1, f2}
    OaGrants = {g1, g2, g3}
    OaNone = OaNone
    OaMaxPending = 1
    OaMaxRotations = 2
    CogTurns = {t1, t2}
    CogConvs = {v1, v2}
    CogExisting = {v1}
    CogNone = CogNone
    ChaThreads = {t1, t2}
    ChaConvs = {v1}
    ChaApprovals = {a1, a2}
    ChaDates = {d1}
    ChaNone = ChaNone
    ChaQuestionTTL = 1
    ChaApprovalTTL = 1
    ChaContextTTL = 1
    ChaMaxQuestions = 1
    ChaMaxBound = 1
    ChaMaxContexts = 1
    ChaMaxTime = 1
    ChaMaxTurns = 3
    Lanes = {"oauth"}
PROPERTIES
    OaRevokedBeforeDeleted
SYMMETRY MCSymmetry
