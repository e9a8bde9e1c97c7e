SPECIFICATION StoreSpec
CONSTANTS
    Requests = {t1, t2}
    Projects = {p1}
    Proposals = {x1}
    Texts = {c1}
    None = None
    MaxRevision = 3
    MemThreads = {t1, t2}
    MemIds = {m1}
    MemNone = MemNone
    MemMaxVersion = 3
    GovThreads = {t1, t2}
    GovIds = {a1, a2}
    GovKinds = {"direct", "plugin", "R0", "R1"}
    GovNone = GovNone
    GovTTL = 1
    GovMaxPending = 2
    GovMaxItems = 1
    GovMaxTime = 1
    GovMaxRestarts = 1
    ExpOwners = {t1, t2}
    ExpLessons = {l1}
    PlgThreads = {t1, t2}
    PlgTokens = {k1, k2, k3}
    PlgNone = PlgNone
    FuRequests = {t1, t2}
    FuApprovals = {b1}
    FuInstances = {i1, i2, i3, i4}
    FuNone = FuNone
    FuMaxAttempts = 3
    KnoPaths = {f1, f2}
    KnoUnsupported = {f2}
    KnoGood = {c1, c2}
    KnoBad = {x1}
    KnoBig = {y1}
    KnoNone = KnoNone
    Lanes = {"projects", "memories", "execution", "trust", "plugins", "firstuse", "knowledge"}
INVARIANTS
    TypesOK
    HistoryIsComplete
    AppliedToItsBase
    NoRevisionWithoutDecision
    StatusFollowsTransitions
    MemHistoryIsComplete
    GovRiskyNeverRuns
    ExpTrustHasEvidence
    PlgCallsAreCurrent
    KnoScanSettles
PROPERTIES
    RecordIsFinal
    MemOnlyApprovalsShow
    GovImplementsAuthority
    ExpDecisionIsFinal
    PlgRemovesWhatItSaw
SYMMETRY MCSymmetry
