SPECIFICATION LaneSpec
CONSTANTS
    Automations = {1}
    Requests = {q1, q2}
    Workers = {w1, w2}
    Contents <- MCContents
    NextDaily <- MCNextDaily
    Period = 1
    DailySearchDays = 8
    Grace = 1
    StaleAge = 2
    Batch = 2
    ApprovalTTL = 2
    OnceMinLead = 1
    OnceMaxHorizon = 4
    PendingMax = 2
    ActiveMax = 2
    MaxTime = 3
    MaxFaults = 1
    EngApprovals = {w1, w2}
    EngRequests = {q1, q2}
    EngConversations = {v1}
    EngContents = {d1}
    EngAbsent = EngAbsent
    EngNoApproval = EngNoApproval
    EngNoConversation = EngNoConversation
    EngInodes = {i1, i2}
    EngNoInode = EngNoInode
    EngTTL = 1
    EngMaxApprovals = 2
    EngMaxBindings = 2
    EngMaxTime = 1
    EngMaxFaults = 1
    CliConversations = {q1, q2}
    CliCards = {w1, w2}
    CliNone = CliNone
    CliMaxVersion = 3
INVARIANTS
    TypesOK
    RunsWithinGrant
    ScheduleMovesOn
    EngPresentationIsTruthful
    CliAnswersAreAwaited
PROPERTIES
    SettlementIsFinal
    EngCreateNeverOverwrites
    EngImplementsAuthority
    CliOnlyLastChoiceShows
SYMMETRY LaneSymmetry
