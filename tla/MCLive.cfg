SPECIFICATION LiveSpec
CONSTANTS
    Automations = {1}
    Requests = {q1}
    Workers = {w1}
    Contents <- MCContents
    NextDaily <- MCNextDaily
    Period = 2
    DailySearchDays = 8
    Grace = 1
    StaleAge = 1
    Batch = 2
    ApprovalTTL = 2
    OnceMinLead = 1
    OnceMaxHorizon = 4
    PendingMax = 2
    ActiveMax = 2
    MaxTime = 5
    MaxFaults = 2
    Approvals = {a1, a2}
    Threads = {r1, r2}
    Messages = {c1}
    NoContent = NoContent
    NoApproval = NoApproval
    TTL = 1
    MaxApprovals = 1
    MaxClaims = 1
    GmailMaxTime = 1
    Restarts = 1
PROPERTIES
    DueSlotSettles
    ClaimSettles
