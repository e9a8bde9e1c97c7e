SPECIFICATION FairSpec
CONSTANTS
    Automations = {1, 2}
    Requests = {q1}
    Workers = {w1}
    Contents <- MCOnceOnly
    NextDaily <- MCNextDaily
    Period = 2
    DailySearchDays = 8
    Grace = 1
    StaleAge = 1
    Batch = 1
    ApprovalTTL = 2
    OnceMinLead = 1
    OnceMaxHorizon = 2
    PendingMax = 2
    ActiveMax = 2
    MaxTime = 4
    MaxFaults = 1
PROPERTIES
    DueSlotSettles
