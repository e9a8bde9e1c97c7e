SPECIFICATION EngSpec
CONSTANTS
    EngApprovals = {a1, a2}
    EngRequests = {r1, r2}
    EngConversations = {v1, v2}
    EngContents = {c1, c2, c3}
    EngAbsent = EngAbsent
    EngNoApproval = EngNoApproval
    EngNoConversation = EngNoConversation
    EngInodes = {i1, i2}
    EngNoInode = EngNoInode
    EngTTL = 1
    EngMaxApprovals = 2
    EngMaxBindings = 2
    EngMaxTime = 0
    EngMaxFaults = 0
PROPERTIES
    EngReplaceNeverOverwrites
SYMMETRY MCSymmetry
