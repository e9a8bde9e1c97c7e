SPECIFICATION CliSpec
CONSTANTS
    CliConversations = {c1, c2}
    CliCards = {k1}
    CliNone = CliNone
    CliMaxVersion = 2
INVARIANTS
    CliOneConversation
SYMMETRY MCSymmetry
