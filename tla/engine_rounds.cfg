SPECIFICATION Spec
CHECK_DEADLOCK FALSE
CONSTANTS
    p1 = p1
    p2 = p2
    p3 = p3
    p4 = p4
    b1 = b1
    b2 = b2
    b3 = b3
    HeadBlock = HeadBlock
    NoBlock = NoBlock
    Peer = {p1, p2, p3, p4}
    Block = {b1}
    alfa = 2
    beta = 2
    k = 2
    MaxSeq = 3
    self = p1
    Members <- FourMembers
    Mobile = {}
    Votes = {0, 1}
    block_num <- Chain
    MaxRounds = 6
CONSTRAINT RoundBound
INVARIANTS
    TypeOK
    RoundAccounting
    ConfidenceIsStreak
    ColorIsPlurality
    DecidesAtBeta
    UnwrapsSafe
