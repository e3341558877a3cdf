SPECIFICATION Spec
CHECK_DEADLOCK FALSE
CONSTANTS
    p1 = p1
    p2 = p2
    p3 = p3
    p4 = p4
    b1 = b1
    b2 = b2
    b3 = b3
    HeadBlock = HeadBlock
    NoBlock = NoBlock
    Peer = {p1, p2, p3}
    Block = {b1, b2, b3}
    alfa = 1
    beta = 1
    k = 1
    MaxSeq = 4
    self = p1
    Members <- ThreeMembers
    Mobile = {}
    Votes = {0, 1}
    block_num <- Fork
    MaxRounds = 3
CONSTRAINT RoundBound
INVARIANTS
    PublishesWhenReady
