SPECIFICATION FairSpec
CHECK_DEADLOCK FALSE
CONSTANTS
    p1 = p1
    p2 = p2
    p3 = p3
    b1 = b1
    b2 = b2
    HeadBlock = HeadBlock
    NoBlock = NoBlock
    Peer = {p1, p2, p3}
    Block = {b1, b2}
    alfa = 1
    beta = 1
    k = 1
    MaxSeq = 3
    Members <- ThreeMembers
    Chain <- TwoBlocks
    Scenarios <- HungInTime
PROPERTIES
    EveryNodeDecides
