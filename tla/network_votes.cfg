SPECIFICATION Spec
CHECK_DEADLOCK FALSE
CONSTANTS
    p1 = p1
    p2 = p2
    p3 = p3
    b1 = b1
    b2 = b2
    HeadBlock = HeadBlock
    NoBlock = NoBlock
    Peer = {p1, p2, p3}
    Block = {b1, b2}
    alfa = 2
    beta = 1
    k = 2
    MaxSeq = 2
    Members <- ThreeMembers
    Chain <- OneBlock
    Scenarios <- WrongVotes
CONSTRAINTS
    UntilRepeated
    AfterCrash
INVARIANTS
    TypeOK
    DistinctVoters
    MinorityCannotFlip
    AwaitedIsUnderWay
