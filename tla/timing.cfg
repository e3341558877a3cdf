SPECIFICATION FairSpec
CHECK_DEADLOCK FALSE
CONSTANTS
    p2 = p2
    p3 = p3
    p4 = p4
    Peer = {p2, p3, p4}
    k = 2
    hang_timeout = 2
    block_publishing_delay = 3
    Nap = 2
INVARIANTS
    LateOnlyIfRefreshed
    PublishingHoldsUpNoRound
PROPERTIES
    NoHastyReplacement
    TicksForever
