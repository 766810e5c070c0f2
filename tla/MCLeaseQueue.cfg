SPECIFICATION FairSpec
CONSTANTS
    Threads = {t1, t2, t3}
    Keys = {k1, k2}
    Lanes = {l1, l2}
    NoLane = NoLane
    NoKey = NoKey
    MaxLanes = 1
    MaxDepth = 2
    MaxArrivals = 3
    MaxPoisons = 1
INVARIANTS
    SleeperNotServed
    ServedTicketHasOwner
PROPERTY
    ImplementsFifoLine
    EveryCallerLeaves
