SPECIFICATION Spec
CONSTANTS
    Runners = {r1}
    Loops <- Sharing
    MaxNews = 1
    MaxTroubles = 0
    Nobody = Nobody
    Orphan = Orphan
INVARIANTS EveryLoopIsTold
