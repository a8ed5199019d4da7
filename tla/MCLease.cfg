SPECIFICATION FairSpec
CONSTANTS
    Runners = {r1, r2}
    Loops <- Apart
    MaxNews = 1
    MaxTroubles = 1
    Nobody = Nobody
    Orphan = Orphan
INVARIANTS
    TypeOK
    OnlyTheHolderWorks
    NoWakeLost
PROPERTIES
    AlwaysARunner
    WorkIsSeen
