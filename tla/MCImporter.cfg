SPECIFICATION Spec
CONSTANTS
    Importers = {i1, i2}
    Keys <- Films
    MaxStamp = 2
    Holds <- Rerated
    MaxFaults = 0
    MaxCrashes = 1
    MaxDrops = 0
    Nobody = Nobody
    Orphan = Orphan
    NoSchema = NoSchema
SYMMETRY Interchangeable
INVARIANTS
    TypeOK
    OneAtATime
    RecordedIsLive
    LiveWhole
    DecisionNotStale
    Bracketed
    ReferencesResolve
PROPERTIES PublishIsOneSwap
