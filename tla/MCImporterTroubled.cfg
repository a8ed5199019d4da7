SPECIFICATION TroubledSpec
CONSTANTS
    Importers = {i1, i2}
    Keys <- Films
    MaxStamp = 2
    Holds <- Rolling
    MaxFaults = 1
    MaxCrashes = 1
    MaxDrops = 1
    Nobody = Nobody
    Orphan = Orphan
    NoSchema = NoSchema
PROPERTIES
    NeverUnserved
    NewSetIsPublished
