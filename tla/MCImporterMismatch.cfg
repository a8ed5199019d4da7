SPECIFICATION Spec
CONSTANTS
    Importers = {i1}
    Keys <- Films
    MaxStamp = 2
    Holds <- Rolling
    MaxFaults = 0
    MaxCrashes = 0
    MaxDrops = 0
    Nobody = Nobody
    Orphan = Orphan
    NoSchema = NoSchema
INVARIANTS MismatchIsRefused
