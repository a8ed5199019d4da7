SPECIFICATION Spec
CONSTANTS
    Importers = {i1, i2}
    Keys <- Films
    MaxStamp = 1
    Holds <- Rolling
    MaxFaults = 0
    MaxCrashes = 0
    MaxDrops = 1
    Nobody = Nobody
    Orphan = Orphan
    NoSchema = NoSchema
SYMMETRY Interchangeable
INVARIANTS LiveWhole
