SPECIFICATION HistorySpec
CONSTANTS
    f = f
    g = g
    NoRow = NoRow
    Films = {f, g}
    Plain <- Listed
    Adult <- Flagged
    Pool <- Screened
    Votes <- Known
    LastGen = 6
    OMDbBatch = 1
    TMDbBatch = 1
    MinVotes = 2
    MaxFaults = 1
    MaxReads = 2
    MaxDeaths = 1
PROPERTIES PictureKept
CHECK_DEADLOCK FALSE
