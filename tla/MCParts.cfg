SPECIFICATION Spec
CONSTANTS
    f1 = f1
    f2 = f2
    f3 = f3
    d = d
    f4 = f4
    p = p
    q = q
    n = n
    u = u
    a = a
    t = t
    Films = {f1, f2, f3, d, f4}
    People = {p, q, n, u}
    Readers = {r1}
    LastGen = 2
    Titles <- EveryTitle
    Names <- Named
    Principals <- Billed
    Directors <- DirectedBy
    OffGrid = {d}
    Votes <- VotesCast
    Queries <- Searches
    Matched = {f2, f3}
    MaxSpine = 2
    SearchHits = 1
    MaxLost = 1
    Faces = {a, c}
    Bare = {c}
    Years = {1, 2}
    Unfurlers = {r1, r2}
    Renders = 1
    MaxChanges = 2
    MaxBroken = 1
    Jobs = {j1, j2}
    Every = 2
    MaxNotes = 3
    MaxBotches = 1
    Tconsts = {f1, f2, f3}
    Ids = {t}
    Matchable <- ToBeMatched
    TMDbOf <- Resolved
    Rank <- ByVotes
    Batch = 1
    MaxMishaps = 2
    Reads = {r1, r2}
    Room = 2
    BatchSize = 2
    MostBlank = 2
    MaxMarks = 4
    Pool = {f1, f2}
    Fragile = {f1}
    Visits = {r1, r2}
    Depth = 2
    Window = 2
    MaxSpent = 1
INVARIANTS
    MapHolds
    OfferedFilmsOpen
    VersionsHold
    NewsOnceInOrder
    MatchesAreTrue
    MarksSurviveStop
    GoneIsTwoMisses
PROPERTIES
    EditsAreSpaced
    BoardCatchesUp
    TitlesAreMatched
    GoneIsWrittenOff
CHECK_DEADLOCK FALSE
