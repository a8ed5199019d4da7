SPECIFICATION Spec
CONSTANTS
    f1 = f1
    f2 = f2
    p = p
    q = q
    Known = {f1}
    Films = {f1, f2}
    People = {p, q}
    Readers = {r1}
    Workers = {w1}
    Directors <- TheDirectors
    Cast <- TheCast
    Leads = {q}
    Popular = {p, q}
    Filmography <- TheFilms
    DirectsToo = {p}
    Requests <- Asked
    FirstWave = 1
    Concurrency = 1
    Slots = 1
    QueueSize = 1
    MaxFaults = 1
INVARIANTS
    TypeOK
    SeenIsWritten
    OneWriterPerPerson
    CrawlsHoldSlots
    ReadsAreOfWritten
    QueuedIsHeld
PROPERTIES
    WaitingEnds
    LinkedAreLookedUp
CHECK_DEADLOCK FALSE
