SPECIFICATION CardsSpec
CONSTANTS
    Faces = {a, c}
    Bare = {c}
    Years = {1, 2}
    Unfurlers = {r1, r2}
    Renders = 1
    MaxChanges = 2
    MaxBroken = 1
INVARIANT KeptShowsTheFilm
