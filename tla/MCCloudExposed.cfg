\* An edit while the provider's delete is in flight.
SPECIFICATION UpSpec
CONSTANTS
    None = None
    ph1 = ph1
    d1 = d1
    p1 = p1
    Photo = {ph1}
    Digest = {d1, d2}
    Path = {p1}
    Id = {i1}
    Syncer = {s1}
    Cleaner = {c1}
    Cap = 1
    MaxIntents = 1
    Content <- ContentDef
    FileOf <- FileOfDef
VIEW NoRestartView
SYMMETRY Symmetry
INVARIANT NothingLost
