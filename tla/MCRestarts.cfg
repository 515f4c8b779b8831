\* Two items on two paths and two contents, every handler; or one pass and two
\* delete runs with a cap of one over two photos; saves and audit appends that
\* fail, restarts with and without a schema bump.
SPECIFICATION RestartsSpec
CONSTANTS
    None = None
    ph1 = ph1
    d1 = d1
    p1 = p1
    Photo = {ph1, ph2}
    Digest = {d1, d2}
    Path = {p1, p2}
    Id = {i1, i2}
    Syncer = {s1}
    Cleaner = {c1, c2}
    Cap = 1
    MaxIntents = 2
    Content <- OneContent
    FileOf <- FileOfDef
SYMMETRY Symmetry
INVARIANTS
    CountsUnlessRaced
    DedupHolds
    OnePlace
    FlagTellsPlace
    RemovalsBounded
    AuditBeforeAction
PROPERTIES
    BytesConserved
