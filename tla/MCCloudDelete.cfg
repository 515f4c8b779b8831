\* One photo; two passes or a second item; one delete run; every handler of the
\* library on the items.
SPECIFICATION SceneSpec
CONSTANTS
    None = None
    ph1 = ph1
    d1 = d1
    p1 = p1
    Photo = {ph1}
    Digest = {d1, d2}
    Path = {p1}
    Id = {i1, i2}
    Syncer = {s1, s2}
    Cleaner = {c1}
    Cap = 1
    MaxIntents = 1
    Content <- ContentDef
    FileOf <- FileOfDef
VIEW SceneView
SYMMETRY Symmetry
INVARIANTS LossOnlyInFlight RecordShaIsRemote CountsUnlessRaced
PROPERTIES StampKept
