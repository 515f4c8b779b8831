SPECIFICATION FacesSpec
CONSTANTS
    i1 = i1
    i2 = i2
    l1 = l1
    l2 = l2
    l3 = l3
    n1 = n1
    n2 = n2
    Item = {i1, i2}
    Face = {f1, f2, f3, f4}
    Person = {p1, p2, p3, p4}
    Look <- MCLook
    Alike <- MCAlike
    Shows <- MCShows
    Name <- MCName
    Near <- MCNear
    None = None
    Batch = 2
    MaxEvents = 2
SYMMETRY Symmetry
INVARIANTS IndexHonest FacesOwned CountsDerived TagsAgree NoDuplicateFaces
PROPERTIES Regrouped
CHECK_DEADLOCK FALSE
