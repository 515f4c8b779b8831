SPECIFICATION LibSpec
CONSTANTS
    a = a
    b = b
    oslo = oslo
    nowhere = nowhere
    p1 = p1
    ann = ann
    nobody = nobody
    any = any
    unsorted = unsorted
    Item = {a, b}
    Place = {oslo}
    NoPlace = nowhere
    Person = {p1}
    Name = {ann}
    NoName = nobody
    Fix <- MCFix
    Query <- MCQuery
    NoFilter = any
    Unsorted = unsorted
    ViewCacheSize = 1
    MaxWrites = 2
    MaxRestarts = 1
PROPERTIES Listed ManualKept GeocodesAll
CHECK_DEADLOCK FALSE
