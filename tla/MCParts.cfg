SPECIFICATION PartsSpec
CONSTANTS
    m1 = m1
    m2 = m2
    m3 = m3
    any = any
    sunny = sunny
    den = den
    hall = hall
    trip = trip
    xmas = xmas
    f1 = f1
    f2 = f2
    f3 = f3
    f4 = f4
    f5 = f5
    f6 = f6
    b1 = b1
    b2 = b2
    Photo = {m1, m2, m3}
    Order <- MCOrder
    Term = {any, sunny}
    NoTerm = any
    Matches <- MCMatches
    PageSize = 2
    MaxClicks = 3
    Shot = {m1, m2}
    Face = {f1, f2}
    Nothing = Nothing
    Ghost = Ghost
    MaxPresses = 3
    Lanes = 2
    MaxFiles = 3
    MaxDrops = 2
    Frame = {den, hall}
    NoFrame = NoFrame
    Picture = {f1, f2}
    NoPicture = NoPicture
    MaxPolls = 2
    MaxTurns = 2
    MaxLosses = 1
    Item = {m1, m2, m3}
    Broken = {m1}
    Absent = Absent
    MaxEdits = 6
    Sender = {f3, f4, f5, f6}
    Body <- MCBody
    Limit = 2
    Hole = Hole
    NoInode = NoInode
    Title = {trip, xmas}
    NoTitle = NoTitle
    Bunch <- MCBunch
    MaxPosts = 2
    MaxTaps = 3
    MaxUnsaved = 1
    Path = {f1, f2, f3, f4}
    Bytes <- MCBytes
    MaxItems = 2
    MaxBytes = 3
    Preload = 2
    NotYet = NotYet
    MaxBuilt = 2
    MaxFailed = 1
    Tip = 4
    Good = {1, 3}
    Needs <- MCNeeds
    MaxCuts = 2
    MaxVersion = 2
    MaxFaults = 1
INVARIANTS GridShowsNewest MarksTellSelection CardActsOnItsPhoto
           ThumbsTrue UploadedWhole UpBetweenUpdates SetupRepairs
           AddedStays CardWithinLimits
PROPERTIES DownloadedKept UploadsEnd StatusComesTrue WarmsAll
CHECK_DEADLOCK FALSE
