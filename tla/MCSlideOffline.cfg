SPECIFICATION Spec
CONSTANTS
    p1 = p1
    p2 = p2
    Photo <- MCPhoto
    Cached <- MCCached
    Playlists <- MCPlaylistsLong
    MaxPreload = 1
    HistoryLen = 2
    MaxRequests = 1
    None = None
INVARIANTS StaysAlive
CHECK_DEADLOCK FALSE
