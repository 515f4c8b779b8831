SPECIFICATION FairSpec
CONSTANTS
    p1 = p1
    p2 = p2
    Photo <- MCPhoto
    Cached <- MCCached
    Playlists <- MCPlaylistsLong
    MaxPreload = 1
    HistoryLen = 2
    MaxRequests = 3
    None = None
PROPERTIES LibraryComesUp
CHECK_DEADLOCK FALSE
