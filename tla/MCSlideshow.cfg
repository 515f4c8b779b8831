SPECIFICATION FairSpec
CONSTANTS
    p1 = p1
    p2 = p2
    Photo <- MCPhoto
    Cached <- MCCached
    Playlists <- MCPlaylists
    MaxPreload = 2
    HistoryLen = 2
    MaxRequests = 3
    None = None
INVARIANTS CursorInRange PlayedInOrder TimersMatchMode
PROPERTIES OnlySelectedShown PlaysAllButLast SelectionComesUp RevertsToLibrary
CHECK_DEADLOCK FALSE
