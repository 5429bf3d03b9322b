CONSTANTS
    CacheSize = 2
    Lobbies = {l1, l2, l3}
    None = None
    Interval = 5
    Expiry = 8
    Window = 10
    ShortPoll = 2
    LongPoll = 5
    BusyPoll = 1
    IdleLimit = 6
    MaxJunk = 2
SPECIFICATION LobbySpec
SYMMETRY Symmetry
INVARIANTS OneSlotPerLobby 
