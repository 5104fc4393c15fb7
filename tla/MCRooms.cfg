SPECIFICATION FairSpec
CONSTANTS
    video = video
    audio = audio
    host = host
    guest = guest
    other = other
    NoUser = NoUser
    Rooms = {video, audio}
    Users = {host, guest, other}
    ownerId <- Owner
    kind <- Kind
    Inside <- Guests
    audioHostEndsLive = FALSE
    MicCounts = {1, 2}
    Workloads <- AllLoads
INVARIANTS
    OneSeatEach
    NobodyUncounted
PROPERTIES
    SeatsKeepTheirUsers
    ListsLoseOnlyTheTarget
    AbandonedRoomsClose
CHECK_DEADLOCK FALSE
