SPECIFICATION DevicesSpec
CONSTANTS
    t1 = t1 t2 = t2 t3 = t3 p1 = p1 p2 = p2
    r1 = r1 r2 = r2
    Empty = Empty Junk = Junk
    ToGuest <- MCToGuest ToHost <- MCToHost Decoded <- MCDecoded
    Text = {t1, t3} Image = {p1, p2}
    MaxCopies = 2 MaxEvents = 2
    Upsets = {"toggle", "busy", "reset", "quit", "kill", "restart", "error"}
    BUFFERLENSAMPLES = 2 DmaUnits = {1, 2} SampleRate = {1, 2} kLatencyBuffers = 1 SoundUpsets = {"off"}
    VideoPages = 2 ScreenSize = {1, 2} VideoUpsets = {"slow_start"}
    PoolRow = {r1, r2} Unset = Unset
    FrameSize <- MCFrameSize ChangedRows <- MCChangedRows kFramePoolSize = 2 PostedMax = 3
    PKT_QUEUE_SIZE = 2 MaxFragments = 3 MaxArrivals = 5 NoFrame = NoFrame
    NetUpsets = {"mbufs", "kill", "reset", "resume"}
    d1 = d1 d2 = d2 d3 = d3 Datagram <- MCDatagram Units <- MCUnits Key <- MCKey
    REASM_SLOTS = 2 REASM_TIMEOUT = 0 REASM_MAX_LEN = 3 MaxTime = 1
    FragmentUpsets = {"lost", "again", "rate"}
INVARIANTS KnockPending OffersTheHostCopy PlayedInOrder PlayedAtItsRate UnmarkedIsShown
    NeverTorn HandedInOrder SentIsWhole
PROPERTIES NoEcho FramesShownWhole
CHECK_DEADLOCK FALSE
