SPECIFICATION FairThreadsSpec
CONSTANTS
    g1 = g1 g2 = g2
    CommandMax = 1 HostUpsets = {}
    Mgr <- MCMgr NoMgr = NoMgr SocketBuffer = 1 IpcUpsets = {}
    BUFFERLENSAMPLES = 2 DmaUnits = {1} SampleRate = {1} kLatencyBuffers = 1 SoundUpsets = {"loadstate", "off"}
    VideoPages = 1 ScreenSize = {1} VideoUpsets = {}
    PKT_QUEUE_SIZE = 2 MaxFragments = 3 MaxArrivals = 4 NoFrame = NoFrame
    NetUpsets = {"kill", "reset", "resume"}
INVARIANT FrameIsAnnounced
PROPERTIES RequestReturns CloseEnds ManagersAreServed SendsEnd  StillIsShown SlotIsFreed
CHECK_DEADLOCK FALSE
