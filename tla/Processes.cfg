SPECIFICATION ProcessesSpec
CONSTANTS
    p1 = p1 p2 = p2 m1 = m1 m2 = m2
    Manager = Manager None = None Lost = Lost Blank = Blank
    Pid <- MCPid Machine <- MCMachine ReadOnly = {m2}
    Upsets = {"crash", "hand", "reopen", "ask"}
    CommandMax = 1 HostUpsets = {"fatal", "vnc_quit", "late_wait"}
    Mgr <- Two NoMgr = NoMgr SocketBuffer = 1 IpcUpsets = {"hung"}
    Row <- Two BlankRow = BlankRow NoFrame = NoFrame
    GuestSize <- MCGuestSize DirtyRange <- MCDirtyRange kMaxWidth = 1 kMaxHeight = 2
    FrameMode <- Two NoMode = NoMode
    FrameRows = 2 ReportedRows <- MCReportedRows EventMax = 2 kGlUndecidedPaintLimit = 1
    Emu <- Two Nobody = Nobody Lan = Lan NET_SLOT_MAX = 2 MaxFrames = 1 SocketRoom = 1
    WireUpsets = {"end", "reset", "probe", "nosocket"}
SYMMETRY Sym
INVARIANTS OneEmulatorPerMachine RecordIsTheUsers PanelReachesItsMachine QueuedIsSignalled
    OneDriver ToldOfRealLoss QuietPanelIsUpToDate RelayedOnce
PROPERTIES TurnedAwayOnlyWhenInUse LatestFrameKept
