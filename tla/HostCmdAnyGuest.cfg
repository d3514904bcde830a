SPECIFICATION HostSpec
CONSTANTS
  x1 = x1  x2 = x2  i1 = i1  c1 = c1  c2 = c2
  None = None  NL = NL
  Blocks <- MCBlocks
  Cmd = {x1, x2, i1}
  LongCmd = {}
  InternalCmd = {i1}
  Conn = {c1}
  RingSize = 3
  HeaderLen = 1
  DoneLen = 1
  NoticeLen = 0
  OutMax = 2
  NoGuestWait = 1
  GuestQuiet = 1
INVARIANTS CommandInOnePlace
PROPERTIES NeverOverwritten FramesKept
