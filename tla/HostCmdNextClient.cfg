SPECIFICATION FairSpec
CONSTANTS
  x1 = x1  x2 = x2  i1 = i1  c1 = c1  c2 = c2  x3 = x3  i2 = i2
  None = None  NL = NL
  Blocks <- MCBlocks
  Cmd = {x1, x2}
  LongCmd = {}
  InternalCmd = {}
  Conn = {c1, c2}
  RingSize = 7
  HeaderLen = 1
  DoneLen = 1
  NoticeLen = 0
  OutMax = 2
  NoGuestWait = 1
  GuestQuiet = 2
  GuestRing = 3
  MaxPrint = 1
  Upsets = {"hangup"}
PROPERTIES EveryCommandAnswered
