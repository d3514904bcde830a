SPECIFICATION Spec
CONSTANTS
  x1 = x1  x2 = x2  i1 = i1  c1 = c1  c2 = c2  x3 = x3  i2 = i2
  None = None  NL = NL
  Blocks <- MCBlocks
  Cmd = {x1, i1}
  LongCmd = {}
  InternalCmd = {i1}
  Conn = {c1}
  RingSize = 4
  HeaderLen = 1
  DoneLen = 1
  NoticeLen = 0
  OutMax = 2
  NoGuestWait = 1
  GuestQuiet = 1
  GuestRing = 3
  MaxPrint = 0
  Upsets = {"hangup", "halfclose", "blank", "typeahead", "reset", "clock",
            "longcommand", "quit", "nostart", "unload"}
INVARIANT EndExpected
PROPERTY EndedIsTold
