SPECIFICATION FairSpec
CONSTANTS
  t1 = t1  t2 = t2  t3 = t3  p1 = p1  p2 = p2
  Empty = Empty  Junk = Junk
  ToGuest <- MCToGuest  ToHost <- MCToHost  Decoded <- MCDecoded
  Text = {t1}
  Image = {p1}
  MaxCopies = 2
  MaxEvents = 1
  Upsets = {"reset", "quit", "kill", "restart"}
PROPERTIES CopiesArrive
CHECK_DEADLOCK FALSE
