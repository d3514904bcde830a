SPECIFICATION FairSpec
CONSTANTS
  t1 = t1  t2 = t2  t3 = t3  p1 = p1  p2 = p2
  Empty = Empty  Junk = Junk
  ToGuest <- MCToGuest  ToHost <- MCToHost  Decoded <- MCDecoded
  Text = {t1}
  Image = {}
  MaxCopies = 0
  MaxEvents = 1
  Upsets = {"toggle"}
PROPERTIES SwitchingOnConnects
CHECK_DEADLOCK FALSE
