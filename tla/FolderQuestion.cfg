SPECIFICATION Spec
CONSTANTS
  p1 = p1  p2 = p2  m1 = m1  m2 = m2
  Manager = Manager  None = None  Lost = Lost  Blank = Blank
  Pid <- MCPid
  Machine <- MCMachine
  ReadOnly = {}
  Upsets = {"ask"}
SYMMETRY Sym
PROPERTIES LookingTellsAndLeavesAlone
