SPECIFICATION MCSpec
CONSTANTS
  p1 = p1
  p2 = p2
  w1 = w1
  w2 = w2
  c1 = c1
  None = None
  Intr = Intr
  Readers = {p1, p2}
  Sleepers = {p1, p2}
  Writers = {w1, w2}
  Printers = {c1}
  INPUT_BUF_SIZE = 3
  Counts = {2}
  TICKS = 4
  Naps <- SleepFor
INVARIANTS OutputInOrder ConsoleInv SleptEnough
PROPERTIES OutputFlows IsLineInput
CHECK_DEADLOCK FALSE
