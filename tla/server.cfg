SPECIFICATION Spec
CONSTANTS
  c1 = c1
  c2 = c2
  c3 = c3
  c4 = c4
  c5 = c5
  Main = Main
  None = None
  Conns = {c1, c2, c3, c4, c5}
  Fds = {7, 8}
  Reactors = 2
SYMMETRY Alike
INVARIANTS TypeOK PolledAreOpen ListedAreAlive DealtEvenly
CHECK_DEADLOCK FALSE
